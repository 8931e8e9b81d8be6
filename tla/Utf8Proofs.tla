----------------------------- MODULE Utf8Proofs -----------------------------
(* The decoder accepts exactly UTF-8: strings of any length over all bytes. *)
EXTENDS Utf8Validator, SequenceLemmas

\* Every byte has one of the twelve classes.
LEMMA TypeType == \A b \in Byte : Type(b) \in ByteType
BY DEF Byte, Type, ByteType

\* Every entry of the table is a row of the table.
LEMMA DecodeType ==
  \A s \in DecoderState, b \in Byte : Decode(s, b) \in DecoderState
<1> SUFFICES ASSUME NEW s \in DecoderState, NEW t \in ByteType
             PROVE  Step(s, t) \in DecoderState
  BY TypeType DEF Decode
<1> QED BY DEF Step, Start, DecoderState, ByteType, REJECT

\* No byte leads out of the REJECT state.
LEMMA RejectStays == \A b \in Byte : Decode(REJECT, b) = REJECT
BY DEF Decode, Step, REJECT

\* The decoder never reads outside its table: validate_utf8_sequence is safe
\* on every string.
THEOREM TypeCorrect == Spec => []TypeOK
<1>1. Init => TypeOK
  BY DEF Init, TypeOK, ACCEPT, DecoderState
<1>2. TypeOK /\ [Next]_vars => TypeOK'
  <2> SUFFICES ASSUME TypeOK, [Next]_vars PROVE TypeOK'
    OBVIOUS
  <2>1. ASSUME NEW b \in Bytes, Feed(b) PROVE TypeOK'
    <3>1. b \in Byte
      BY BytesAssumption
    <3> QED BY <2>1, <3>1, DecodeType DEF Feed, TypeOK
  <2>2. CASE UNCHANGED vars
    BY <2>2 DEF vars, TypeOK
  <2> QED BY <2>1, <2>2 DEF Next
<1> QED BY <1>1, <1>2, PTL DEF Spec

\* validate_utf8_sequence reads a string to its end: what it met that is not
\* UTF-8 still decides its answer there.
THEOREM RefusalIsFinal == Spec => RejectIsAbsorbing
<1>1. [Next]_vars => [state = REJECT => state' = REJECT]_vars
  <2> SUFFICES ASSUME NEW b \in Bytes, Feed(b), state = REJECT
               PROVE  state' = REJECT
    BY DEF Next
  <2>1. b \in Byte
    BY BytesAssumption
  <2> QED BY <2>1, RejectStays DEF Feed
<1> QED BY <1>1, PTL DEF Spec, RejectIsAbsorbing

-----------------------------------------------------------------------------
(* The decoder and one character.                                          *)

Mark == 128..191   \* the continuation bytes

\* The first bytes, by the state they lead to.
LEMMA LeadStates ==
  ASSUME NEW b \in Byte
  PROVE  /\ Decode(0, b) = 0 <=> b \in 0..127
         /\ Decode(0, b) = 2 <=> b \in 194..223
         /\ Decode(0, b) = 3 <=> (b \in 225..236 \/ b \in 238..239)
         /\ Decode(0, b) = 4 <=> b = 224
         /\ Decode(0, b) = 5 <=> b = 237
         /\ Decode(0, b) = 6 <=> b = 240
         /\ Decode(0, b) = 7 <=> b \in 241..243
         /\ Decode(0, b) = 8 <=> b = 244
<1>1. Decode(0, b) = Start(Type(b))
  BY DEF Decode, Step
<1>2. Type(b) \in ByteType
  BY TypeType
<1>3. /\ Start(Type(b)) = 0 <=> Type(b) = 0
      /\ Start(Type(b)) = 2 <=> Type(b) = 2
      /\ Start(Type(b)) = 3 <=> Type(b) = 3
      /\ Start(Type(b)) = 4 <=> Type(b) = 10
      /\ Start(Type(b)) = 5 <=> Type(b) = 4
      /\ Start(Type(b)) = 6 <=> Type(b) = 11
      /\ Start(Type(b)) = 7 <=> Type(b) = 6
      /\ Start(Type(b)) = 8 <=> Type(b) = 5
  BY <1>2, SMT DEF Start, REJECT, ByteType
<1>4. /\ Type(b) = 0 <=> b \in 0..127
      /\ Type(b) = 2 <=> b \in 194..223
      /\ Type(b) = 3 <=> (b \in 225..236 \/ b \in 238..239)
      /\ Type(b) = 10 <=> b = 224
      /\ Type(b) = 4 <=> b = 237
      /\ Type(b) = 11 <=> b = 240
      /\ Type(b) = 6 <=> b \in 241..243
      /\ Type(b) = 5 <=> b = 244
  <2>1. \/ b \in 0..127 /\ Type(b) = 0
        \/ b \in 128..143 /\ Type(b) = 1
        \/ b \in 144..159 /\ Type(b) = 9
        \/ b \in 160..191 /\ Type(b) = 7
        \/ b \in 192..193 /\ Type(b) = 8
        \/ b \in 194..223 /\ Type(b) = 2
        \/ b = 224 /\ Type(b) = 10
        \/ (b \in 225..236 \/ b \in 238..239) /\ Type(b) = 3
        \/ b = 237 /\ Type(b) = 4
        \/ b = 240 /\ Type(b) = 11
        \/ b \in 241..243 /\ Type(b) = 6
        \/ b = 244 /\ Type(b) = 5
        \/ b \in 245..255 /\ Type(b) = 8
    BY SMTT(60) DEF Byte, Type
  <2> QED BY <2>1, SMT
<1> QED BY <1>1, <1>3, <1>4

\* The other bytes: each state but ACCEPT has one that it leads to.
LEMMA MarkStates ==
  ASSUME NEW b \in Byte
  PROVE  /\ Decode(2, b) = IF b \in Mark THEN 0 ELSE 1
         /\ Decode(3, b) = IF b \in Mark THEN 2 ELSE 1
         /\ Decode(4, b) = IF b \in 160..191 THEN 2 ELSE 1
         /\ Decode(5, b) = IF b \in 128..159 THEN 2 ELSE 1
         /\ Decode(6, b) = IF b \in 144..191 THEN 3 ELSE 1
         /\ Decode(7, b) = IF b \in Mark THEN 3 ELSE 1
         /\ Decode(8, b) = IF b \in 128..143 THEN 3 ELSE 1
<1>1. /\ Type(b) \in {1, 7, 9} <=> b \in Mark
      /\ Type(b) = 7 <=> b \in 160..191
      /\ Type(b) \in {1, 9} <=> b \in 128..159
      /\ Type(b) \in {7, 9} <=> b \in 144..191
      /\ Type(b) = 1 <=> b \in 128..143
  BY SMT DEF Byte, Type, Mark
<1> QED BY <1>1, SMT DEF Decode, Step, REJECT


\* What Encodes says of a character of each length, with the tables read.
LEMMA Tables ==
  /\ LeadRange[1] = 0..127 /\ LeadRange[2] = 192..223 /\ LeadRange[3] = 224..239 /\ LeadRange[4] = 240..247
  /\ LeadMark[1] = 0 /\ LeadMark[2] = 192 /\ LeadMark[3] = 224 /\ LeadMark[4] = 240
  /\ Shortest[1] = 0 /\ Shortest[2] = 128 /\ Shortest[3] = 2048 /\ Shortest[4] = 65536
BY SMT DEF LeadRange, LeadMark, Shortest

LEMMA EncodesOne ==
  ASSUME NEW c, Len(c) = 1, c[1] \in Byte
  PROVE  Encodes(c) <=> c[1] \in 0..127
<1>1. CodePoint(c) = c[1]
  BY Tables, SMT DEF CodePoint, Lead, Byte
<1>2. Encodes(c) <=> c[1] \in 0..127 /\ Scalar(CodePoint(c)) /\ CodePoint(c) >= 0
  BY Tables, SMT DEF Encodes
<1>3. \A n \in 0..127 : Scalar(n)
  BY SMT DEF Scalar
<1> QED BY <1>1, <1>2, <1>3

LEMMA EncodesTwo ==
  ASSUME NEW c, Len(c) = 2, c[1] \in Byte, c[2] \in Byte
  PROVE  Encodes(c) <=> c[1] \in 194..223 /\ c[2] \in Mark
<1>1. CodePoint(c) = 64 * (c[1] - 192) + (c[2] - 128)
  BY Tables, SMT DEF CodePoint, Lead, Cont
<1>2. Encodes(c) <=> /\ c[1] \in 192..223 /\ c[2] \in 128..191
                     /\ Scalar(CodePoint(c)) /\ CodePoint(c) >= 128
  <2>1. (\A i \in 2..2 : c[i] \in 128..191) <=> c[2] \in 128..191
    OBVIOUS
  <2> QED BY <2>1, Tables, SMT DEF Encodes
<1> QED BY <1>1, <1>2, SMT DEF Byte, Mark, Scalar

\* A character of three bytes.
ThreeBytes(x, y, z) ==
  /\ y \in Mark /\ z \in Mark
  /\ \/ x \in 225..236 \/ x \in 238..239
     \/ x = 224 /\ y \in 160..191
     \/ x = 237 /\ y \in 128..159

LEMMA EncodesThree ==
  ASSUME NEW x \in Byte, NEW y \in Byte, NEW z \in Byte,
         NEW c, Len(c) = 3, c[1] = x, c[2] = y, c[3] = z
  PROVE  Encodes(c) <=> ThreeBytes(x, y, z)
<1> DEFINE n == 64 * (64 * (x - 224) + (y - 128)) + (z - 128)
<1>1. CodePoint(c) = n
  BY Tables, SMT DEF CodePoint, Lead, Cont
<1>2. Encodes(c) <=> /\ x \in 224..239 /\ y \in 128..191 /\ z \in 128..191
                     /\ Scalar(n) /\ n >= 2048
  <2>1. (\A i \in 2..3 : c[i] \in 128..191) <=> y \in 128..191 /\ z \in 128..191
    OBVIOUS
  <2> HIDE DEF n
  <2> QED BY <1>1, <2>1, Tables, SMT DEF Encodes
<1>3. ASSUME x \in 224..239, y \in Mark, z \in Mark
      PROVE  Scalar(n) /\ n >= 2048 <=> \/ x \in 225..236 \/ x \in 238..239
                                        \/ x = 224 /\ y \in 160..191
                                        \/ x = 237 /\ y \in 128..159
  BY <1>3, SMT DEF Scalar, Mark
<1> HIDE DEF n
<1> QED BY <1>2, <1>3, SMT DEF Mark, ThreeBytes

\* A character of four bytes.
FourBytes(x, y, z, w) ==
  /\ y \in Mark /\ z \in Mark /\ w \in Mark
  /\ \/ x \in 241..243
     \/ x = 240 /\ y \in 144..191
     \/ x = 244 /\ y \in 128..143

LEMMA EncodesFour ==
  ASSUME NEW x \in Byte, NEW y \in Byte, NEW z \in Byte, NEW w \in Byte,
         NEW c, Len(c) = 4, c[1] = x, c[2] = y, c[3] = z, c[4] = w
  PROVE  Encodes(c) <=> FourBytes(x, y, z, w)
<1> DEFINE n == 64 * (64 * (64 * (x - 240) + (y - 128)) + (z - 128)) + (w - 128)
<1>1. CodePoint(c) = n
  BY Tables, SMT DEF CodePoint, Lead, Cont
<1>2. Encodes(c) <=> /\ x \in 240..247 /\ y \in 128..191 /\ z \in 128..191 /\ w \in 128..191
                     /\ Scalar(n) /\ n >= 65536
  <2>1. (\A i \in 2..4 : c[i] \in 128..191) <=> y \in 128..191 /\ z \in 128..191 /\ w \in 128..191
    OBVIOUS
  <2> HIDE DEF n
  <2> QED BY <1>1, <2>1, Tables, SMT DEF Encodes
<1>3. ASSUME x \in 240..247, y \in Mark, z \in Mark, w \in Mark
      PROVE  Scalar(n) /\ n >= 65536 <=> \/ x \in 241..243
                                         \/ x = 240 /\ y \in 144..191
                                         \/ x = 244 /\ y \in 128..143
  BY <1>3, SMT DEF Scalar, Mark
<1> HIDE DEF n
<1> QED BY <1>2, <1>3, SMT DEF Mark, FourBytes

\* The ways into each state.
Enters(y, x, b) ==
  /\ y = 0 <=> \/ x = 0 /\ b \in 0..127
               \/ x = 2 /\ b \in Mark
  /\ y = 2 <=> \/ x = 0 /\ b \in 194..223
               \/ x = 3 /\ b \in Mark
               \/ x = 4 /\ b \in 160..191
               \/ x = 5 /\ b \in 128..159
  /\ y = 3 <=> \/ x = 0 /\ (b \in 225..236 \/ b \in 238..239)
               \/ x = 6 /\ b \in 144..191
               \/ x = 7 /\ b \in Mark
               \/ x = 8 /\ b \in 128..143
  /\ y = 4 <=> x = 0 /\ b = 224
  /\ y = 5 <=> x = 0 /\ b = 237
  /\ y = 6 <=> x = 0 /\ b = 240
  /\ y = 7 <=> x = 0 /\ b \in 241..243
  /\ y = 8 <=> x = 0 /\ b = 244

LEMMA StatesBefore ==
  ASSUME NEW x \in DecoderState, NEW b \in Byte, NEW y, y = Decode(x, b)
  PROVE  Enters(y, x, b)
<1>1. CASE x = 0
  <2>1. y = Decode(0, b)
    BY <1>1
  <2>2. /\ y = 0 <=> b \in 0..127
        /\ y = 2 <=> b \in 194..223
        /\ y = 3 <=> (b \in 225..236 \/ b \in 238..239)
    BY ONLY <2>1, LeadStates, SMTT(30)
  <2>3. /\ y = 4 <=> b = 224
        /\ y = 5 <=> b = 237
        /\ y = 6 <=> b = 240
    BY ONLY <2>1, LeadStates, SMTT(30)
  <2>4. /\ y = 7 <=> b \in 241..243
        /\ y = 8 <=> b = 244
    BY ONLY <2>1, LeadStates, SMTT(30)
  <2> QED BY ONLY <1>1, <2>2, <2>3, <2>4, SMT DEF Enters
<1>2. CASE x = 1
  BY <1>2, RejectStays DEF REJECT, Enters
<1>3. CASE x \in 2..8
  BY <1>3, MarkStates, SMT DEF Enters
<1> QED BY <1>1, <1>2, <1>3 DEF DecoderState

-----------------------------------------------------------------------------
(* The decoder and a string.                                               *)

\* r holds the decoder's states before the first byte of s and after each.
DecoderRun(s, r) ==
  /\ r \in [0..Len(s) -> DecoderState]
  /\ r[0] = ACCEPT
  /\ \A k \in 1..Len(s) : r[k] = Decode(r[k - 1], s[k])

\* The recursive function of ValidateUtf8 is the run of the decoder.
LEMMA RunOfDecoder ==
  ASSUME NEW s \in Seq(Byte)
  PROVE  DecoderRun(s, DecoderStates(s))
<1>0. Len(s) \in Nat /\ \A k \in 1..Len(s) : s[k] \in Byte
  BY LenProperties, ElementOfSeq
<1> DEFINE F == [k \in 1..Len(s) |-> [x \in DecoderState |-> Decode(x, s[k])]]
           Equation(f) == f = [n \in 0..Len(s) |-> IF n = 0 THEN ACCEPT ELSE Decode(f[n - 1], s[n])]
           r == DecoderStates(s)
<1>1. PICK f : Trace(f, Len(s), DecoderState, ACCEPT, F)
  <2>1. \A k \in 1..Len(s) : \A x \in DecoderState : F[k][x] \in DecoderState
    BY <1>0, DecodeType
  <2>2. ACCEPT \in DecoderState
    BY DEF ACCEPT, DecoderState
  <2> HIDE DEF F
  <2> QED BY ONLY <1>0, <2>1, <2>2, TraceExists
<1>2. /\ f \in [0..Len(s) -> DecoderState] /\ f[0] = ACCEPT
      /\ \A k \in 1..Len(s) : f[k] = F[k][f[k - 1]]
  BY <1>1 DEF Trace
<1>3. \A k \in 1..Len(s) : f[k - 1] \in DecoderState /\ f[k] = Decode(f[k - 1], s[k])
  <2>1. \A k \in 1..Len(s) : k - 1 \in 0..Len(s)
    BY <1>0
  <2> QED BY <1>2, <2>1
<1>4. Equation(f)
  BY <1>0, <1>2, <1>3
<1>5. Equation(r)
  BY <1>4 DEF DecoderStates
<1>6. r[0] = ACCEPT /\ \A k \in 1..Len(s) : r[k] = Decode(r[k - 1], s[k])
  <2> HIDE DEF r
  <2> QED BY <1>0, <1>5
<1>7. DOMAIN r = 0..Len(s) /\ r = [k \in 0..Len(s) |-> r[k]]
  <2> HIDE DEF r
  <2> QED BY <1>5
<1>8. \A k \in 0..Len(s) : k \in {m \in 0..Len(s) : r[m] = f[m]}
  <2> HIDE DEF r
  <2>1. 0 \in {m \in 0..Len(s) : r[m] = f[m]}
    BY <1>0, <1>2, <1>6
  <2>2. \A k \in 1..Len(s) : k - 1 \in {m \in 0..Len(s) : r[m] = f[m]} => k \in {m \in 0..Len(s) : r[m] = f[m]}
    BY <1>0, <1>3, <1>6
  <2> QED BY ONLY <1>0, <2>1, <2>2, InductionUpTo
<1> HIDE DEF r
<1>9. r \in [0..Len(s) -> DecoderState]
  BY <1>2, <1>7, <1>8
<1> QED BY <1>6, <1>9 DEF DecoderRun, r

\* The run goes on with the next byte.
LEMMA RunAppend ==
  ASSUME NEW s \in Seq(Byte), NEW r, DecoderRun(s, r), NEW b \in Byte
  PROVE  \E q : DecoderRun(Append(s, b), q) /\ q[Len(s) + 1] = Decode(r[Len(s)], b)
<1> DEFINE t == Append(s, b)
           q == [k \in 0..Len(s) + 1 |-> IF k = Len(s) + 1 THEN Decode(r[Len(s)], b) ELSE r[k]]
<1>1. /\ Len(s) \in Nat /\ Len(t) = Len(s) + 1 /\ t[Len(s) + 1] = b
      /\ \A k \in 1..Len(s) : t[k] = s[k]
  BY LenProperties, AppendProperties
<1>2. r \in [0..Len(s) -> DecoderState] /\ r[0] = ACCEPT
  BY DEF DecoderRun
<1>3. Decode(r[Len(s)], b) \in DecoderState
  BY <1>1, <1>2, DecodeType
<1>4. q \in [0..Len(t) -> DecoderState] /\ q[0] = ACCEPT
  BY <1>1, <1>2, <1>3
<1>5. ASSUME NEW k \in 1..Len(t) PROVE q[k] = Decode(q[k - 1], t[k])
  <2>1. CASE k = Len(s) + 1
    BY <1>1, <2>1
  <2>2. CASE k # Len(s) + 1
    BY <1>1, <2>2 DEF DecoderRun
  <2> QED BY <2>1, <2>2
<1>6. q[Len(s) + 1] = Decode(r[Len(s)], b)
  BY <1>1
<1> HIDE DEF q
<1> QED BY <1>4, <1>5, <1>6 DEF DecoderRun

\* Wherever the decoder is in its ACCEPT state a character ends that began
\* where it was in that state too, and wherever one ends it is there.
LEMMA CharacterEnds ==
  ASSUME NEW s \in Seq(Byte), NEW r, DecoderRun(s, r), NEW i \in 1..Len(s)
  PROVE  r[i] = ACCEPT <=>
           \E n \in 1..4 : n <= i /\ r[i - n] = ACCEPT /\ Encodes(SubSeq(s, i - n + 1, i))
<1> DEFINE c(n) == SubSeq(s, i - n + 1, i)
<1>0. Len(s) \in Nat /\ i \in Nat /\ i >= 1
  BY LenProperties
<1>1. \A k \in 1..Len(s) : s[k] \in Byte /\ r[k - 1] \in DecoderState /\ r[k] = Decode(r[k - 1], s[k])
  BY <1>0, ElementOfSeq DEF DecoderRun
<1>2. ASSUME NEW n \in 1..4, n <= i
      PROVE  Len(c(n)) = n /\ \A k \in 1..n : c(n)[k] = s[i - n + k] /\ c(n)[k] \in Byte
  <2>1. i - n + 1 \in Int /\ i \in Int /\ \A j \in (i - n + 1)..i : s[j] \in Byte
    BY <1>0, <1>1, <1>2
  <2>2. /\ Len(c(n)) = IF i - n + 1 <= i THEN i - (i - n + 1) + 1 ELSE 0
        /\ \A k \in 1..i - (i - n + 1) + 1 : c(n)[k] = s[(i - n + 1) + k - 1]
    BY ONLY <2>1, SubSeqProperties DEF c
  <2>3. i - n + 1 <= i /\ i - (i - n + 1) + 1 = n /\ \A k \in 1..n : (i - n + 1) + k - 1 = i - n + k
    BY <1>0
  <2>4. \A k \in 1..n : c(n)[k] = s[i - n + k] /\ i - n + k \in 1..Len(s)
    BY <1>0, <1>2, <2>2, <2>3
  <2> HIDE DEF c
  <2> QED BY <1>1, <2>2, <2>3, <2>4
<1>3. Encodes(c(1)) <=> s[i] \in 0..127
  <2>1. Len(c(1)) = 1 /\ c(1)[1] = s[i] /\ c(1)[1] \in Byte
    BY <1>0, <1>2
  <2> HIDE DEF c
  <2> QED BY ONLY <2>1, EncodesOne
<1>4. ASSUME i >= 2 PROVE Encodes(c(2)) <=> s[i - 1] \in 194..223 /\ s[i] \in Mark
  <2>1. Len(c(2)) = 2 /\ c(2)[1] = s[i - 1] /\ c(2)[2] = s[i] /\ c(2)[1] \in Byte /\ c(2)[2] \in Byte
    BY <1>0, <1>2, <1>4
  <2> HIDE DEF c
  <2> QED BY ONLY <2>1, EncodesTwo
<1>5. ASSUME i >= 3
      PROVE  Encodes(c(3)) <=> ThreeBytes(s[i - 2], s[i - 1], s[i])
  <2>1. Len(c(3)) = 3 /\ c(3)[1] = s[i - 2] /\ c(3)[2] = s[i - 1] /\ c(3)[3] = s[i]
    BY <1>0, <1>2, <1>5
  <2>2. s[i - 2] \in Byte /\ s[i - 1] \in Byte /\ s[i] \in Byte
    BY <1>0, <1>1, <1>5
  <2> HIDE DEF c
  <2> QED BY ONLY <2>1, <2>2, EncodesThree
<1>6. ASSUME i >= 4
      PROVE  Encodes(c(4)) <=> FourBytes(s[i - 3], s[i - 2], s[i - 1], s[i])
  <2>1. Len(c(4)) = 4 /\ c(4)[1] = s[i - 3] /\ c(4)[2] = s[i - 2] /\ c(4)[3] = s[i - 1] /\ c(4)[4] = s[i]
    BY <1>0, <1>2, <1>6
  <2>2. s[i - 3] \in Byte /\ s[i - 2] \in Byte /\ s[i - 1] \in Byte /\ s[i] \in Byte
    BY <1>0, <1>1, <1>6
  <2> HIDE DEF c
  <2> QED BY ONLY <2>1, <2>2, EncodesFour
<1> HIDE DEF c
<1>7. ASSUME r[i] = 0
      PROVE  \/ r[i - 1] = 0 /\ Encodes(c(1))
             \/ i >= 2 /\ r[i - 2] = 0 /\ Encodes(c(2))
             \/ i >= 3 /\ r[i - 3] = 0 /\ Encodes(c(3))
             \/ i >= 4 /\ r[i - 4] = 0 /\ Encodes(c(4))
  <2>0. r[0] = 0
    BY DEF DecoderRun, ACCEPT
  <2>1. \/ r[i - 1] = 0 /\ s[i] \in 0..127
        \/ r[i - 1] = 2 /\ s[i] \in Mark
    <3>1. s[i] \in Byte /\ r[i - 1] \in DecoderState /\ r[i] = Decode(r[i - 1], s[i])
      BY <1>1
    <3>9. Enters(r[i], r[i - 1], s[i])
      BY ONLY <3>1, StatesBefore
    <3> QED BY ONLY <1>7, <3>9 DEF Enters
  <2>2. ASSUME r[i - 1] = 2, s[i] \in Mark
        PROVE  /\ i >= 2
               /\ \/ r[i - 2] = 0 /\ s[i - 1] \in 194..223
                  \/ r[i - 2] = 3 /\ s[i - 1] \in Mark
                  \/ r[i - 2] = 4 /\ s[i - 1] \in 160..191
                  \/ r[i - 2] = 5 /\ s[i - 1] \in 128..159
    <3>1. i - 1 \in 1..Len(s)
      BY <1>0, <2>0, <2>2
    <3>2. (i - 1) - 1 = i - 2
      BY <1>0
    <3>3. s[i - 1] \in Byte /\ r[i - 2] \in DecoderState /\ r[i - 1] = Decode(r[i - 2], s[i - 1])
      BY <1>1, <3>1, <3>2
    <3>4. i >= 2
      BY <1>0, <3>1
    <3>9. Enters(r[i - 1], r[i - 2], s[i - 1])
      BY ONLY <3>3, StatesBefore
    <3> QED BY ONLY <2>2, <3>4, <3>9 DEF Enters
  <2>3. ASSUME i >= 2, r[i - 2] \in {3, 4, 5}
        PROVE  /\ i >= 3
               /\ r[i - 2] = 4 => r[i - 3] = 0 /\ s[i - 2] = 224
               /\ r[i - 2] = 5 => r[i - 3] = 0 /\ s[i - 2] = 237
               /\ r[i - 2] = 3 =>
                    \/ r[i - 3] = 0 /\ (s[i - 2] \in 225..236 \/ s[i - 2] \in 238..239)
                    \/ r[i - 3] = 6 /\ s[i - 2] \in 144..191
                    \/ r[i - 3] = 7 /\ s[i - 2] \in Mark
                    \/ r[i - 3] = 8 /\ s[i - 2] \in 128..143
    <3>1. i - 2 \in 1..Len(s)
      BY <1>0, <2>0, <2>3
    <3>2. (i - 2) - 1 = i - 3
      BY <1>0
    <3>3. s[i - 2] \in Byte /\ r[i - 3] \in DecoderState /\ r[i - 2] = Decode(r[i - 3], s[i - 2])
      BY <1>1, <3>1, <3>2
    <3>4. i >= 3
      BY <1>0, <3>1
    <3>9. Enters(r[i - 2], r[i - 3], s[i - 2])
      BY ONLY <3>3, StatesBefore
    <3> QED BY ONLY <2>3, <3>4, <3>9 DEF Enters
  <2>4. ASSUME i >= 3, r[i - 3] \in {6, 7, 8}
        PROVE  /\ i >= 4 /\ r[i - 4] = 0
               /\ r[i - 3] = 6 => s[i - 3] = 240
               /\ r[i - 3] = 7 => s[i - 3] \in 241..243
               /\ r[i - 3] = 8 => s[i - 3] = 244
    <3>1. i - 3 \in 1..Len(s)
      BY <1>0, <2>0, <2>4
    <3>2. (i - 3) - 1 = i - 4
      BY <1>0
    <3>3. s[i - 3] \in Byte /\ r[i - 4] \in DecoderState /\ r[i - 3] = Decode(r[i - 4], s[i - 3])
      BY <1>1, <3>1, <3>2
    <3>4. i >= 4
      BY <1>0, <3>1
    <3>9. Enters(r[i - 3], r[i - 4], s[i - 3])
      BY ONLY <3>3, StatesBefore
    <3> QED BY ONLY <2>4, <3>4, <3>9 DEF Enters
  <2>6. CASE r[i - 1] = 0 /\ s[i] \in 0..127
    BY <1>3, <2>6
  <2>7. CASE r[i - 1] = 2 /\ s[i] \in Mark
    <3>1. CASE r[i - 2] = 0 /\ s[i - 1] \in 194..223
      BY <1>4, <2>2, <2>7, <3>1
    <3>2. CASE r[i - 2] = 4 /\ s[i - 1] \in 160..191
      <4>1. i >= 3 /\ r[i - 3] = 0 /\ s[i - 2] = 224
        BY <2>2, <2>3, <2>7, <3>2
      <4>2. Encodes(c(3))
        <5>1. ThreeBytes(s[i - 2], s[i - 1], s[i])
          BY ONLY <2>7, <3>2, <4>1, SMT DEF ThreeBytes, Mark
        <5> QED BY <1>5, <4>1, <5>1
      <4> QED BY <4>1, <4>2
    <3>3. CASE r[i - 2] = 5 /\ s[i - 1] \in 128..159
      <4>1. i >= 3 /\ r[i - 3] = 0 /\ s[i - 2] = 237
        BY <2>2, <2>3, <2>7, <3>3
      <4>2. Encodes(c(3))
        <5>1. ThreeBytes(s[i - 2], s[i - 1], s[i])
          BY ONLY <2>7, <3>3, <4>1, SMT DEF ThreeBytes, Mark
        <5> QED BY <1>5, <4>1, <5>1
      <4> QED BY <4>1, <4>2
    <3>4. CASE r[i - 2] = 3 /\ s[i - 1] \in Mark
      <4>0. /\ i >= 3
            /\ \/ r[i - 3] = 0 /\ (s[i - 2] \in 225..236 \/ s[i - 2] \in 238..239)
               \/ r[i - 3] = 6 /\ s[i - 2] \in 144..191
               \/ r[i - 3] = 7 /\ s[i - 2] \in Mark
               \/ r[i - 3] = 8 /\ s[i - 2] \in 128..143
        BY <2>2, <2>3, <2>7, <3>4
      <4>1. CASE r[i - 3] = 0 /\ (s[i - 2] \in 225..236 \/ s[i - 2] \in 238..239)
        <5>1. Encodes(c(3))
          BY ONLY <1>5, <2>7, <3>4, <4>0, <4>1 DEF ThreeBytes
        <5> QED BY <4>0, <4>1, <5>1
      <4>2. CASE r[i - 3] = 6 /\ s[i - 2] \in 144..191
        <5>1. i >= 4 /\ r[i - 4] = 0 /\ s[i - 3] = 240
          BY <2>4, <4>0, <4>2
        <5>2. Encodes(c(4))
          <6>1. FourBytes(s[i - 3], s[i - 2], s[i - 1], s[i])
            BY ONLY <2>7, <3>4, <4>2, <5>1, SMT DEF FourBytes, Mark
          <6> QED BY <1>6, <5>1, <6>1
        <5> QED BY <5>1, <5>2
      <4>3. CASE r[i - 3] = 7 /\ s[i - 2] \in Mark
        <5>1. i >= 4 /\ r[i - 4] = 0 /\ s[i - 3] \in 241..243
          BY <2>4, <4>0, <4>3
        <5>2. Encodes(c(4))
          <6>1. FourBytes(s[i - 3], s[i - 2], s[i - 1], s[i])
            BY ONLY <2>7, <3>4, <4>3, <5>1, SMT DEF FourBytes, Mark
          <6> QED BY <1>6, <5>1, <6>1
        <5> QED BY <5>1, <5>2
      <4>4. CASE r[i - 3] = 8 /\ s[i - 2] \in 128..143
        <5>1. i >= 4 /\ r[i - 4] = 0 /\ s[i - 3] = 244
          BY <2>4, <4>0, <4>4
        <5>2. Encodes(c(4))
          <6>1. FourBytes(s[i - 3], s[i - 2], s[i - 1], s[i])
            BY ONLY <2>7, <3>4, <4>4, <5>1, SMT DEF FourBytes, Mark
          <6> QED BY <1>6, <5>1, <6>1
        <5> QED BY <5>1, <5>2
      <4> QED BY <4>0, <4>1, <4>2, <4>3, <4>4
    <3>5. \/ r[i - 2] = 0 /\ s[i - 1] \in 194..223
          \/ r[i - 2] = 3 /\ s[i - 1] \in Mark
          \/ r[i - 2] = 4 /\ s[i - 1] \in 160..191
          \/ r[i - 2] = 5 /\ s[i - 1] \in 128..159
      BY <2>2, <2>7
    <3> QED BY <3>1, <3>2, <3>3, <3>4, <3>5, Zenon
  <2> QED BY <2>1, <2>6, <2>7
<1>8. ASSUME NEW n \in 1..4, n <= i, r[i - n] = 0, Encodes(c(n))
      PROVE  r[i] = 0
  <2>1. Enters(r[i], r[i - 1], s[i])
    BY <1>1, StatesBefore
  <2>2. CASE n = 1
    <3>1. r[i - 1] = 0 /\ s[i] \in 0..127
      BY <1>3, <1>8, <2>2
    <3> QED BY ONLY <2>1, <3>1 DEF Enters
  <2>3. ASSUME i >= 2 PROVE Enters(r[i - 1], r[i - 2], s[i - 1])
    <3>1. i - 1 \in 1..Len(s) /\ (i - 1) - 1 = i - 2
      BY <1>0, <2>3
    <3> QED BY <1>1, <3>1, StatesBefore
  <2>4. ASSUME i >= 3 PROVE Enters(r[i - 2], r[i - 3], s[i - 2])
    <3>1. i - 2 \in 1..Len(s) /\ (i - 2) - 1 = i - 3
      BY <1>0, <2>4
    <3> QED BY <1>1, <3>1, StatesBefore
  <2>5. ASSUME i >= 4 PROVE Enters(r[i - 3], r[i - 4], s[i - 3])
    <3>1. i - 3 \in 1..Len(s) /\ (i - 3) - 1 = i - 4
      BY <1>0, <2>5
    <3> QED BY <1>1, <3>1, StatesBefore
  <2>6. r[i - 1] = 2 /\ s[i] \in Mark => r[i] = 0
    BY <2>1 DEF Enters
  <2>7. CASE n = 2
    <3>1. i >= 2 /\ r[i - 2] = 0 /\ s[i - 1] \in 194..223 /\ s[i] \in Mark
      BY <1>4, <1>8, <2>7
    <3>2. r[i - 1] = 2
      BY ONLY <2>3, <3>1 DEF Enters
    <3> QED BY <2>6, <3>1, <3>2
  <2>8. CASE n = 3
    <3>1. i >= 3 /\ i >= 2 /\ r[i - 3] = 0 /\ ThreeBytes(s[i - 2], s[i - 1], s[i])
      BY <1>0, <1>5, <1>8, <2>8
    <3>2. \/ r[i - 2] = 3 /\ s[i - 1] \in Mark
          \/ r[i - 2] = 4 /\ s[i - 1] \in 160..191
          \/ r[i - 2] = 5 /\ s[i - 1] \in 128..159
      BY ONLY <2>4, <3>1 DEF Enters, ThreeBytes
    <3>3. r[i - 1] = 2
      BY ONLY <2>3, <3>1, <3>2 DEF Enters
    <3> QED BY <2>6, <3>1, <3>3 DEF ThreeBytes
  <2>9. CASE n = 4
    <3>1. /\ i >= 4 /\ i >= 3 /\ i >= 2 /\ r[i - 4] = 0
          /\ FourBytes(s[i - 3], s[i - 2], s[i - 1], s[i])
      BY <1>0, <1>6, <1>8, <2>9
    <3>3. \/ r[i - 3] = 7 /\ s[i - 2] \in Mark
          \/ r[i - 3] = 6 /\ s[i - 2] \in 144..191
          \/ r[i - 3] = 8 /\ s[i - 2] \in 128..143
      BY ONLY <2>5, <3>1 DEF Enters, FourBytes
    <3>4. r[i - 2] = 3
      BY ONLY <2>4, <3>1, <3>3 DEF Enters
    <3>5. r[i - 1] = 2
      BY ONLY <2>3, <3>1, <3>4 DEF Enters, FourBytes
    <3> QED BY <2>6, <3>1, <3>5 DEF FourBytes
  <2> QED BY <1>8, <2>2, <2>7, <2>8, <2>9
<1>9. (\E n \in 1..4 : n <= i /\ r[i - n] = 0 /\ Encodes(c(n))) => r[i] = 0
  BY <1>8
<1>10. r[i] = 0 => \E n \in 1..4 : n <= i /\ r[i - n] = 0 /\ Encodes(c(n))
  BY <1>0, <1>7
<1> QED BY <1>9, <1>10 DEF ACCEPT, c

\* The decoder ends in its ACCEPT state on the well-formed strings, and on no
\* others.  (Two solutions of WellFormed's equation would differ at a least
\* index; the run of the decoder is one.)
LEMMA RunAccepts ==
  ASSUME NEW s \in Seq(Byte), NEW r, DecoderRun(s, r)
  PROVE  r[Len(s)] = ACCEPT <=> WellFormed(s)
<1> DEFINE Ends(f, i) == \/ i = 0
                         \/ \E n \in 1..4 : n <= i /\ f[i - n] /\ Encodes(SubSeq(s, i - n + 1, i))
           g == [i \in 0..Len(s) |-> r[i] = ACCEPT]
           wf == CHOOSE f : f = [i \in 0..Len(s) |-> Ends(f, i)]
           Same == {i \in 0..Len(s) : wf[i] <=> r[i] = ACCEPT}
<1>0. Len(s) \in Nat
  BY LenProperties
<1>1. ASSUME NEW i \in 0..Len(s), NEW f, \A n \in 1..4 : n <= i => (f[i - n] <=> r[i - n] = ACCEPT)
      PROVE  Ends(f, i) <=> r[i] = ACCEPT
  <2>1. CASE i = 0
    BY <2>1 DEF DecoderRun
  <2>2. CASE i # 0
    <3>1. i \in 1..Len(s)
      BY <2>2
    <3>2. r[i] = ACCEPT <=>
            \E n \in 1..4 : n <= i /\ r[i - n] = ACCEPT /\ Encodes(SubSeq(s, i - n + 1, i))
      BY <3>1, CharacterEnds
    <3> QED BY <1>1, <2>2, <3>2
  <2> QED BY <2>1, <2>2
<1>2. g = [i \in 0..Len(s) |-> Ends(g, i)]
  <2> SUFFICES ASSUME NEW i \in 0..Len(s) PROVE g[i] = Ends(g, i)
    BY Zenon
  <2>1. \A n \in 1..4 : n <= i => i - n \in 0..Len(s)
    BY <1>0
  <2>2. \A n \in 1..4 : n <= i => (g[i - n] <=> r[i - n] = ACCEPT)
    BY <2>1
  <2> HIDE DEF g
  <2>3. Ends(g, i) <=> r[i] = ACCEPT
    BY <1>1, <2>2
  <2> QED BY <2>3 DEF g
<1>3. wf = [i \in 0..Len(s) |-> Ends(wf, i)]
  <2> HIDE DEF g
  <2> QED BY <1>2
<1> HIDE DEF g, wf
<1>4. \A i \in 0..Len(s) : wf[i] <=> Ends(wf, i)
  <2> HIDE DEF Ends
  <2> QED BY <1>3
<1>5. ASSUME NEW i \in 0..Len(s), \A j \in 0..Len(s) : j < i => j \in Same
      PROVE  i \in Same
  <2>1. \A n \in 1..4 : n <= i => i - n \in 0..Len(s) /\ i - n < i
    BY <1>0
  <2>2. \A n \in 1..4 : n <= i => (wf[i - n] <=> r[i - n] = ACCEPT)
    BY <1>5, <2>1
  <2> HIDE DEF Ends
  <2>3. Ends(wf, i) <=> r[i] = ACCEPT
    BY <1>1, <2>2
  <2> QED BY <1>4, <2>3
<1>6. \A i \in 0..Len(s) : i \in Same
  <2> HIDE DEF Same
  <2> QED BY <1>0, <1>5, StrongInductionUpTo
<1>7. Len(s) \in Same
  BY <1>0, <1>6
<1>8. WellFormed(s) = wf[Len(s)]
  BY DEF WellFormed, wf
<1> QED BY <1>7, <1>8

\* The text up to the first NUL byte is a string of bytes.
LEMMA UpToNulType ==
  ASSUME NEW s \in Seq(Byte)
  PROVE  UpToNul(s) \in Seq(Byte)
<1> DEFINE I == {i \in 1..Len(s) : s[i] = 0}
<1>1. UpToNul(s) = LET i == IF I # {} THEN Min(I) ELSE 0
                   IN  IF i = 0 THEN s ELSE SubSeq(s, 1, i - 1)
  BY DEF UpToNul, SelectInSeq
<1>2. CASE I = {}
  BY <1>1, <1>2
<1>3. CASE I # {}
  <2>1. Min(I) \in I
    <3>1. I \in SUBSET Nat
      BY LenProperties
    <3> HIDE DEF I
    <3> QED BY <1>3, <3>1, MinOfNats
  <2>2. Min(I) \in 1..Len(s) /\ Len(s) \in Nat
    BY <2>1, LenProperties
  <2>3. UpToNul(s) = SubSeq(s, 1, Min(I) - 1)
    <3> HIDE DEF I
    <3> QED BY <1>1, <1>3, <2>2
  <2>4. \A i \in 1..Min(I) - 1 : s[i] \in Byte
    BY <2>2, ElementOfSeq
  <2> QED BY <2>2, <2>3, <2>4, SubSeqProperties
<1> QED BY <1>2, <1>3

\* validate_utf8_sequence, the function: it accepts the text up to its first
\* NUL byte if, and only if, that text is UTF-8.
THEOREM ValidatesUtf8 ==
  \A s \in Seq(Byte) : ValidateUtf8(s) <=> WellFormed(UpToNul(s))
<1> SUFFICES ASSUME NEW s \in Seq(Byte)
             PROVE  ValidateUtf8(s) <=> WellFormed(UpToNul(s))
  OBVIOUS
<1>1. UpToNul(s) \in Seq(Byte)
  BY UpToNulType
<1>2. ValidateUtf8(s) <=> DecoderStates(UpToNul(s))[Len(UpToNul(s))] = ACCEPT
  BY DEF ValidateUtf8
<1> QED BY <1>1, <1>2, RunOfDecoder, RunAccepts

-----------------------------------------------------------------------------
(* The loop as a state machine.                                            *)

\* The decoder can be in state x after the string s.
EndsIn(s, x) == \E r : DecoderRun(s, r) /\ r[Len(s)] = x

LEMMA EndsInEmpty == EndsIn(<<>>, ACCEPT)
<1>1. DecoderRun(<<>>, [k \in 0..0 |-> ACCEPT])
  BY DEF DecoderRun, ACCEPT, DecoderState
<1> QED BY <1>1 DEF EndsIn

LEMMA EndsInAppend ==
  ASSUME NEW s \in Seq(Byte), NEW x, EndsIn(s, x), NEW b \in Byte
  PROVE  Append(s, b) \in Seq(Byte) /\ EndsIn(Append(s, b), Decode(x, b))
<1>1. PICK r : DecoderRun(s, r) /\ r[Len(s)] = x
  BY DEF EndsIn
<1>2. PICK q : DecoderRun(Append(s, b), q) /\ q[Len(s) + 1] = Decode(r[Len(s)], b)
  BY <1>1, RunAppend
<1> QED BY <1>1, <1>2, AppendProperties DEF EndsIn

LEMMA EndsInAccept ==
  ASSUME NEW s \in Seq(Byte), NEW x, EndsIn(s, x)
  PROVE  x = ACCEPT <=> WellFormed(s)
BY RunAccepts DEF EndsIn

\* A string with a completion is accepted at its end.
LEMMA CompletionAccepted ==
  ASSUME NEW s \in Seq(Byte), NEW x, EndsIn(s, x)
  PROVE  /\ WellFormed(s \o <<>>) <=> x = ACCEPT
         /\ \A b \in Byte : WellFormed(s \o <<b>>) <=> Decode(x, b) = ACCEPT
         /\ \A b, c \in Byte :
              WellFormed(s \o <<b, c>>) <=> Decode(Decode(x, b), c) = ACCEPT
         /\ \A b, c, d \in Byte :
              WellFormed(s \o <<b, c, d>>) <=> Decode(Decode(Decode(x, b), c), d) = ACCEPT
<1>1. WellFormed(s \o <<>>) <=> x = ACCEPT
  <2>1. s \o <<>> = s
    BY ConcatEmptySeq
  <2> QED BY <2>1, EndsInAccept
<1> SUFFICES ASSUME NEW b \in Byte, NEW c \in Byte, NEW d \in Byte
             PROVE  /\ WellFormed(s \o <<b>>) <=> Decode(x, b) = ACCEPT
                    /\ WellFormed(s \o <<b, c>>) <=> Decode(Decode(x, b), c) = ACCEPT
                    /\ WellFormed(s \o <<b, c, d>>) <=> Decode(Decode(Decode(x, b), c), d) = ACCEPT
  BY <1>1
<1> DEFINE s1 == Append(s, b)
           s2 == Append(s1, c)
           s3 == Append(s2, d)
<1>2. s \o <<b>> = s1 /\ s \o <<b, c>> = s2 /\ s \o <<b, c, d>> = s3
  <2>1. <<b>> \in Seq(Byte) /\ <<b, c>> \in Seq(Byte) /\ <<c>> \in Seq(Byte) /\ <<d>> \in Seq(Byte)
    OBVIOUS
  <2>2. <<b, c>> = <<b>> \o <<c>> /\ <<b, c, d>> = <<b, c>> \o <<d>>
    <3>1. <<b, c>> = <<b>> \o <<c>>
      <4>1. <<b>> \o <<c>> \in Seq(Byte) /\ Len(<<b>> \o <<c>>) = 2
            /\ (<<b>> \o <<c>>)[1] = b /\ (<<b>> \o <<c>>)[2] = c
        BY <2>1, ConcatProperties
      <4>2. Len(<<b, c>>) = 2 /\ <<b, c>>[1] = b /\ <<b, c>>[2] = c
        OBVIOUS
      <4>3. \A i \in 1..2 : <<b, c>>[i] = (<<b>> \o <<c>>)[i]
        BY <4>1, <4>2
      <4> QED BY <2>1, <4>1, <4>2, <4>3, SeqEqual
    <3>2. <<b, c, d>> = <<b, c>> \o <<d>>
      <4>1. <<b, c>> \o <<d>> \in Seq(Byte) /\ Len(<<b, c>> \o <<d>>) = 3
            /\ (<<b, c>> \o <<d>>)[1] = b /\ (<<b, c>> \o <<d>>)[2] = c /\ (<<b, c>> \o <<d>>)[3] = d
        BY <2>1, ConcatProperties
      <4>2. <<b, c, d>> \in Seq(Byte)
        OBVIOUS
      <4> QED BY <4>1, <4>2, SeqEqual
    <3> QED BY <3>1, <3>2
  <2>3. s1 = s \o <<b>> /\ s1 \in Seq(Byte)
    BY AppendIsConcat, AppendProperties
  <2>4. s2 = s \o <<b, c>> /\ s2 \in Seq(Byte)
    <3>1. s2 = (s \o <<b>>) \o <<c>> /\ s2 \in Seq(Byte)
      BY <2>3, AppendIsConcat, AppendProperties
    <3>2. (s \o <<b>>) \o <<c>> = s \o (<<b>> \o <<c>>)
      BY <2>1, ConcatAssociative
    <3> HIDE DEF s2
    <3> QED BY <2>2, <3>1, <3>2
  <2>5. s3 = s \o <<b, c, d>>
    <3>1. s3 = (s \o <<b, c>>) \o <<d>>
      BY <2>4, AppendIsConcat
    <3>2. (s \o <<b, c>>) \o <<d>> = s \o (<<b, c>> \o <<d>>)
      BY <2>1, ConcatAssociative
    <3> HIDE DEF s3
    <3> QED BY <2>2, <3>1, <3>2
  <2> QED BY <2>3, <2>4, <2>5
<1>3. s1 \in Seq(Byte) /\ EndsIn(s1, Decode(x, b))
  BY EndsInAppend
<1> HIDE DEF s1
<1>4. s2 \in Seq(Byte) /\ EndsIn(s2, Decode(Decode(x, b), c))
  BY <1>3, EndsInAppend
<1> HIDE DEF s2
<1>5. s3 \in Seq(Byte) /\ EndsIn(s3, Decode(Decode(Decode(x, b), c), d))
  BY <1>4, EndsInAppend
<1> HIDE DEF s3
<1>6. WellFormed(s1) <=> Decode(x, b) = ACCEPT
  BY <1>3, EndsInAccept
<1>7. WellFormed(s2) <=> Decode(Decode(x, b), c) = ACCEPT
  BY <1>4, EndsInAccept
<1>8. WellFormed(s3) <=> Decode(Decode(Decode(x, b), c), d) = ACCEPT
  BY <1>5, EndsInAccept
<1> QED BY <1>2, <1>6, <1>7, <1>8

\* From every state but REJECT one of the completions leads to ACCEPT, and
\* from REJECT nothing does.
LEMMA CompletionExists ==
  ASSUME NEW x \in DecoderState
  PROVE  /\ x = 0 \/ x = 1 \/ x = 2 \/ x = 3 \/ x = 4 \/ x = 5 \/ x = 6 \/ x = 7 \/ x = 8
         /\ x = 2 => Decode(x, 128) = ACCEPT
         /\ x = 3 => Decode(Decode(x, 128), 128) = ACCEPT
         /\ x = 4 => Decode(Decode(x, 160), 128) = ACCEPT
         /\ x = 5 => Decode(Decode(x, 128), 128) = ACCEPT
         /\ x = 6 => Decode(Decode(Decode(x, 144), 128), 128) = ACCEPT
         /\ x = 7 => Decode(Decode(Decode(x, 128), 128), 128) = ACCEPT
         /\ x = 8 => Decode(Decode(Decode(x, 128), 128), 128) = ACCEPT
<1>1. Type(128) = 1 /\ Type(144) = 9 /\ Type(160) = 7
  BY SMT DEF Type
<1>2. /\ Decode(2, 128) = 0 /\ Decode(3, 128) = 2 /\ Decode(5, 128) = 2
      /\ Decode(7, 128) = 3 /\ Decode(8, 128) = 3
  BY <1>1, SMT DEF Decode, Step
<1>3. Decode(4, 160) = 2 /\ Decode(6, 144) = 3
  BY <1>1, SMT DEF Decode, Step
<1>4. x = 0 \/ x = 1 \/ x = 2 \/ x = 3 \/ x = 4 \/ x = 5 \/ x = 6 \/ x = 7 \/ x = 8
  BY SMT DEF DecoderState
<1> QED BY ONLY <1>2, <1>3, <1>4, SMT DEF ACCEPT

LEMMA CompletionsSound ==
  ASSUME NEW s \in Seq(Byte), NEW x \in DecoderState, EndsIn(s, x)
  PROVE  x = REJECT <=> ~ \E e \in Completions : WellFormed(s \o e)
<1> DEFINE B == {128, 144, 160}
<1>0. 128 \in Byte /\ 144 \in Byte /\ 160 \in Byte /\ B \subseteq Byte
  BY SMT DEF Byte
<1>1. ASSUME x = REJECT, NEW e \in Completions PROVE ~ WellFormed(s \o e)
  <2>1. \A b \in Byte : Decode(x, b) = x /\ x # ACCEPT
    BY <1>1, RejectStays DEF REJECT, ACCEPT
  <2> USE <1>0
  <2>2. \/ e = <<>>
        \/ \E b \in Byte : e = <<b>>
        \/ \E b \in Byte : e = <<b, 128>>
        \/ \E b \in Byte : e = <<b, 128, 128>>
    BY DEF Completions
  <2>3. CASE e = <<>>
    BY <1>1, <2>3, CompletionAccepted DEF REJECT, ACCEPT
  <2>4. CASE \E b \in Byte : e = <<b>>
    BY <2>1, <2>4, CompletionAccepted
  <2>5. CASE \E b \in Byte : e = <<b, 128>>
    BY <2>1, <2>5, CompletionAccepted
  <2>6. CASE \E b \in Byte : e = <<b, 128, 128>>
    BY <2>1, <2>6, CompletionAccepted
  <2> QED BY <2>2, <2>3, <2>4, <2>5, <2>6
<1>2. ASSUME x # REJECT PROVE \E e \in Completions : WellFormed(s \o e)
  <2>1. /\ <<>> \in Completions
        /\ <<128>> \in Completions /\ <<128, 128>> \in Completions /\ <<160, 128>> \in Completions
        /\ <<144, 128, 128>> \in Completions /\ <<128, 128, 128>> \in Completions
    BY DEF Completions
  <2>2. \/ WellFormed(s \o <<>>) \/ WellFormed(s \o <<128>>) \/ WellFormed(s \o <<128, 128>>)
        \/ WellFormed(s \o <<160, 128>>) \/ WellFormed(s \o <<144, 128, 128>>)
        \/ WellFormed(s \o <<128, 128, 128>>)
    BY <1>0, <1>2, CompletionExists, CompletionAccepted DEF REJECT, ACCEPT
  <2> QED BY <2>1, <2>2
<1> QED BY <1>1, <1>2

\* validate_utf8_sequence accepts UTF-8 and nothing else, and refuses a string
\* at the byte that makes it impossible: every string, of any length.
THEOREM Utf8Correct == Spec => []AcceptsExactlyUtf8
<1> DEFINE Reached == seen \in Seq(Byte) /\ state \in DecoderState /\ EndsIn(seen, state)
<1>1. Init => Reached
  BY EndsInEmpty DEF Init, ACCEPT, DecoderState
<1>2. Reached /\ [Next]_vars => Reached'
  <2> SUFFICES ASSUME Reached, [Next]_vars PROVE Reached'
    OBVIOUS
  <2>1. ASSUME NEW b \in Bytes, Feed(b) PROVE Reached'
    <3>1. b \in Byte
      BY BytesAssumption
    <3> QED BY <2>1, <3>1, DecodeType, EndsInAppend DEF Feed
  <2>2. CASE UNCHANGED vars
    BY <2>2 DEF vars
  <2> QED BY <2>1, <2>2 DEF Next
<1>3. Reached => AcceptsExactlyUtf8
  BY EndsInAccept, CompletionsSound DEF AcceptsExactlyUtf8
<1> QED BY <1>1, <1>2, <1>3, PTL DEF Spec
=============================================================================
