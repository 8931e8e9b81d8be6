---------------------------- MODULE PartsProofs ----------------------------
(* Three of the parts that are called for their result alone: the stream   *)
(* of sha1.c, for every size of bytes, words and blocks, every             *)
(* compression, and every way of cutting a message into calls; the         *)
(* conversions of byte order of util.c, for every word; and the bytes      *)
(* libwebsock_make_fragment writes, for every base and every length.       *)
EXTENDS Sha1, SequenceLemmas

CONSTANT MaxOnes
VARIABLE word   \* the word converted
Order == INSTANCE ByteOrder WITH x <- word

CONSTANTS
  Radix,   \* BASE of OutData
  SMALL, Lengths, Reasons, MaxFrames
VARIABLES
  out_data, made,
  returned   \* result of OutData
Out == INSTANCE OutData WITH BASE <- Radix, result <- returned

-----------------------------------------------------------------------------
(* Numbers.                                                                *)

LEMMA Division ==
  ASSUME NEW b \in Nat \ {0}, NEW q \in Nat, NEW r \in 0..(b - 1)
  PROVE  (b * q + r) \div b = q /\ (b * q + r) % b = r
OBVIOUS

LEMMA Times ==
  ASSUME NEW b \in Nat, NEW q \in Nat
  PROVE  b * q \in Nat /\ b * (q + 1) = b * q + b /\ b * (q + 2) = b * q + 2 * b /\ b * 0 = 0
OBVIOUS

LEMMA TimesBefore ==
  ASSUME NEW b \in Nat, NEW q \in Nat \ {0}
  PROVE  b * (q - 1) \in Nat /\ b * (q - 1) + b = b * q
OBVIOUS

LEMMA TimesLess ==
  ASSUME NEW b \in Nat \ {0}, NEW p \in Nat, NEW q \in Nat, p < q
  PROVE  b * p + b <= b * q
<1>1. p + 1 <= q
  OBVIOUS
<1>2. b * (p + 1) <= b * q
  BY <1>1
<1> QED BY <1>2

LEMMA Sizes ==
  ASSUME SizesAssumption
  PROVE  /\ BYTE_BITS \in Nat \ {0} /\ WORD_BYTES \in Nat \ {0} /\ BLOCK \in Nat \ {0} /\ WORD \in Nat \ {0}
         /\ \E w \in Nat \ {0} : WORD = BYTE_BITS * w
         /\ LENGTH_BYTES \in Nat \ {0} /\ LENGTH_BYTES = WORD_BYTES + WORD_BYTES
         /\ LENGTH_AT \in Nat \ {0} /\ LENGTH_AT = BLOCK - LENGTH_BYTES
<1>1. /\ BYTE_BITS \in Nat \ {0} /\ WORD_BYTES \in Nat \ {0} /\ BLOCK \in Nat \ {0} /\ WORD \in Nat \ {0}
      /\ WORD % BYTE_BITS = 0 /\ LENGTH_AT > 0
  BY DEF SizesAssumption
<1>2. \E w \in Nat \ {0} : WORD = BYTE_BITS * w
  <2> DEFINE w == WORD \div BYTE_BITS
  <2>1. w \in Nat /\ WORD = BYTE_BITS * w + (WORD % BYTE_BITS)
    BY <1>1
  <2>2. BYTE_BITS * w \in Nat
    BY <1>1, <2>1
  <2>3. WORD = BYTE_BITS * w
    <3> HIDE DEF w
    <3> QED BY <1>1, <2>1, <2>2
  <2>4. w # 0
    <3> HIDE DEF w
    <3> QED BY <1>1, <2>3
  <2> QED BY <2>1, <2>3, <2>4
<1>3. LENGTH_BYTES \in Nat \ {0} /\ LENGTH_BYTES = WORD_BYTES + WORD_BYTES
  BY <1>1 DEF LENGTH_BYTES
<1>4. LENGTH_AT \in Nat \ {0} /\ LENGTH_AT = BLOCK - LENGTH_BYTES
  BY <1>1, <1>3 DEF LENGTH_AT
<1> QED BY <1>1, <1>2, <1>3, <1>4

-----------------------------------------------------------------------------
(* The length.                                                             *)

\* The two words hold the length of n bytes.
Counted(high, low, n) ==
  /\ high \in 0..(WORD - 1) /\ low \in 0..(WORD - 1)
  /\ BYTE_BITS * n = WORD * high + low
  /\ \E j \in Nat : low = BYTE_BITS * j

NextLow(low) == (low + BYTE_BITS) % WORD
NextHigh(high, low) == IF NextLow(low) = 0 THEN (high + 1) % WORD ELSE high

LEMMA CountedShort ==
  ASSUME SizesAssumption, NEW high, NEW low, NEW n \in Nat, Counted(high, low, n)
  PROVE  BYTE_BITS * n < WORD * WORD
<1>1. high \in Nat /\ high < WORD /\ low \in Nat /\ low < WORD /\ WORD \in Nat \ {0} /\ BYTE_BITS * n = WORD * high + low
  BY Sizes DEF Counted
<1>2. WORD * high + WORD <= WORD * WORD /\ WORD * high \in Nat /\ WORD * WORD \in Nat
  BY <1>1, TimesLess, Times
<1> QED BY <1>1, <1>2

\* The next byte is counted, unless the two words are full.
LEMMA CountNext ==
  ASSUME SizesAssumption, NEW high, NEW low, NEW n \in Nat, Counted(high, low, n)
  PROVE  /\ NextLow(low) \in 0..(WORD - 1) /\ NextHigh(high, low) \in 0..(WORD - 1)
         /\ NextLow(low) = 0 /\ NextHigh(high, low) = 0 => BYTE_BITS * (n + 1) = WORD * WORD
         /\ ~ (NextLow(low) = 0 /\ NextHigh(high, low) = 0) =>
              Counted(NextHigh(high, low), NextLow(low), n + 1)
<1>1. /\ BYTE_BITS \in Nat \ {0} /\ WORD \in Nat \ {0}
      /\ high \in Nat /\ high < WORD /\ low \in Nat /\ low < WORD
      /\ BYTE_BITS * n = WORD * high + low
  BY Sizes DEF Counted
<1>2. PICK w \in Nat \ {0} : WORD = BYTE_BITS * w
  BY Sizes
<1>3. PICK j \in Nat : low = BYTE_BITS * j
  BY DEF Counted
<1>4. BYTE_BITS * (n + 1) = WORD * high + low + BYTE_BITS /\ WORD * high \in Nat
  BY <1>1, Times
<1>5. j < w
  <2> SUFFICES ASSUME w <= j PROVE FALSE
    BY <1>2, <1>3
  <2>1. BYTE_BITS * w <= BYTE_BITS * j
    BY <1>1, <1>2, <1>3
  <2> QED BY <1>1, <1>2, <1>3, <2>1
<1>6. low + BYTE_BITS = BYTE_BITS * (j + 1)
  BY <1>1, <1>3, Times
<1>7. CASE j + 1 = w
  <2>1. low + BYTE_BITS = WORD
    BY <1>2, <1>6, <1>7
  <2>2. NextLow(low) = 0
    <3>1. WORD = WORD * 1 + 0 /\ 0 \in 0..(WORD - 1)
      BY <1>1
    <3>2. (WORD * 1 + 0) % WORD = 0
      BY <1>1, <3>1, Division
    <3> QED BY <2>1, <3>1, <3>2 DEF NextLow
  <2>3. NextHigh(high, low) = (high + 1) % WORD
    BY <2>2 DEF NextHigh
  <2>4. CASE high + 1 = WORD
    <3>1. NextHigh(high, low) = 0
      <4>1. WORD = WORD * 1 + 0 /\ 0 \in 0..(WORD - 1)
        BY <1>1
      <4>2. (WORD * 1 + 0) % WORD = 0
        BY <1>1, <4>1, Division
      <4> QED BY <2>3, <2>4, <4>1, <4>2
    <3>2. WORD * high + WORD = WORD * WORD
      <4>1. WORD * (high + 1) = WORD * high + WORD
        BY <1>1, Times
      <4> QED BY <2>4, <4>1
    <3>3. BYTE_BITS * (n + 1) = WORD * WORD
      BY <1>1, <1>4, <2>1, <3>2
    <3> QED BY <1>1, <2>2, <3>1, <3>3
  <2>5. CASE high + 1 # WORD
    <3>1. high + 1 \in 0..(WORD - 1) /\ WORD * 0 + (high + 1) = high + 1
      BY <1>1, <2>5
    <3>2. (WORD * 0 + (high + 1)) % WORD = high + 1
      BY <1>1, <3>1, Division
    <3>3. NextHigh(high, low) = high + 1
      BY <2>3, <3>1, <3>2
    <3>4. BYTE_BITS * (n + 1) = WORD * (high + 1) + 0
      <4>1. WORD * (high + 1) = WORD * high + WORD
        BY <1>1, Times
      <4> QED BY <1>1, <1>4, <2>1, <4>1
    <3>5. 0 = BYTE_BITS * 0 /\ 0 \in Nat /\ 0 \in 0..(WORD - 1) /\ high + 1 # 0
      BY <1>1
    <3> QED BY <2>2, <3>1, <3>3, <3>4, <3>5 DEF Counted
  <2> QED BY <2>4, <2>5
<1>8. CASE j + 1 # w
  <2>1. j + 1 \in Nat /\ j + 1 < w
    BY <1>2, <1>3, <1>5, <1>8
  <2>2. BYTE_BITS * (j + 1) + BYTE_BITS <= BYTE_BITS * w
    BY <1>1, <1>2, <2>1, TimesLess
  <2>3. low + BYTE_BITS \in 1..(WORD - 1)
    BY <1>1, <1>2, <1>6, <2>2
  <2>4. NextLow(low) = low + BYTE_BITS
    <3>1. WORD * 0 + (low + BYTE_BITS) = low + BYTE_BITS /\ low + BYTE_BITS \in 0..(WORD - 1)
      BY <1>1, <2>3
    <3>2. (WORD * 0 + (low + BYTE_BITS)) % WORD = low + BYTE_BITS
      BY <1>1, <3>1, Division
    <3> QED BY <3>1, <3>2 DEF NextLow
  <2>5. NextLow(low) # 0 /\ NextLow(low) \in 0..(WORD - 1)
    BY <1>1, <2>3, <2>4
  <2>6. NextHigh(high, low) = high
    BY <2>5 DEF NextHigh
  <2>7. BYTE_BITS * (n + 1) = WORD * high + NextLow(low)
    BY <1>1, <1>4, <2>4
  <2> QED BY <1>1, <1>6, <2>1, <2>4, <2>5, <2>6, <2>7 DEF Counted
<1> QED BY <1>7, <1>8

-----------------------------------------------------------------------------
(* The blocks of a message.                                                *)

BlockOf(s, k) == SubSeq(s, BLOCK * (k - 1) + 1, BLOCK * k)

\* d is the digest after the first q blocks of s.
Hashes(d, s, q) ==
  \E f : /\ f[0] = InitialDigest /\ d = f[q]
         /\ \A k \in 1..q : f[k] = Compress(f[k - 1], BlockOf(s, k))

LEMMA BlockElements ==
  ASSUME SizesAssumption, NEW V, NEW s \in Seq(V), NEW k \in Nat \ {0}, BLOCK * k <= Len(s)
  PROVE  /\ BlockOf(s, k) \in Seq(V) /\ Len(BlockOf(s, k)) = BLOCK
         /\ \A i \in 1..BLOCK : /\ BLOCK * (k - 1) + i \in 1..Len(s)
                                /\ BlockOf(s, k)[i] = s[BLOCK * (k - 1) + i]
<1> DEFINE a == BLOCK * (k - 1)
           b == BLOCK * k
<1>1. /\ BLOCK \in Nat \ {0} /\ a \in Nat /\ b \in Nat /\ b = a + BLOCK /\ Len(s) \in Nat /\ b <= Len(s)
      /\ \A i \in 1..Len(s) : s[i] \in V
  <2>1. BLOCK \in Nat \ {0} /\ Len(s) \in Nat /\ \A i \in 1..Len(s) : s[i] \in V
    BY Sizes, LenProperties, ElementOfSeq
  <2>2. a \in Nat /\ a + BLOCK = b
    BY <2>1, TimesBefore
  <2>3. b <= Len(s)
    OBVIOUS
  <2> HIDE DEF a, b
  <2> QED BY <2>1, <2>2, <2>3
<1>2. BlockOf(s, k) = SubSeq(s, a + 1, b)
  BY DEF BlockOf
<1> HIDE DEF a, b
<1>3. /\ a + 1 \in Int /\ b \in Int /\ \A i \in a + 1..b : s[i] \in V
      /\ (IF a + 1 <= b THEN b - (a + 1) + 1 ELSE 0) = BLOCK
      /\ \A i \in 1..BLOCK : i \in 1..b - (a + 1) + 1 /\ a + 1 + i - 1 = a + i /\ a + i \in 1..Len(s)
  BY <1>1
<1>4. /\ SubSeq(s, a + 1, b) \in Seq(V)
      /\ Len(SubSeq(s, a + 1, b)) = IF a + 1 <= b THEN b - (a + 1) + 1 ELSE 0
      /\ \A i \in 1..b - (a + 1) + 1 : SubSeq(s, a + 1, b)[i] = s[a + 1 + i - 1]
  BY ONLY <1>3, SubSeqProperties
<1> QED BY <1>2, <1>3, <1>4 DEF a

\* The digest of some blocks does not depend on what follows them.
LEMMA HashesLonger ==
  ASSUME SizesAssumption, NEW V, NEW s \in Seq(V), NEW t \in Seq(V), NEW q \in Nat, NEW d,
         BLOCK * q <= Len(s), Len(s) <= Len(t), \A i \in 1..Len(s) : t[i] = s[i],
         Hashes(d, s, q)
  PROVE  Hashes(d, t, q)
<1>1. PICK f : /\ f[0] = InitialDigest /\ d = f[q]
               /\ \A k \in 1..q : f[k] = Compress(f[k - 1], BlockOf(s, k))
  BY DEF Hashes
<1>2. ASSUME NEW k \in 1..q PROVE BlockOf(s, k) = BlockOf(t, k)
  <2>1. k \in Nat \ {0} /\ BLOCK * k <= BLOCK * q /\ BLOCK * k \in Nat /\ BLOCK * q \in Nat /\ Len(s) \in Nat /\ Len(t) \in Nat
    <3>1. k \in Nat \ {0} /\ k <= q /\ BLOCK \in Nat
      BY Sizes
    <3>2. BLOCK * k <= BLOCK * q
      BY <3>1
    <3> QED BY <3>1, <3>2, Times, LenProperties
  <2>2. BLOCK * k <= Len(s) /\ BLOCK * k <= Len(t)
    BY <2>1
  <2>3. /\ BlockOf(s, k) \in Seq(V) /\ Len(BlockOf(s, k)) = BLOCK
        /\ \A i \in 1..BLOCK : /\ BLOCK * (k - 1) + i \in 1..Len(s)
                               /\ BlockOf(s, k)[i] = s[BLOCK * (k - 1) + i]
    BY <2>1, <2>2, BlockElements
  <2>4. /\ BlockOf(t, k) \in Seq(V) /\ Len(BlockOf(t, k)) = BLOCK
        /\ \A i \in 1..BLOCK : BlockOf(t, k)[i] = t[BLOCK * (k - 1) + i]
    BY <2>1, <2>2, BlockElements
  <2>5. \A i \in 1..Len(BlockOf(s, k)) : BlockOf(s, k)[i] = BlockOf(t, k)[i]
    BY <2>3, <2>4
  <2> QED BY <2>3, <2>4, <2>5, SeqEqual
<1>3. \A k \in 1..q : f[k] = Compress(f[k - 1], BlockOf(t, k))
  BY <1>1, <1>2
<1> QED BY <1>1, <1>3 DEF Hashes

\* One block more.
LEMMA HashesNext ==
  ASSUME NEW s, NEW q \in Nat, NEW d, Hashes(d, s, q)
  PROVE  Hashes(Compress(d, BlockOf(s, q + 1)), s, q + 1)
<1>1. PICK f : /\ f[0] = InitialDigest /\ d = f[q]
               /\ \A k \in 1..q : f[k] = Compress(f[k - 1], BlockOf(s, k))
  BY DEF Hashes
<1> DEFINE e == Compress(d, BlockOf(s, q + 1))
           g == [k \in 0..q + 1 |-> IF k = q + 1 THEN e ELSE f[k]]
<1>2. g[0] = InitialDigest /\ e = g[q + 1]
  BY <1>1
<1>3. ASSUME NEW k \in 1..q + 1 PROVE g[k] = Compress(g[k - 1], BlockOf(s, k))
  <2>1. CASE k = q + 1
    <3>1. k - 1 = q /\ q \in 0..q + 1 /\ q # q + 1
      BY <2>1
    <3>2. g[q] = d /\ g[k] = e
      BY <1>1, <2>1, <3>1
    <3> HIDE DEF g
    <3> QED BY <2>1, <3>1, <3>2
  <2>2. CASE k # q + 1
    <3>1. k \in 1..q /\ k \in 0..q + 1 /\ k - 1 \in 0..q + 1 /\ k - 1 # q + 1
      BY <2>2
    <3>2. g[k] = f[k] /\ g[k - 1] = f[k - 1]
      BY <2>2, <3>1
    <3> HIDE DEF g
    <3> QED BY <1>1, <3>1, <3>2
  <2> QED BY <2>1, <2>2
<1> HIDE DEF g, e
<1>4. Hashes(e, s, q + 1)
  BY <1>2, <1>3 DEF Hashes
<1> QED BY <1>4 DEF e

\* No block gives the initial digest.
LEMMA HashesNone == \A s : Hashes(InitialDigest, s, 0)
<1> SUFFICES ASSUME NEW s PROVE Hashes(InitialDigest, s, 0)
  OBVIOUS
<1> DEFINE f == [k \in {0} |-> InitialDigest]
<1>1. f[0] = InitialDigest /\ \A k \in 1..0 : f[k] = Compress(f[k - 1], BlockOf(s, k))
  OBVIOUS
<1> HIDE DEF f
<1> QED BY <1>1 DEF Hashes

\* And the digest of a whole number of blocks is what the reference says.
LEMMA HashesAll ==
  ASSUME SizesAssumption, NEW V, NEW s \in Seq(V), NEW q \in Nat, Len(s) = BLOCK * q, NEW d, Hashes(d, s, q)
  PROVE  d = Digest(Blocks(s))
<1>1. PICK f : /\ f[0] = InitialDigest /\ d = f[q]
               /\ \A k \in 1..q : f[k] = Compress(f[k - 1], BlockOf(s, k))
  BY DEF Hashes
<1> DEFINE b == Blocks(s)
           Equation(g) == g = [k \in 0..Len(b) |-> IF k = 0 THEN InitialDigest ELSE Compress(g[k - 1], b[k])]
           r == CHOOSE g : Equation(g)
<1>2. Len(s) \div BLOCK = q
  <2>1. BLOCK \in Nat \ {0} /\ 0 \in 0..(BLOCK - 1) /\ BLOCK * q + 0 = Len(s)
    BY Sizes, Times
  <2> QED BY <2>1, Division
<1>3. b = [k \in 1..q |-> BlockOf(s, k)]
  BY <1>2 DEF Blocks, BlockOf
<1>4. Len(b) = q /\ \A k \in 1..q : b[k] = BlockOf(s, k)
  BY <1>3
<1> HIDE DEF b
<1>5. Equation([k \in 0..q |-> f[k]])
  <2> DEFINE g == [k \in 0..q |-> f[k]]
  <2>1. \A k \in 0..q : k # 0 => k \in 1..q /\ k - 1 \in 0..q
    OBVIOUS
  <2>2. \A k \in 0..q : g[k] = IF k = 0 THEN InitialDigest ELSE Compress(g[k - 1], b[k])
    BY <1>1, <1>4, <2>1
  <2> QED BY <1>4, <2>2
<1>6. Equation(r)
  <2> HIDE DEF Equation
  <2> QED BY <1>5
<1>7. Digest(Blocks(s)) = r[q]
  BY <1>4 DEF Digest, b
<1>8. r[0] = InitialDigest /\ \A k \in 1..q : r[k] = Compress(r[k - 1], BlockOf(s, k))
  <2> HIDE DEF r
  <2> QED BY <1>4, <1>6
<1> HIDE DEF r
<1> DEFINE S == {k \in 0..q : r[k] = f[k]}
<1>9. 0 \in S /\ \A k \in 1..q : k - 1 \in S => k \in S
  BY <1>1, <1>8
<1>10. \A k \in 0..q : k \in S
  <2> HIDE DEF S
  <2> QED BY ONLY <1>9, q \in Nat, InductionUpTo
<1> QED BY <1>1, <1>7, <1>10

\* A message that ends in a block begun is continued to the end of it.
LEMMA HashesFill ==
  ASSUME SizesAssumption, NEW V, NEW m \in Seq(V), NEW blk \in Seq(V), NEW tail \in Seq(V), NEW q \in Nat, NEW d,
         Len(m) = BLOCK * q + Len(blk), \A i \in 1..Len(blk) : blk[i] = m[BLOCK * q + i],
         Len(blk) + Len(tail) = BLOCK, Hashes(d, m, q)
  PROVE  /\ m \o tail \in Seq(V) /\ Len(m \o tail) = BLOCK * (q + 1)
         /\ Hashes(Compress(d, blk \o tail), m \o tail, q + 1)
<1> DEFINE a == BLOCK * q
           a1 == BLOCK * (q + 1)
           t == m \o tail
           b == blk \o tail
<1>1. /\ BLOCK \in Nat \ {0} /\ a \in Nat /\ a1 = a + BLOCK
      /\ Len(m) \in Nat /\ Len(blk) \in Nat /\ Len(tail) \in Nat
      /\ Len(m) = a + Len(blk) /\ Len(blk) + Len(tail) = BLOCK
  <2>1. BLOCK \in Nat \ {0}
    BY Sizes
  <2>2. a \in Nat /\ a1 = a + BLOCK
    BY <2>1, Times
  <2>4. Len(m) \in Nat /\ Len(blk) \in Nat /\ Len(tail) \in Nat
    BY LenProperties, Zenon
  <2> QED BY <2>1, <2>2, <2>4, Zenon
<1>0. q + 1 \in Nat \ {0} /\ q + 1 - 1 = q
  BY ONLY q \in Nat
<1>2. t \in Seq(V) /\ Len(t) = Len(m) + Len(tail) /\ b \in Seq(V) /\ Len(b) = Len(blk) + Len(tail)
  BY ConcatProperties
<1>3. \A i \in 1..Len(m) + Len(tail) : t[i] = IF i <= Len(m) THEN m[i] ELSE tail[i - Len(m)]
  BY ConcatProperties
<1>4. \A i \in 1..Len(blk) + Len(tail) : b[i] = IF i <= Len(blk) THEN blk[i] ELSE tail[i - Len(blk)]
  BY ConcatProperties
<1> HIDE DEF t, b
<1>5. Len(t) = a1
  <2>1. /\ a \in Nat /\ BLOCK \in Nat /\ a1 = a + BLOCK /\ Len(m) \in Nat /\ Len(blk) \in Nat /\ Len(tail) \in Nat
        /\ Len(m) = a + Len(blk) /\ Len(blk) + Len(tail) = BLOCK /\ Len(t) = Len(m) + Len(tail)
    BY <1>1, <1>2, Zenon
  <2> HIDE DEF a, a1
  <2> QED BY ONLY <2>1
<1>6. /\ BlockOf(t, q + 1) \in Seq(V) /\ Len(BlockOf(t, q + 1)) = BLOCK
      /\ \A i \in 1..BLOCK : BlockOf(t, q + 1)[i] = t[a + i]
  <2>1. BLOCK * (q + 1) <= Len(t)
    <3>1. a1 <= Len(t)
      <4> HIDE DEF a, a1
      <4> QED BY ONLY <1>1, <1>2, <1>5
    <3> QED BY <3>1
  <2>2. /\ BlockOf(t, q + 1) \in Seq(V) /\ Len(BlockOf(t, q + 1)) = BLOCK
        /\ \A i \in 1..BLOCK : BlockOf(t, q + 1)[i] = t[BLOCK * (q + 1 - 1) + i]
    <3> DEFINE k == q + 1
    <3>1. BLOCK * k <= Len(t) /\ k \in Nat \ {0}
      BY <1>0, <2>1
    <3> HIDE DEF k
    <3>2. /\ BlockOf(t, k) \in Seq(V) /\ Len(BlockOf(t, k)) = BLOCK
          /\ \A i \in 1..BLOCK : BlockOf(t, k)[i] = t[BLOCK * (k - 1) + i]
      <4>1. t \in Seq(V)
        BY <1>2
      <4> QED BY ONLY SizesAssumption, <3>1, <4>1, BlockElements
    <3> QED BY <3>2 DEF k
  <2> QED BY <1>0, <2>2, Zenon
<1>7. ASSUME NEW i \in 1..BLOCK PROVE b[i] = t[a + i]
  <2> HIDE DEF a
  <2>1. CASE i <= Len(blk)
    <3>1. i \in 1..Len(blk) /\ i \in 1..Len(blk) + Len(tail) /\ a + i \in 1..Len(m) + Len(tail) /\ a + i <= Len(m)
      BY ONLY <1>1, <2>1, i \in 1..BLOCK
    <3>2. blk[i] = m[a + i]
      BY <3>1 DEF a
    <3> QED BY <1>3, <1>4, <2>1, <3>1, <3>2, Zenon
  <2>2. CASE ~ (i <= Len(blk))
    <3>1. /\ i \in 1..Len(blk) + Len(tail) /\ a + i \in 1..Len(m) + Len(tail) /\ ~ (a + i <= Len(m))
          /\ (a + i) - Len(m) = i - Len(blk)
      BY ONLY <1>1, <2>2, i \in 1..BLOCK
    <3>2. t[a + i] = tail[(a + i) - Len(m)]
      BY <1>3, <3>1, Zenon
    <3>3. b[i] = tail[i - Len(blk)]
      BY <1>4, <2>2, <3>1, Zenon
    <3> QED BY ONLY <3>1, <3>2, <3>3
  <2> QED BY <2>1, <2>2
<1>8. b = BlockOf(t, q + 1)
  <2>1. Len(b) = Len(BlockOf(t, q + 1)) /\ \A i \in 1..Len(b) : b[i] = BlockOf(t, q + 1)[i]
    BY <1>2, <1>6, <1>7
  <2> QED BY <1>2, <1>6, <2>1, SeqEqual
<1>9. Hashes(d, t, q)
  <2>1. BLOCK * q <= Len(m) /\ Len(m) <= Len(t) /\ \A i \in 1..Len(m) : t[i] = m[i]
    <3>1. \A i \in 1..Len(m) : i \in 1..Len(m) + Len(tail) /\ i <= Len(m)
      BY <1>1
    <3>2. a <= Len(m) /\ Len(m) <= Len(t)
      <4>1. /\ a \in Nat /\ Len(m) \in Nat /\ Len(blk) \in Nat /\ Len(tail) \in Nat
            /\ Len(m) = a + Len(blk) /\ Len(t) = Len(m) + Len(tail)
        BY <1>1, <1>2, Zenon
      <4> HIDE DEF a, a1
      <4> QED BY ONLY <4>1
    <3> QED BY <1>3, <3>1, <3>2, Zenon
  <2> QED BY <1>2, <2>1, HashesLonger, Zenon
<1>10. Hashes(Compress(d, b), t, q + 1)
  BY <1>8, <1>9, HashesNext, Zenon
<1> QED BY <1>2, <1>5, <1>10 DEF t, b

-----------------------------------------------------------------------------
(* The bytes taken in.                                                     *)

\* A context has its six fields, and these values in them.
Fields == {"digest", "Length_Low", "Length_High", "block", "Computed", "Corrupted"}
SixFields(c) == c = [f \in Fields |-> c[f]]
Holds(c, d, low, high, b, computed, corrupted) ==
  /\ SixFields(c)
  /\ c.digest = d /\ c.Length_Low = low /\ c.Length_High = high
  /\ c.block = b /\ c.Computed = computed /\ c.Corrupted = corrupted

Context(c) ==
  /\ SixFields(c)
  /\ c.Length_Low \in 0..(WORD - 1) /\ c.Length_High \in 0..(WORD - 1)
  /\ c.block \in Seq(Byte) /\ Len(c.block) < BLOCK
  /\ c.Computed \in BOOLEAN /\ c.Corrupted \in BOOLEAN

\* What an assignment to a field changes.
LEMMA Updates ==
  ASSUME NEW c, NEW d, NEW l, NEW h, NEW b, NEW p, NEW k, Holds(c, d, l, h, b, p, k), NEW x
  PROVE  /\ Holds([c EXCEPT !.digest = x], x, l, h, b, p, k)
         /\ Holds([c EXCEPT !.Length_Low = x], d, x, h, b, p, k)
         /\ Holds([c EXCEPT !.Length_High = x], d, l, x, b, p, k)
         /\ Holds([c EXCEPT !.block = x], d, l, h, x, p, k)
         /\ Holds([c EXCEPT !.Computed = x], d, l, h, b, x, k)
         /\ Holds([c EXCEPT !.Corrupted = x], d, l, h, b, p, x)
BY DEF Holds, SixFields, Fields

LEMMA ContextHolds ==
  ASSUME NEW c, NEW d, NEW l \in 0..(WORD - 1), NEW h \in 0..(WORD - 1), NEW b \in Seq(Byte), Len(b) < BLOCK,
         NEW p \in BOOLEAN, NEW k \in BOOLEAN, Holds(c, d, l, h, b, p, k)
  PROVE  Context(c)
BY Zenon DEF Context, Holds

LEMMA Running ==
  ASSUME NEW c, Context(c), ~ c.Computed, ~ c.Corrupted
  PROVE  Holds(c, c.digest, c.Length_Low, c.Length_High, c.block, FALSE, FALSE)
<1>1. c.Computed = FALSE /\ c.Corrupted = FALSE
  BY Zenon DEF Context
<1> QED BY <1>1, Zenon DEF Context, Holds

LEMMA Processed ==
  ASSUME NEW c, NEW d, NEW l, NEW h, NEW b, NEW p, NEW k, Holds(c, d, l, h, b, p, k)
  PROVE  Holds(ProcessMessageBlock(c), Compress(d, b), l, h, <<>>, p, k)
<1>1. c.digest = d /\ c.block = b
  BY Zenon DEF Holds
<1>2. ProcessMessageBlock(c) = [c EXCEPT !.digest = Compress(d, b), !.block = <<>>]
  BY <1>1, Zenon DEF ProcessMessageBlock
<1>3. Holds([c EXCEPT !.digest = Compress(d, b)], Compress(d, b), l, h, b, p, k)
  BY Updates, Zenon
<1>4. Holds([c EXCEPT !.digest = Compress(d, b), !.block = <<>>], Compress(d, b), l, h, <<>>, p, k)
  BY <1>3, Updates, Zenon
<1> QED BY <1>2, <1>4, Zenon

\* c has taken in the first n bytes of t.
Streams(c, t, n) ==
  /\ Context(c) /\ ~ c.Computed /\ ~ c.Corrupted
  /\ Counted(c.Length_High, c.Length_Low, n)
  /\ \E q \in Nat : /\ n = BLOCK * q + Len(c.block)
                    /\ Hashes(c.digest, t, q)
                    /\ \A i \in 1..Len(c.block) : c.block[i] = t[BLOCK * q + i]

\* c has met a byte too many, the n-th or one before.
Full(c, n) == Context(c) /\ ~ c.Computed /\ c.Corrupted /\ BYTE_BITS * n >= WORD * WORD

\* One round of the loop, field by field.
LEMMA InputByteFields ==
  ASSUME NEW c, NEW byte, Context(c), ~ c.Computed, ~ c.Corrupted
  PROVE  LET low  == NextLow(c.Length_Low)
             high == NextHigh(c.Length_High, c.Length_Low)
             b    == Append(c.block, byte)
         IN  IF Len(b) = BLOCK
             THEN Holds(InputByte(c, byte), Compress(c.digest, b), low, high, <<>>, FALSE, low = 0 /\ high = 0)
             ELSE Holds(InputByte(c, byte), c.digest, low, high, b, FALSE, low = 0 /\ high = 0)
<1> DEFINE low  == NextLow(c.Length_Low)
           high == NextHigh(c.Length_High, c.Length_Low)
           b    == Append(c.block, byte)
           full == low = 0 /\ high = 0
           e    == [c EXCEPT !.block = Append(@, byte)]
           d    == CountByte(e)
<1>1. Holds(e, c.digest, c.Length_Low, c.Length_High, b, FALSE, FALSE)
  BY Running, Updates, Zenon
<1> HIDE DEF e
<1>2. e.Length_Low = c.Length_Low /\ e.Length_High = c.Length_High
  BY <1>1, Zenon DEF Holds
<1>3. d = [e EXCEPT !.Length_Low = low, !.Length_High = high, !.Corrupted = full]
  BY <1>2, Zenon DEF CountByte, NextLow, NextHigh
<1> HIDE DEF low, high, full, d, b
<1>4. Holds(d, c.digest, low, high, b, FALSE, full)
  <2>1. Holds([e EXCEPT !.Length_Low = low], c.digest, low, c.Length_High, b, FALSE, FALSE)
    BY <1>1, Updates, Zenon
  <2>2. Holds([e EXCEPT !.Length_Low = low, !.Length_High = high], c.digest, low, high, b, FALSE, FALSE)
    BY <2>1, Updates, Zenon
  <2>3. Holds([e EXCEPT !.Length_Low = low, !.Length_High = high, !.Corrupted = full],
              c.digest, low, high, b, FALSE, full)
    BY <2>2, Updates, Zenon
  <2> QED BY <1>3, <2>3, Zenon
<1>5. d.block = b
  BY <1>4, Zenon DEF Holds
<1>6. Holds(ProcessMessageBlock(d), Compress(c.digest, b), low, high, <<>>, FALSE, full)
  BY <1>4, Processed, Zenon
<1>7. InputByte(c, byte) = IF Len(d.block) = BLOCK THEN ProcessMessageBlock(d) ELSE d
  BY Zenon DEF InputByte, d, e
<1>8. CASE Len(b) = BLOCK
  <2>1. InputByte(c, byte) = ProcessMessageBlock(d)
    BY <1>5, <1>7, <1>8, Zenon
  <2> QED BY <1>6, <1>8, <2>1, Zenon DEF low, high, full, b
<1>9. CASE Len(b) # BLOCK
  <2>1. InputByte(c, byte) = d
    BY <1>5, <1>7, <1>9, Zenon
  <2> QED BY <1>4, <1>9, <2>1, Zenon DEF low, high, full, b
<1> QED BY <1>8, <1>9

\* One byte more.
LEMMA StreamsNext ==
  ASSUME SizesAssumption, NEW c, NEW t \in Seq(Byte), NEW n \in Nat, n < Len(t), Streams(c, t, n)
  PROVE  Streams(InputByte(c, t[n + 1]), t, n + 1) \/ Full(InputByte(c, t[n + 1]), n + 1)
<1> DEFINE low  == NextLow(c.Length_Low)
           high == NextHigh(c.Length_High, c.Length_Low)
           b    == Append(c.block, t[n + 1])
           d    == InputByte(c, t[n + 1])
<1>1. Context(c) /\ ~ c.Computed /\ ~ c.Corrupted /\ Counted(c.Length_High, c.Length_Low, n)
  BY DEF Streams
<1>2. PICK q \in Nat : /\ n = BLOCK * q + Len(c.block)
                       /\ Hashes(c.digest, t, q)
                       /\ \A i \in 1..Len(c.block) : c.block[i] = t[BLOCK * q + i]
  BY DEF Streams
<1> DEFINE a == BLOCK * q
           a1 == BLOCK * (q + 1)
<1>3. /\ BLOCK \in Nat \ {0} /\ Len(t) \in Nat /\ a \in Nat /\ a1 = a + BLOCK /\ n = a + Len(c.block)
      /\ c.block \in Seq(Byte) /\ Len(c.block) \in Nat /\ Len(c.block) < BLOCK
  <2>1. BLOCK \in Nat \ {0} /\ Len(t) \in Nat /\ c.block \in Seq(Byte) /\ Len(c.block) \in Nat /\ Len(c.block) < BLOCK
    BY <1>1, Sizes, LenProperties DEF Context
  <2>2. a \in Nat /\ a1 = a + BLOCK
    BY <2>1, Times
  <2> QED BY <1>2, <2>1, <2>2, Zenon
<1> HIDE DEF a, a1
<1>4. n + 1 \in 1..Len(t) /\ t[n + 1] \in Byte
  <2>1. n + 1 \in 1..Len(t)
    BY <1>3
  <2> QED BY <2>1, ElementOfSeq
<1>5. /\ b \in Seq(Byte) /\ Len(b) = Len(c.block) + 1
      /\ \A i \in 1..Len(c.block) : b[i] = c.block[i]
      /\ b[Len(c.block) + 1] = t[n + 1]
  BY <1>3, <1>4, AppendProperties
<1>6. /\ low \in 0..(WORD - 1) /\ high \in 0..(WORD - 1)
      /\ low = 0 /\ high = 0 => BYTE_BITS * (n + 1) = WORD * WORD
      /\ ~ (low = 0 /\ high = 0) => Counted(high, low, n + 1)
  BY <1>1, CountNext
<1> DEFINE full == low = 0 /\ high = 0
<1>7. IF Len(b) = BLOCK THEN Holds(d, Compress(c.digest, b), low, high, <<>>, FALSE, full)
      ELSE Holds(d, c.digest, low, high, b, FALSE, full)
  BY <1>1, InputByteFields, Zenon
<1>7a. full \in BOOLEAN
  OBVIOUS
<1> HIDE DEF low, high, b, d, full
<1>7b. ASSUME Len(b) = BLOCK
       PROVE  /\ Context(d) /\ d.Computed = FALSE /\ d.Corrupted = full /\ d.Length_Low = low /\ d.Length_High = high
              /\ d.digest = Compress(c.digest, b) /\ d.block = <<>>
  <2>1. Holds(d, Compress(c.digest, b), low, high, <<>>, FALSE, full)
    BY <1>7, <1>7b, Zenon
  <2>2. <<>> \in Seq(Byte) /\ Len(<<>>) < BLOCK
    BY <1>3
  <2>3. Context(d)
    BY <1>6, <1>7a, <2>1, <2>2, ContextHolds, Zenon
  <2> QED BY <2>1, <2>3, Zenon DEF Holds
<1>7c. ASSUME Len(b) # BLOCK
       PROVE  /\ Context(d) /\ d.Computed = FALSE /\ d.Corrupted = full /\ d.Length_Low = low /\ d.Length_High = high
              /\ d.digest = c.digest /\ d.block = b
  <2>1. Holds(d, c.digest, low, high, b, FALSE, full)
    BY <1>7, <1>7c, Zenon
  <2>2. b \in Seq(Byte) /\ Len(b) < BLOCK
    <3> DEFINE l == Len(b)
               k == Len(c.block)
    <3>1. l = k + 1 /\ k \in Nat /\ k < BLOCK /\ BLOCK \in Nat /\ l # BLOCK
      BY <1>3, <1>5, <1>7c, Zenon
    <3>2. l < BLOCK
      <4> HIDE DEF l, k
      <4> QED BY ONLY <3>1
    <3> QED BY <1>5, <3>2
  <2>3. Context(d)
    BY <1>6, <1>7a, <2>1, <2>2, ContextHolds, Zenon
  <2> QED BY <2>1, <2>3, Zenon DEF Holds
<1>8. /\ Context(d) /\ ~ d.Computed /\ (d.Corrupted <=> low = 0 /\ high = 0)
      /\ d.Length_Low = low /\ d.Length_High = high
      /\ Len(b) = BLOCK => d.digest = Compress(c.digest, b) /\ d.block = <<>>
      /\ Len(b) # BLOCK => d.digest = c.digest /\ d.block = b
  BY <1>7b, <1>7c, Zenon DEF full
<1>9. CASE low = 0 /\ high = 0
  <2>1. BYTE_BITS * (n + 1) >= WORD * WORD
    <3>1. WORD * WORD \in Nat
      BY Sizes, Times
    <3> QED BY <1>6, <1>9, <3>1
  <2> QED BY <1>8, <1>9, <2>1 DEF Full, d
<1>10. CASE ~ (low = 0 /\ high = 0)
  <2>1. Counted(d.Length_High, d.Length_Low, n + 1)
    BY <1>6, <1>8, <1>10
  <2>2. \A i \in 1..Len(b) : b[i] = t[BLOCK * q + i]
    <3> SUFFICES ASSUME NEW i \in 1..Len(b) PROVE b[i] = t[BLOCK * q + i]
      OBVIOUS
    <3>1. CASE i = Len(c.block) + 1
      <4>1. a + i = n + 1
        BY ONLY <1>3, <3>1
      <4> QED BY <1>5, <3>1, <4>1 DEF a
    <3>2. CASE i # Len(c.block) + 1
      <4>1. i \in 1..Len(c.block)
        BY ONLY <1>3, <1>5, <3>2, i \in 1..Len(b)
      <4> QED BY <1>2, <1>5, <4>1
    <3> QED BY <3>1, <3>2
  <2>3. CASE Len(b) = BLOCK
    <3>1. d.digest = Compress(c.digest, b) /\ d.block = <<>>
      BY <1>8, <2>3, Zenon
    <3>2. n + 1 = BLOCK * (q + 1) /\ BLOCK * (q + 1) <= Len(t) /\ q + 1 \in Nat \ {0} /\ q + 1 - 1 = q
      <4>1. n + 1 = a1 /\ a1 <= Len(t)
        <5>1. /\ a \in Nat /\ BLOCK \in Nat /\ a1 = a + BLOCK /\ n = a + Len(c.block) /\ Len(c.block) \in Nat
              /\ Len(t) \in Nat /\ Len(b) = Len(c.block) + 1 /\ Len(b) = BLOCK /\ n + 1 \in 1..Len(t)
          BY <1>3, <1>4, <1>5, <2>3, Zenon
        <5> QED BY ONLY <5>1
      <4>2. q + 1 \in Nat \ {0} /\ q + 1 - 1 = q
        BY ONLY q \in Nat
      <4> QED BY <4>1, <4>2, Zenon DEF a1
    <3>3. /\ BlockOf(t, q + 1) \in Seq(Byte) /\ Len(BlockOf(t, q + 1)) = BLOCK
          /\ \A i \in 1..BLOCK : BlockOf(t, q + 1)[i] = t[BLOCK * q + i]
      <4> DEFINE k == q + 1
      <4>1. BLOCK * k <= Len(t) /\ k \in Nat \ {0}
        BY <3>2, Zenon
      <4> HIDE DEF k
      <4>2. /\ BlockOf(t, k) \in Seq(Byte) /\ Len(BlockOf(t, k)) = BLOCK
            /\ \A i \in 1..BLOCK : BlockOf(t, k)[i] = t[BLOCK * (k - 1) + i]
        BY ONLY SizesAssumption, t \in Seq(Byte), <4>1, BlockElements
      <4>3. k - 1 = q
        BY <3>2 DEF k
      <4>4. /\ BlockOf(t, k) \in Seq(Byte) /\ Len(BlockOf(t, k)) = BLOCK
            /\ \A i \in 1..BLOCK : BlockOf(t, k)[i] = t[BLOCK * q + i]
        BY ONLY <4>2, <4>3, Zenon
      <4> QED BY ONLY <4>4, Zenon DEF k
    <3>4. b = BlockOf(t, q + 1)
      <4>1. Len(b) = Len(BlockOf(t, q + 1)) /\ \A i \in 1..Len(b) : b[i] = BlockOf(t, q + 1)[i]
        BY <2>2, <2>3, <3>3
      <4> QED BY <1>5, <3>3, <4>1, SeqEqual
    <3>5. Hashes(d.digest, t, q + 1)
      BY <1>2, <3>1, <3>4, HashesNext
    <3>6. n + 1 = BLOCK * (q + 1) + Len(d.block) /\ q + 1 \in Nat /\ \A i \in 1..Len(d.block) : d.block[i] = t[BLOCK * (q + 1) + i]
      <4>1. Len(d.block) = 0 /\ a1 \in Nat /\ n + 1 = a1 + 0 /\ q + 1 \in Nat
        BY <1>3, <3>1, <3>2 DEF a1
      <4>2. \A i \in 1..Len(d.block) : FALSE
        BY ONLY <4>1
      <4> QED BY <4>1, <4>2, Zenon DEF a1
    <3> QED BY <1>8, <1>10, <2>1, <3>5, <3>6 DEF Streams, d
  <2>4. CASE Len(b) # BLOCK
    <3>1. d.digest = c.digest /\ d.block = b
      BY <1>8, <2>4, Zenon
    <3>2. n + 1 = BLOCK * q + Len(b)
      <4>1. n + 1 = a + Len(b)
        BY ONLY <1>3, <1>5
      <4> QED BY <4>1 DEF a
    <3> QED BY <1>2, <1>8, <1>10, <2>1, <2>2, <3>1, <3>2 DEF Streams, d
  <2> QED BY <2>3, <2>4
<1> QED BY <1>9, <1>10

\* f is what the loop over the first n of bytes goes through.
Runs(f, c, bytes, n) == f[0] = c /\ \A k \in 1..n : f[k] = InputByte(f[k - 1], bytes[k])

LEMMA RunsExists ==
  ASSUME NEW c, NEW bytes, NEW n \in Nat
  PROVE  \E f : Runs(f, c, bytes, n)
<1> DEFINE S == {m \in 0..n : \E f : Runs(f, c, bytes, m)}
<1>1. 0 \in S
  <2> DEFINE f == [k \in {0} |-> c]
  <2>1. f[0] = c /\ \A k \in 1..0 : f[k] = InputByte(f[k - 1], bytes[k])
    OBVIOUS
  <2> HIDE DEF f
  <2>2. Runs(f, c, bytes, 0)
    BY <2>1 DEF Runs
  <2> QED BY <2>2
<1>2. ASSUME NEW m \in 1..n, m - 1 \in S PROVE m \in S
  <2>1. PICK f : Runs(f, c, bytes, m - 1)
    BY <1>2
  <2> DEFINE g == [k \in 0..m |-> IF k = m THEN InputByte(f[m - 1], bytes[m]) ELSE f[k]]
  <2>2. g[0] = c
    BY <2>1 DEF Runs
  <2>3. ASSUME NEW k \in 1..m PROVE g[k] = InputByte(g[k - 1], bytes[k])
    <3>1. CASE k = m
      <4>1. m \in 0..m /\ m - 1 \in 0..m /\ m - 1 # m
        OBVIOUS
      <4>2. g[m] = InputByte(f[m - 1], bytes[m]) /\ g[m - 1] = f[m - 1]
        BY <4>1
      <4> HIDE DEF g
      <4> QED BY <3>1, <4>2
    <3>2. CASE k # m
      <4>1. k \in 0..m /\ k - 1 \in 0..m /\ k - 1 # m /\ k \in 1..m - 1
        BY <3>2
      <4>2. g[k] = f[k] /\ g[k - 1] = f[k - 1]
        BY <3>2, <4>1
      <4> HIDE DEF g
      <4> QED BY <2>1, <4>1, <4>2 DEF Runs
    <3> QED BY <3>1, <3>2
  <2> HIDE DEF g
  <2>4. Runs(g, c, bytes, m)
    BY <2>2, <2>3 DEF Runs
  <2> QED BY <2>4
<1>3. \A k \in 0..n : k \in S
  <2> HIDE DEF S
  <2> QED BY ONLY <1>1, <1>2, n \in Nat, InductionUpTo
<1> QED BY <1>3

LEMMA RoundsRun ==
  ASSUME NEW c, NEW bytes, Len(bytes) \in Nat
  PROVE  Runs(Rounds(c, bytes), c, bytes, Len(bytes))
<1> DEFINE n == Len(bytes)
           Equation(g) == g = [k \in 0..Len(bytes) |-> IF k = 0 THEN c ELSE InputByte(g[k - 1], bytes[k])]
           r == CHOOSE g : Equation(g)
<1>1. PICK f : Runs(f, c, bytes, n)
  BY RunsExists
<1>2. Equation([k \in 0..n |-> f[k]])
  <2> DEFINE g == [k \in 0..n |-> f[k]]
  <2>1. \A k \in 0..n : k # 0 => k \in 1..n /\ k - 1 \in 0..n
    OBVIOUS
  <2>2. \A k \in 0..n : g[k] = IF k = 0 THEN c ELSE InputByte(g[k - 1], bytes[k])
    BY <1>1, <2>1 DEF Runs
  <2> QED BY <2>2
<1>3. Equation(r)
  <2> HIDE DEF Equation
  <2> QED BY <1>2
<1>4. Rounds(c, bytes) = r
  BY DEF Rounds
<1>5. r[0] = c /\ \A k \in 1..n : r[k] = InputByte(r[k - 1], bytes[k])
  <2> HIDE DEF r
  <2> QED BY <1>3
<1> HIDE DEF r
<1> QED BY <1>4, <1>5 DEF Runs

\* However many bytes are passed at once.
LEMMA StreamsOn ==
  ASSUME SizesAssumption, NEW c, NEW s \in Seq(Byte), NEW bytes \in Seq(Byte), Streams(c, s, Len(s))
  PROVE  LET d == Rounds(c, bytes)[Len(bytes)]
             t == s \o bytes
         IN  Streams(d, t, Len(t)) \/ Full(d, Len(t))
<1> DEFINE r == Rounds(c, bytes)
           t == s \o bytes
           n == Len(bytes)
           l == Len(s)
           S == {k \in 0..n : Streams(r[k], t, l + k) \/ Full(r[k], l + k)}
<1>1. /\ t \in Seq(Byte) /\ n \in Nat /\ l \in Nat /\ Len(t) = l + n
      /\ \A i \in 1..l : t[i] = s[i]
      /\ \A i \in 1..n : t[l + i] = bytes[i]
  <2>1. n \in Nat /\ l \in Nat
    BY LenProperties
  <2>2. t \in Seq(Byte) /\ Len(t) = l + n /\ \A i \in 1..l + n : t[i] = IF i <= l THEN s[i] ELSE bytes[i - l]
    BY ConcatProperties
  <2> HIDE DEF t
  <2>3. \A i \in 1..l : i \in 1..l + n /\ i <= l
    BY <2>1
  <2>4. \A i \in 1..n : l + i \in 1..l + n /\ ~ (l + i <= l) /\ l + i - l = i
    BY <2>1
  <2> QED BY <2>1, <2>2, <2>3, <2>4
<1>2. r[0] = c /\ \A k \in 1..n : r[k] = InputByte(r[k - 1], bytes[k])
  BY <1>1, RoundsRun DEF Runs
<1> HIDE DEF r, t, n, l
<1>3. 0 \in S
  <2>1. PICK q \in Nat : /\ l = BLOCK * q + Len(c.block)
                         /\ Hashes(c.digest, s, q)
                         /\ \A i \in 1..Len(c.block) : c.block[i] = s[BLOCK * q + i]
    BY DEF Streams, l
  <2>2. BLOCK * q \in Nat /\ Len(c.block) \in Nat /\ BLOCK * q <= l
    <3>1. BLOCK * q \in Nat /\ Len(c.block) \in Nat
      BY Sizes, Times, LenProperties DEF Streams, Context
    <3> QED BY <2>1, <3>1
  <2>3. Hashes(c.digest, t, q)
    <3>1. BLOCK * q <= Len(s) /\ Len(s) <= Len(t) /\ \A i \in 1..Len(s) : t[i] = s[i]
      BY <1>1, <2>2 DEF l
    <3> QED BY <1>1, <2>1, <3>1, HashesLonger, Zenon
  <2>4. \A i \in 1..Len(c.block) : c.block[i] = t[BLOCK * q + i]
    <3>1. \A i \in 1..Len(c.block) : BLOCK * q + i \in 1..l
      <4> DEFINE a == BLOCK * q
      <4>1. a \in Nat /\ Len(c.block) \in Nat /\ l = a + Len(c.block)
        BY <2>1, <2>2, Zenon
      <4> HIDE DEF a
      <4>2. \A i \in 1..Len(c.block) : a + i \in 1..l
        BY ONLY <4>1
      <4> QED BY ONLY <4>2, Zenon DEF a
    <3> QED BY <1>1, <2>1, <3>1, Zenon DEF l
  <2>5. Streams(c, t, l)
    BY <2>1, <2>3, <2>4 DEF Streams, l
  <2> QED BY <1>1, <1>2, <2>5
<1>4. ASSUME NEW k \in 1..n, k - 1 \in S PROVE k \in S
  <2>1. /\ k \in 0..n /\ l + (k - 1) \in Nat /\ l + (k - 1) < Len(t) /\ l + (k - 1) + 1 = l + k
        /\ t[l + k] = bytes[k] /\ r[k] = InputByte(r[k - 1], bytes[k])
    BY <1>1, <1>2
  <2>2. CASE Streams(r[k - 1], t, l + (k - 1))
    <3>1. \/ Streams(InputByte(r[k - 1], t[l + (k - 1) + 1]), t, l + (k - 1) + 1)
          \/ Full(InputByte(r[k - 1], t[l + (k - 1) + 1]), l + (k - 1) + 1)
      BY <1>1, <2>1, <2>2, StreamsNext
    <3> QED BY <2>1, <3>1
  <2>3. CASE Full(r[k - 1], l + (k - 1))
    <3>1. r[k] = r[k - 1]
      BY <2>1, <2>3 DEF InputByte, Full
    <3>2. BYTE_BITS * (l + k) >= WORD * WORD
      <4>1. /\ BYTE_BITS * (l + (k - 1) + 1) = BYTE_BITS * (l + (k - 1)) + BYTE_BITS
            /\ BYTE_BITS * (l + (k - 1)) \in Nat /\ BYTE_BITS \in Nat /\ WORD * WORD \in Nat
        BY <2>1, Sizes, Times
      <4>2. BYTE_BITS * (l + (k - 1)) >= WORD * WORD
        BY <2>3 DEF Full
      <4> QED BY <2>1, <4>1, <4>2
    <3>3. Full(r[k], l + k)
      BY <2>3, <3>1, <3>2 DEF Full
    <3> QED BY <2>1, <3>3
  <2> QED BY <1>4, <2>2, <2>3
<1>5. \A k \in 0..n : k \in S
  <2> HIDE DEF S
  <2> QED BY ONLY <1>1, <1>3, <1>4, InductionUpTo
<1>6. n \in S
  <2>1. n \in 0..n
    BY <1>1
  <2> HIDE DEF S
  <2> QED BY <1>5, <2>1
<1> QED BY <1>1, <1>6 DEF r, t, n, l

-----------------------------------------------------------------------------
(* The padding.                                                            *)

LEMMA ZerosJoin ==
  ASSUME NEW i \in Nat, NEW j \in Nat
  PROVE  /\ Zeros(i) \in Seq({0}) /\ Len(Zeros(i)) = i
         /\ Zeros(i) \o Zeros(j) = Zeros(i + j)
<1>1. ASSUME NEW k \in Nat
      PROVE  Zeros(k) \in Seq({0}) /\ Len(Zeros(k)) = k /\ \A n \in 1..k : Zeros(k)[n] = 0
  BY DEF Zeros
<1>2. i + j \in Nat
  OBVIOUS
<1> DEFINE s == Zeros(i) \o Zeros(j)
<1>3. /\ s \in Seq({0}) /\ Len(s) = i + j
  BY <1>1, ConcatProperties
<1> HIDE DEF s
<1>4. \A n \in 1..Len(s) : s[n] = Zeros(i + j)[n]
  <2>1. \A n \in 1..Len(s) : s[n] \in {0}
    BY <1>3, ElementOfSeq
  <2> QED BY <1>1, <1>2, <1>3, <2>1
<1>5. s = Zeros(i + j)
  BY <1>1, <1>2, <1>3, <1>4, SeqEqual
<1> QED BY <1>1, <1>5 DEF s

\* The bytes of a word are a sequence.
LEMMA BigEndianBytes ==
  ASSUME NEW w, NEW k \in Nat
  PROVE  \E V : BigEndian(w, k) \in Seq(V) /\ Len(BigEndian(w, k)) = k
<1>1. \E f : BigEndian(w, k) = [i \in 1..k |-> f[i]]
  <2> DEFINE g == CHOOSE shifted :
                    shifted = [i \in 0..k |-> IF i = 0 THEN w ELSE shifted[i - 1] \div BASE]
  <2>1. BigEndian(w, k) = [i \in 1..k |-> g[k - i] % BASE]
    BY DEF BigEndian
  <2> HIDE DEF g
  <2> DEFINE f == [i \in 1..k |-> g[k - i] % BASE]
  <2>2. BigEndian(w, k) = [i \in 1..k |-> f[i]]
    BY <2>1
  <2> QED BY <2>2
<1>2. PICK f : BigEndian(w, k) = [i \in 1..k |-> f[i]]
  BY <1>1
<1> DEFINE V == {f[i] : i \in 1..k}
<1>3. BigEndian(w, k) \in [1..k -> V]
  BY <1>2
<1> HIDE DEF V
<1>4. BigEndian(w, k) \in Seq(V) /\ Len(BigEndian(w, k)) = k
  BY <1>3
<1> QED BY <1>4

\* s is j or 2 * j when j divides it and it is less than 3 * j.
LEMMA DividesOnce ==
  ASSUME NEW b \in Nat \ {0}, NEW q \in Nat, NEW s \in 1..(3 * b - 1)
  PROVE  (b * q + s) % b = 0 <=> s \in {b, 2 * b}
<1>1. /\ b * q \in Nat /\ b * (q + 1) = b * q + b /\ b * (q + 2) = b * q + 2 * b
      /\ q + 1 \in Nat /\ q + 2 \in Nat
  BY Times
<1>2. CASE s < b
  <2>1. s \in 0..(b - 1)
    BY <1>2
  <2>2. (b * q + s) % b = s
    BY <2>1, Division
  <2> QED BY <1>2, <2>2
<1>3. CASE b <= s /\ s < 2 * b
  <2>1. s - b \in 0..(b - 1) /\ b * (q + 1) + (s - b) = b * q + s
    BY <1>1, <1>3
  <2>2. (b * (q + 1) + (s - b)) % b = s - b
    BY <1>1, <2>1, Division
  <2>3. (b * q + s) % b = s - b
    BY <2>1, <2>2
  <2> QED BY <1>3, <2>3
<1>4. CASE 2 * b <= s
  <2>1. s - 2 * b \in 0..(b - 1) /\ b * (q + 2) + (s - 2 * b) = b * q + s
    BY <1>1, <1>4
  <2>2. (b * (q + 2) + (s - 2 * b)) % b = s - 2 * b
    BY <1>1, <2>1, Division
  <2>3. (b * q + s) % b = s - 2 * b
    BY <2>1, <2>2
  <2> QED BY <1>4, <2>3
<1> QED BY <1>2, <1>3, <1>4

LEMMA SeqIn ==
  ASSUME NEW V, NEW W, V \subseteq W, NEW s \in Seq(V)
  PROVE  s \in Seq(W)
<1>1. Len(s) \in Nat /\ s \in [1..Len(s) -> V]
  BY LenProperties
<1>2. s \in [1..Len(s) -> W]
  BY <1>1
<1> QED BY <1>1, <1>2

\* The zeros of the padding: to the length in this block, or to the end of
\* this block and to the length in the next.
LEMMA ZerosNeeded ==
  ASSUME SizesAssumption, NEW q \in Nat, NEW l \in 0..(BLOCK - 1), NEW n, n = BLOCK * q + l
  PROVE  LET room(k) == (n + 1 + k + LENGTH_BYTES) % BLOCK = 0
             z == CHOOSE k \in 0..(BLOCK - 1) : room(k)
         IN  /\ l <= LENGTH_AT - 1 => z = LENGTH_AT - (l + 1)
             /\ l > LENGTH_AT - 1 => z = (BLOCK - l - 1) + LENGTH_AT
<1> DEFINE room(k) == (n + 1 + k + LENGTH_BYTES) % BLOCK = 0
           z == CHOOSE k \in 0..(BLOCK - 1) : room(k)
           x == IF l <= LENGTH_AT - 1 THEN LENGTH_AT - (l + 1) ELSE (BLOCK - l - 1) + LENGTH_AT
<1>1. /\ BLOCK \in Nat \ {0} /\ BLOCK * q \in Nat
      /\ LENGTH_BYTES \in Nat \ {0} /\ LENGTH_AT \in Nat \ {0} /\ LENGTH_AT = BLOCK - LENGTH_BYTES
  BY Sizes, Times
<1>2. \A k \in 0..(BLOCK - 1) : room(k) <=> k = x
  <2> SUFFICES ASSUME NEW k \in 0..(BLOCK - 1) PROVE room(k) <=> k = x
    OBVIOUS
  <2> DEFINE s == l + 1 + k + LENGTH_BYTES
  <2>1. s \in 1..(3 * BLOCK - 1) /\ n + 1 + k + LENGTH_BYTES = BLOCK * q + s
    BY <1>1
  <2>2. (BLOCK * q + s) % BLOCK = 0 <=> s \in {BLOCK, 2 * BLOCK}
    <3> HIDE DEF s
    <3> QED BY <1>1, <2>1, DividesOnce
  <2>3. s \in {BLOCK, 2 * BLOCK} <=> k = x
    BY <1>1
  <2> HIDE DEF s, x
  <2> QED BY <2>1, <2>2, <2>3
<1>3. x \in 0..(BLOCK - 1)
  BY <1>1
<1>4. z = x
  <2> HIDE DEF room, x
  <2> QED BY <1>2, <1>3
<1>5. (l <= LENGTH_AT - 1 => x = LENGTH_AT - (l + 1)) /\ (l > LENGTH_AT - 1 => x = (BLOCK - l - 1) + LENGTH_AT)
  BY <1>1
<1> HIDE DEF x
<1> QED BY <1>4, <1>5

\* Where the parts of a padded message are joined.
JoinsThree(s, t, u) == (s \o t) \o u = s \o (t \o u)
JoinsFive(s, t, u, v, w) == (((s \o t) \o u) \o v) \o w = s \o (((t \o u) \o v) \o w)
JoinsSix(s, t, u, v, w, x) ==
  (((s \o t) \o (u \o v)) \o w) \o x = (s \o (t \o u)) \o ((v \o w) \o x)

LEMMA ThreeParts ==
  ASSUME NEW S, NEW s \in Seq(S), NEW t \in Seq(S), NEW u \in Seq(S)
  PROVE  JoinsThree(s, t, u)
BY ConcatAssociative DEF JoinsThree

LEMMA FiveParts ==
  ASSUME NEW S, NEW s \in Seq(S), NEW t \in Seq(S), NEW u \in Seq(S), NEW v \in Seq(S), NEW w \in Seq(S)
  PROVE  JoinsFive(s, t, u, v, w)
<1>1. t \o u \in Seq(S) /\ (t \o u) \o v \in Seq(S)
  BY ConcatProperties
<1>2. JoinsThree(s, t, u) /\ JoinsThree(s, t \o u, v) /\ JoinsThree(s, (t \o u) \o v, w)
  BY <1>1, ThreeParts, Zenon
<1> QED BY <1>2, Zenon DEF JoinsThree, JoinsFive

LEMMA SixParts ==
  ASSUME NEW S, NEW s \in Seq(S), NEW t \in Seq(S), NEW u \in Seq(S), NEW v \in Seq(S), NEW w \in Seq(S),
         NEW x \in Seq(S)
  PROVE  JoinsSix(s, t, u, v, w, x)
<1>1. s \o t \in Seq(S) /\ t \o u \in Seq(S) /\ v \o w \in Seq(S) /\ s \o (t \o u) \in Seq(S)
  BY ConcatProperties
<1>2. /\ JoinsThree(s \o t, u, v) /\ JoinsThree(s, t, u)
      /\ JoinsThree(s \o (t \o u), v, w) /\ JoinsThree(s \o (t \o u), v \o w, x)
  BY <1>1, ThreeParts, Zenon
<1> QED BY <1>2, Zenon DEF JoinsThree, JoinsSix

\* SHA1PadMessage in two parts: up to the first bit of padding, or to the end
\* of the block; and the last block.
Begun(c) ==
  IF Len(c.block) > LENGTH_AT - 1
  THEN ProcessMessageBlock([c EXCEPT !.block = c.block \o <<TOP_BIT>> \o Zeros(BLOCK - Len(c.block) - 1)])
  ELSE [c EXCEPT !.block = Append(c.block, TOP_BIT)]
Ended(d, high, low) ==
  ProcessMessageBlock([d EXCEPT !.block = d.block \o Zeros(LENGTH_AT - Len(d.block))
                                                  \o BigEndian(high, WORD_BYTES) \o BigEndian(low, WORD_BYTES)])

LEMMA PadParts ==
  ASSUME NEW c
  PROVE  PadMessage(c) = Ended(Begun(c), c.Length_High, c.Length_Low)
BY Zenon DEF PadMessage, Begun, Ended

LEMMA EndedHolds ==
  ASSUME NEW x, NEW d, NEW l, NEW h, NEW b, NEW p, NEW k, Holds(x, d, l, h, b, p, k), NEW block,
         block = b \o Zeros(LENGTH_AT - Len(b)) \o BigEndian(h, WORD_BYTES) \o BigEndian(l, WORD_BYTES)
  PROVE  Holds(Ended(x, h, l), Compress(d, block), l, h, <<>>, p, k)
<1>1. x.block = b
  BY Zenon DEF Holds
<1>2. Ended(x, h, l) = ProcessMessageBlock([x EXCEPT !.block = block])
  BY <1>1, Zenon DEF Ended
<1>3. Holds([x EXCEPT !.block = block], d, l, h, block, p, k)
  BY Updates, Zenon
<1> QED BY <1>2, <1>3, Processed, Zenon

\* SHA1PadMessage ends with the digest of the message padded as a whole.
LEMMA PadMessageDigest ==
  ASSUME SizesAssumption, NEW c, NEW m \in Seq(Byte), Streams(c, m, Len(m))
  PROVE  Holds(PadMessage(c), Digest(Blocks(Padded(m))), c.Length_Low, c.Length_High, <<>>, FALSE, FALSE)
<1> DEFINE H == BigEndian(c.Length_High, WORD_BYTES)
           L == BigEndian(c.Length_Low, WORD_BYTES)
           T == <<TOP_BIT>>
           l == Len(c.block)
           room(k) == (Len(m) + 1 + k + LENGTH_BYTES) % BLOCK = 0
           z == CHOOSE k \in 0..(BLOCK - 1) : room(k)
           Pads(x, d, b) == Holds(x, d, c.Length_Low, c.Length_High, b, FALSE, FALSE)
<1>1. PICK q \in Nat : /\ Len(m) = BLOCK * q + l
                       /\ Hashes(c.digest, m, q)
                       /\ \A i \in 1..l : c.block[i] = m[BLOCK * q + i]
  BY DEF Streams
<1>2. /\ Pads(c, c.digest, c.block)
      /\ c.block \in Seq(Byte) /\ Counted(c.Length_High, c.Length_Low, Len(m)) /\ l < BLOCK
  <2>1. Context(c) /\ ~ c.Computed /\ ~ c.Corrupted /\ Counted(c.Length_High, c.Length_Low, Len(m))
    BY Zenon DEF Streams
  <2>2. c.block \in Seq(Byte) /\ l < BLOCK
    BY <2>1, Zenon DEF Context
  <2> QED BY <2>1, <2>2, Running, Zenon
<1>3. /\ BLOCK \in Nat \ {0} /\ WORD_BYTES \in Nat /\ WORD \in Nat \ {0} /\ BLOCK * q \in Nat /\ l \in Nat
      /\ LENGTH_BYTES \in Nat \ {0} /\ LENGTH_BYTES = WORD_BYTES + WORD_BYTES
      /\ LENGTH_AT \in Nat \ {0} /\ LENGTH_AT = BLOCK - LENGTH_BYTES
  BY <1>2, Sizes, Times, LenProperties
<1>4. PICK V1 : H \in Seq(V1) /\ Len(H) = WORD_BYTES
  BY <1>3, BigEndianBytes
<1>5. PICK V2 : L \in Seq(V2) /\ Len(L) = WORD_BYTES
  BY <1>3, BigEndianBytes
<1> DEFINE V == Byte \cup {TOP_BIT, 0} \cup V1 \cup V2
<1>6. /\ m \in Seq(V) /\ c.block \in Seq(V) /\ H \in Seq(V) /\ L \in Seq(V) /\ T \in Seq(V) /\ Len(T) = 1
      /\ \A k \in Nat : Zeros(k) \in Seq(V) /\ Len(Zeros(k)) = k
  <2>1. Byte \subseteq V /\ V1 \subseteq V /\ V2 \subseteq V /\ {0} \subseteq V /\ TOP_BIT \in V
    OBVIOUS
  <2> HIDE DEF V, H, L
  <2>2. T \in Seq(V) /\ Len(T) = 1
    BY <2>1
  <2>3. m \in Seq(V) /\ c.block \in Seq(V)
    BY <1>2, <2>1, SeqIn
  <2>4. H \in Seq(V) /\ L \in Seq(V)
    BY <1>4, <1>5, <2>1, SeqIn
  <2>5. ASSUME NEW k \in Nat PROVE Zeros(k) \in Seq(V) /\ Len(Zeros(k)) = k
    <3>1. Zeros(k) \in Seq({0}) /\ Len(Zeros(k)) = k
      BY ZerosJoin
    <3> QED BY <2>1, <3>1, SeqIn
  <2> QED BY <2>2, <2>3, <2>4, <2>5
<1> HIDE DEF V, T
<1>6a. m \in Seq(V) /\ c.block \in Seq(V) /\ H \in Seq(V) /\ L \in Seq(V) /\ T \in Seq(V)
  BY <1>6, Zenon
\* The two words are those of the reference.
<1>7. Padded(m) = (((m \o T) \o Zeros(z)) \o H) \o L
  <2>1. (BYTE_BITS * Len(m)) \div WORD = c.Length_High /\ (BYTE_BITS * Len(m)) % WORD = c.Length_Low
    <3>1. /\ c.Length_High \in Nat /\ c.Length_Low \in 0..(WORD - 1)
          /\ BYTE_BITS * Len(m) = WORD * c.Length_High + c.Length_Low
      BY <1>2, <1>3 DEF Counted
    <3>2. /\ (WORD * c.Length_High + c.Length_Low) \div WORD = c.Length_High
          /\ (WORD * c.Length_High + c.Length_Low) % WORD = c.Length_Low
      BY <1>3, <3>1, Division
    <3> QED BY <3>1, <3>2
  <2> QED BY <2>1 DEF Padded, T
<1>8. (l <= LENGTH_AT - 1 => z = LENGTH_AT - (l + 1)) /\ (l > LENGTH_AT - 1 => z = (BLOCK - l - 1) + LENGTH_AT)
  <2>1. l \in 0..(BLOCK - 1)
    BY <1>2, <1>3
  <2> QED BY <1>1, <2>1, ZerosNeeded
<1> HIDE DEF z, H, L, l
<1>9. Append(c.block, TOP_BIT) = c.block \o T /\ Len(Append(c.block, TOP_BIT)) = l + 1
  <2>1. TOP_BIT \in V
    BY DEF V
  <2>2. Append(c.block, TOP_BIT) = c.block \o <<TOP_BIT>> /\ Len(Append(c.block, TOP_BIT)) = Len(c.block) + 1
    BY <1>6, <2>1, AppendIsConcat, AppendProperties
  <2> QED BY <2>2 DEF T, l
\* There is room for the length.
<1>10. CASE l <= LENGTH_AT - 1
  <2> DEFINE Z == Zeros(LENGTH_AT - (l + 1))
             tail == ((T \o Z) \o H) \o L
             d == Compress(c.digest, c.block \o tail)
  <2>1. LENGTH_AT - (l + 1) \in Nat
    BY <1>3, <1>10
  <2>2. Z \in Seq(V) /\ Len(Z) = LENGTH_AT - (l + 1)
    BY <1>6, <2>1
  <2> HIDE DEF Z
  <2>2a. Z \in Seq(V)
    BY <2>2, Zenon
  <2>3. ASSUME NEW s \in Seq(V) PROVE (((s \o T) \o Z) \o H) \o L = s \o tail
    <3>1. JoinsFive(s, T, Z, H, L)
      BY <1>6a, <2>2a, FiveParts, Zenon
    <3> QED BY <3>1, Zenon DEF JoinsFive
  <2>4. tail \in Seq(V) /\ Len(c.block) + Len(tail) = BLOCK
    <3>1. T \o Z \in Seq(V) /\ Len(T \o Z) = 1 + (LENGTH_AT - (l + 1))
      <4>1. T \o Z \in Seq(V) /\ Len(T \o Z) = Len(T) + Len(Z)
        BY ONLY <1>6a, <2>2a, ConcatProperties
      <4> QED BY <1>6, <2>2, <4>1, Zenon
    <3>2. (T \o Z) \o H \in Seq(V) /\ Len((T \o Z) \o H) = Len(T \o Z) + WORD_BYTES
      BY <1>4, <1>6, <3>1, ConcatProperties
    <3>3. tail \in Seq(V) /\ Len(tail) = Len((T \o Z) \o H) + WORD_BYTES
      BY <1>5, <1>6, <3>2, ConcatProperties
    <3> HIDE DEF tail
    <3> QED BY <1>3, <3>1, <3>2, <3>3 DEF l
  <2>5. Padded(m) = m \o tail
    BY <1>6, <1>7, <1>8, <1>10, <2>3 DEF Z
  <2>6. Pads(PadMessage(c), d, <<>>)
    <3> DEFINE b == Append(c.block, TOP_BIT)
    <3>1. ~ (Len(c.block) > LENGTH_AT - 1)
      BY <1>3, <1>10 DEF l
    <3>2. Begun(c) = [c EXCEPT !.block = b]
      BY <3>1, Zenon DEF Begun
    <3>3. Pads([c EXCEPT !.block = b], c.digest, b)
      BY <1>2, Updates, Zenon
    <3>4. ((b \o Zeros(LENGTH_AT - Len(b))) \o H) \o L = c.block \o tail
      BY <1>6, <1>9, <2>3, Zenon DEF Z
    <3> HIDE DEF b, tail
    <3>5. Pads(Begun(c), c.digest, b)
      BY <3>2, <3>3, Zenon
    <3> QED BY <3>4, <3>5, EndedHolds, PadParts, Zenon DEF H, L
  <2> HIDE DEF tail, d
  <2>7. m \o tail \in Seq(V) /\ Len(m \o tail) = BLOCK * (q + 1) /\ Hashes(d, m \o tail, q + 1)
    BY <1>1, <1>6, <2>4, HashesFill DEF d, l
  <2>8. d = Digest(Blocks(Padded(m)))
    <3>1. q + 1 \in Nat
      OBVIOUS
    <3> QED BY <2>5, <2>7, <3>1, HashesAll
  <2> QED BY <2>6, <2>8
\* It goes into a block of its own.
<1>11. CASE l > LENGTH_AT - 1
  <2> DEFINE Z1 == Zeros(BLOCK - l - 1)
             Z2 == Zeros(LENGTH_AT)
             fill == T \o Z1
             last == (Z2 \o H) \o L
             d1 == Compress(c.digest, c.block \o fill)
             d == Compress(d1, last)
  <2>1. BLOCK - l - 1 \in Nat
    BY <1>2, <1>3
  <2>2. Z1 \in Seq(V) /\ Len(Z1) = BLOCK - l - 1 /\ Z2 \in Seq(V) /\ Len(Z2) = LENGTH_AT /\ Zeros(z) = Z1 \o Z2
    BY <1>3, <1>6, <1>8, <1>11, <2>1, ZerosJoin
  <2> HIDE DEF Z1, Z2
  <2>2a. Z1 \in Seq(V) /\ Z2 \in Seq(V)
    BY <2>2, Zenon
  <2>3. fill \in Seq(V) /\ Len(c.block) + Len(fill) = BLOCK
    <3>1. fill \in Seq(V) /\ Len(fill) = 1 + (BLOCK - l - 1)
      <4>1. fill \in Seq(V) /\ Len(fill) = Len(T) + Len(Z1)
        BY ONLY <1>6a, <2>2a, ConcatProperties
      <4> HIDE DEF fill
      <4> QED BY <1>6, <2>2, <4>1, Zenon
    <3> HIDE DEF fill
    <3> QED BY <1>3, <3>1 DEF l
  <2>4. last \in Seq(V) /\ Len(last) = BLOCK
    <3>1. Z2 \o H \in Seq(V) /\ Len(Z2 \o H) = LENGTH_AT + WORD_BYTES
      BY <1>4, <1>6, <2>2, ConcatProperties
    <3>2. last \in Seq(V) /\ Len(last) = LENGTH_AT + WORD_BYTES + WORD_BYTES
      BY <1>5, <1>6, <3>1, ConcatProperties
    <3> HIDE DEF last
    <3> QED BY <1>3, <3>2
  <2>5. Padded(m) = (m \o fill) \o last
    <3>1. JoinsSix(m, T, Z1, Z2, H, L)
      BY <1>6a, <2>2a, SixParts, Zenon
    <3>2. Zeros(z) = Z1 \o Z2
      BY <2>2, Zenon
    <3> QED BY <1>7, <3>1, <3>2, Zenon DEF JoinsSix
  <2>6. Pads(PadMessage(c), d, <<>>)
    <3>1. Len(c.block) > LENGTH_AT - 1
      BY <1>11, Zenon DEF l
    <3>2. (c.block \o T) \o Zeros(BLOCK - Len(c.block) - 1) = c.block \o fill
      <4>1. (c.block \o T) \o Z1 = c.block \o fill
        <5>1. JoinsThree(c.block, T, Z1)
          BY <1>6a, <2>2a, ThreeParts, Zenon
        <5> QED BY <5>1, Zenon DEF JoinsThree
      <4> HIDE DEF fill
      <4> QED BY <4>1, Zenon DEF Z1, l
    <3> HIDE DEF fill
    <3>3. Begun(c) = ProcessMessageBlock([c EXCEPT !.block = c.block \o fill])
      BY <3>1, <3>2, Zenon DEF Begun, T
    <3>4. Pads([c EXCEPT !.block = c.block \o fill], c.digest, c.block \o fill)
      BY <1>2, Updates, Zenon
    <3>5. Pads(Begun(c), d1, <<>>)
      BY <3>3, <3>4, Processed, Zenon
    <3> HIDE DEF d1
    <3>6. ((<<>> \o Zeros(LENGTH_AT - Len(<<>>))) \o H) \o L = last
      <4>1. LENGTH_AT - Len(<<>>) = LENGTH_AT
        BY <1>3
      <4>2. <<>> \o Z2 = Z2
        BY <2>2, ConcatEmptySeq
      <4> QED BY <4>1, <4>2, Zenon DEF Z2
    <3> HIDE DEF last
    <3> QED BY <3>5, <3>6, EndedHolds, PadParts, Zenon DEF H, L
  <2> HIDE DEF fill, last, d1, d
  <2>7. /\ m \o fill \in Seq(V) /\ Len(m \o fill) = BLOCK * (q + 1)
        /\ Hashes(d1, m \o fill, q + 1)
    BY <1>1, <1>6, <2>3, HashesFill DEF d1, l
  <2>8. /\ (m \o fill) \o last \in Seq(V) /\ Len((m \o fill) \o last) = BLOCK * (q + 1 + 1)
        /\ Hashes(d, (m \o fill) \o last, q + 1 + 1)
    <3>1. /\ <<>> \in Seq(V) /\ q + 1 \in Nat /\ Len(m \o fill) = BLOCK * (q + 1) + Len(<<>>)
          /\ \A i \in 1..Len(<<>>) : <<>>[i] = (m \o fill)[BLOCK * (q + 1) + i]
          /\ Len(<<>>) + Len(last) = BLOCK
      <4>1. Len(<<>>) = 0 /\ q + 1 \in Nat /\ BLOCK * (q + 1) \in Nat
        BY <1>3, Times
      <4> QED BY <1>3, <2>4, <2>7, <4>1
    <3>2. <<>> \o last = last
      BY <2>4, ConcatEmptySeq
    <3>3. /\ (m \o fill) \o last \in Seq(V) /\ Len((m \o fill) \o last) = BLOCK * (q + 1 + 1)
          /\ Hashes(Compress(d1, <<>> \o last), (m \o fill) \o last, q + 1 + 1)
      BY <2>4, <2>7, <3>1, HashesFill
    <3> QED BY <3>2, <3>3 DEF d
  <2>9. d = Digest(Blocks(Padded(m)))
    <3>1. q + 1 + 1 \in Nat
      OBVIOUS
    <3> QED BY <2>5, <2>8, <3>1, HashesAll
  <2> QED BY <2>6, <2>9
<1>12. l <= LENGTH_AT - 1 \/ l > LENGTH_AT - 1
  BY <1>3
<1> QED BY <1>10, <1>11, <1>12

-----------------------------------------------------------------------------
(* The context between calls.                                              *)

\* It has taken in the whole message, until it gives the digest of it; it is
\* corrupted when the message was too long or went on after the result.
StreamInv ==
  /\ Context(context) /\ message \in Seq(Byte) /\ misused \in BOOLEAN /\ result \in {0, 1}
  /\ context.Corrupted <=> TooLong \/ misused
  /\ ~ context.Corrupted /\ ~ context.Computed => Streams(context, message, Len(message))
  /\ ~ context.Corrupted /\ context.Computed => context.digest = Digest(Blocks(Padded(message)))

LEMMA ResetStreams ==
  ASSUME SizesAssumption
  PROVE  Streams(Reset, <<>>, 0)
<1>1. BLOCK \in Nat \ {0} /\ WORD \in Nat \ {0} /\ BYTE_BITS \in Nat
  BY Sizes
<1>2. /\ Reset.block = <<>> /\ Reset.digest = InitialDigest /\ Reset.Length_Low = 0 /\ Reset.Length_High = 0
      /\ Reset.Computed = FALSE /\ Reset.Corrupted = FALSE /\ SixFields(Reset)
  BY DEF Reset, SixFields, Fields
<1>3. Context(Reset)
  <2>1. <<>> \in Seq(Byte) /\ Len(<<>>) = 0 /\ Len(<<>>) < BLOCK /\ 0 \in 0..(WORD - 1)
    BY <1>1
  <2> QED BY <1>2, <2>1, Zenon DEF Context
<1>4. Counted(0, 0, 0)
  <2>1. BYTE_BITS * 0 = WORD * 0 + 0 /\ 0 \in 0..(WORD - 1) /\ 0 = BYTE_BITS * 0 /\ 0 \in Nat
    BY <1>1
  <2> QED BY <2>1 DEF Counted
<1>5. 0 \in Nat /\ 0 = BLOCK * 0 + Len(<<>>) /\ \A i \in 1..Len(<<>>) : <<>>[i] = <<>>[BLOCK * 0 + i]
  BY <1>1
<1>6. Hashes(InitialDigest, <<>>, 0)
  BY HashesNone
<1> QED BY <1>2, <1>3, <1>4, <1>5, <1>6 DEF Streams

LEMMA ResetStep ==
  ASSUME SizesAssumption, context' = Reset, message' = <<>>, misused' = FALSE, result' \in {0, 1}
  PROVE  StreamInv'
<1>1. Streams(context', message', Len(message'))
  BY ResetStreams
<1>2. Context(context') /\ ~ context.Corrupted' /\ ~ context.Computed'
  BY <1>1 DEF Streams
<1>3. ~ TooLong'
  <2>1. BYTE_BITS * Len(message') = 0 /\ WORD * WORD >= 1
    <3>1. BYTE_BITS \in Nat /\ WORD \in Nat \ {0} /\ Len(message') = 0
      BY Sizes
    <3>2. WORD * WORD >= 1
      BY <3>1
    <3> QED BY <3>1, <3>2
  <2>2. ~ (BYTE_BITS * Len(message') >= WORD * WORD)
    <3>1. WORD * WORD \in Nat
      BY Sizes, Times
    <3> QED BY <2>1, <3>1
  <2> QED BY <2>2 DEF TooLong
<1>4. message' \in Seq(Byte) /\ misused' \in BOOLEAN
  <2>1. <<>> \in Seq(Byte)
    OBVIOUS
  <2> QED BY <2>1, Zenon
<1> QED BY <1>1, <1>2, <1>3, <1>4 DEF StreamInv

\* A longer message is too long if a shorter one was.
LEMMA TooLongStays ==
  ASSUME SizesAssumption, NEW m \in Nat, NEW n \in Nat, m <= n, BYTE_BITS * m >= WORD * WORD
  PROVE  BYTE_BITS * n >= WORD * WORD
<1>1. BYTE_BITS \in Nat /\ WORD * WORD \in Nat /\ BYTE_BITS * m \in Nat /\ BYTE_BITS * n \in Nat
  BY Sizes, Times
<1>2. BYTE_BITS * m <= BYTE_BITS * n
  BY <1>1
<1> QED BY <1>1, <1>2

LEMMA InputStep ==
  ASSUME SizesAssumption, ChunksAssumption, StreamInv, NEW bytes \in Chunks, SHA1Input(bytes)
  PROVE  StreamInv'
<1>1. /\ context' = Input(context, bytes) /\ message' = message \o bytes
      /\ misused' = (misused \/ (context.Computed /\ bytes # <<>>)) /\ result' = result
  BY DEF SHA1Input
<1>2. bytes \in Seq(Byte) /\ message \in Seq(Byte)
  BY DEF ChunksAssumption, StreamInv
<1>3. message' \in Seq(Byte) /\ Len(message') = Len(message) + Len(bytes) /\ Len(message) \in Nat /\ Len(bytes) \in Nat
  BY <1>1, <1>2, ConcatProperties, LenProperties
<1>4. TooLong => TooLong'
  <2> SUFFICES ASSUME TooLong PROVE TooLong'
    OBVIOUS
  <2>1. BYTE_BITS * Len(message) >= WORD * WORD
    BY DEF TooLong
  <2>2. Len(message) <= Len(message') /\ Len(message') \in Nat
    BY <1>3
  <2>3. BYTE_BITS * Len(message') >= WORD * WORD
    BY <1>3, <2>1, <2>2, TooLongStays
  <2> QED BY <2>3 DEF TooLong
<1>5. misused' \in BOOLEAN /\ result' \in {0, 1}
  BY <1>1 DEF StreamInv
<1>6. CASE bytes = <<>>
  <2>1. context' = context /\ message' = message /\ misused' = misused
    BY <1>1, <1>2, <1>6, ConcatEmptySeq DEF Input, StreamInv
  <2>2. TooLong' <=> TooLong
    BY <2>1 DEF TooLong
  <2> QED BY <1>3, <1>5, <2>1, <2>2 DEF StreamInv
<1>7. CASE bytes # <<>> /\ (context.Computed \/ context.Corrupted)
  <2>1. context' = [context EXCEPT !.Corrupted = TRUE]
    BY <1>1, <1>7 DEF Input
  <2>2. Context(context') /\ context.Corrupted'
    <3> DEFINE c == context
    <3>1. Context(c)
      BY Zenon DEF StreamInv
    <3>2. Holds(c, c.digest, c.Length_Low, c.Length_High, c.block, c.Computed, c.Corrupted)
      BY <3>1, Zenon DEF Context, Holds
    <3>3. Holds([c EXCEPT !.Corrupted = TRUE], c.digest, c.Length_Low, c.Length_High, c.block, c.Computed, TRUE)
      BY <3>2, Updates, Zenon
    <3>4. Context([c EXCEPT !.Corrupted = TRUE])
      BY <3>1, <3>3, Zenon DEF Context, Holds
    <3> QED BY <2>1, <3>3, <3>4, Zenon DEF Holds
  <2>3. TooLong' \/ misused'
    BY <1>1, <1>4, <1>7 DEF StreamInv
  <2> QED BY <1>3, <1>5, <2>2, <2>3 DEF StreamInv
<1>8. CASE bytes # <<>> /\ ~ context.Computed /\ ~ context.Corrupted
  <2>1. context' = Rounds(context, bytes)[Len(bytes)]
    BY <1>1, <1>8 DEF Input
  <2>2. ~ misused' /\ Streams(context, message, Len(message))
    BY <1>1, <1>8 DEF StreamInv
  <2>3. Streams(context', message', Len(message')) \/ Full(context', Len(message'))
    BY <1>1, <1>2, <2>1, <2>2, StreamsOn
  <2>4. CASE Streams(context', message', Len(message'))
    <3>1. Context(context') /\ ~ context.Corrupted' /\ ~ context.Computed'
      BY <2>4 DEF Streams
    <3>2. ~ TooLong'
      <4>1. BYTE_BITS * Len(message') < WORD * WORD
        <5>1. Counted(context'.Length_High, context'.Length_Low, Len(message')) /\ Len(message') \in Nat
          BY <1>3, <2>4 DEF Streams
        <5> QED BY <5>1, CountedShort
      <4>2. BYTE_BITS * Len(message') \in Nat /\ WORD * WORD \in Nat
        <5>1. Len(message') \in Nat
          BY <1>3
        <5> QED BY <5>1, Sizes, Times
      <4> QED BY <4>1, <4>2 DEF TooLong
    <3> QED BY <1>3, <1>5, <2>2, <2>4, <3>1, <3>2 DEF StreamInv
  <2>5. CASE Full(context', Len(message'))
    <3>1. Context(context') /\ context.Corrupted' /\ TooLong'
      BY <2>5 DEF Full, TooLong
    <3> QED BY <1>3, <1>5, <3>1 DEF StreamInv
  <2> QED BY <2>3, <2>4, <2>5
<1> QED BY <1>6, <1>7, <1>8

LEMMA ResultStep ==
  ASSUME SizesAssumption, StreamInv, SHA1Result
  PROVE  StreamInv'
<1>1. context' = Result(context) /\ message' = message /\ misused' = misused /\ result' \in {0, 1}
  BY DEF SHA1Result
<1>2. TooLong' <=> TooLong
  BY <1>1 DEF TooLong
<1>3. CASE context.Corrupted \/ context.Computed
  <2>1. context' = context
    BY <1>1, <1>3 DEF Result
  <2> QED BY <1>1, <1>2, <2>1 DEF StreamInv
<1>4. CASE ~ context.Corrupted /\ ~ context.Computed
  <2> DEFINE d == Digest(Blocks(Padded(message)))
  <2>1. Streams(context, message, Len(message)) /\ message \in Seq(Byte)
    BY <1>4 DEF StreamInv
  <2>2. Holds(PadMessage(context), d, context.Length_Low, context.Length_High, <<>>, FALSE, FALSE)
    BY <2>1, PadMessageDigest, Zenon
  <2>3. d' = d
    BY <1>1
  <2> HIDE DEF d
  <2>4. context' = [PadMessage(context) EXCEPT !.Computed = TRUE]
    BY <1>1, <1>4, Zenon DEF Result
  <2>5. Context(context') /\ ~ context.Corrupted' /\ context.Computed' /\ context.digest' = d
    <3>1. <<>> \in Seq(Byte) /\ Len(<<>>) < BLOCK
      BY Sizes
    <3>2. context.Length_Low \in 0..(WORD - 1) /\ context.Length_High \in 0..(WORD - 1)
      BY Zenon DEF StreamInv, Context
    <3>3. Holds(context', d, context.Length_Low, context.Length_High, <<>>, TRUE, FALSE)
      BY <2>2, <2>4, Updates, Zenon
    <3>4. Context(context')
      BY <3>1, <3>2, <3>3, ContextHolds, Zenon
    <3> QED BY <3>3, <3>4, Zenon DEF Holds
  <2>6. ~ TooLong /\ ~ misused
    BY <1>4 DEF StreamInv
  <2> QED BY <1>1, <1>2, <2>1, <2>3, <2>5, <2>6 DEF StreamInv, d
<1> QED BY <1>3, <1>4

LEMMA StreamInvariant ==
  ASSUME SizesAssumption, ChunksAssumption
  PROVE  Spec => []StreamInv
<1>1. Init => StreamInv
  <2> SUFFICES ASSUME Init PROVE StreamInv
    OBVIOUS
  <2>1. Streams(context, message, Len(message))
    BY ResetStreams DEF Init
  <2>2. Context(context) /\ ~ context.Corrupted /\ ~ context.Computed
    BY <2>1 DEF Streams
  <2>3. ~ TooLong
    <3>1. /\ BYTE_BITS \in Nat /\ Len(message) = 0 /\ WORD \in Nat \ {0}
      BY Sizes DEF Init
    <3>2. BYTE_BITS * Len(message) = 0 /\ WORD * WORD >= 1 /\ WORD * WORD \in Nat
      BY <3>1
    <3> QED BY <3>2 DEF TooLong
  <2>4. message \in Seq(Byte) /\ misused = FALSE /\ result \in {0, 1}
    <3>1. message = <<>> /\ misused = FALSE /\ result = 1
      BY DEF Init
    <3>2. <<>> \in Seq(Byte)
      OBVIOUS
    <3> QED BY <3>1, <3>2, Zenon
  <2> QED BY <2>1, <2>2, <2>3, <2>4, Zenon DEF StreamInv
<1>2. StreamInv /\ [Next]_vars => StreamInv'
  <2> SUFFICES ASSUME StreamInv, [Next]_vars PROVE StreamInv'
    OBVIOUS
  <2>1. CASE SHA1Reset
    <3>1. result' \in {0, 1}
      BY <2>1 DEF SHA1Reset, StreamInv
    <3> QED BY <2>1, <3>1, ResetStep DEF SHA1Reset
  <2>2. CASE SHA1Result
    BY <2>2, ResultStep
  <2>3. CASE \E bytes \in Chunks : SHA1Input(bytes)
    BY <2>3, InputStep
  <2>4. CASE UNCHANGED vars
    BY <2>4 DEF vars, StreamInv, TooLong, Streams, Context
  <2> QED BY <2>1, <2>2, <2>3, <2>4 DEF Next
<1> QED BY <1>1, <1>2, PTL DEF Spec

LEMMA StreamKept ==
  ASSUME SizesAssumption, StreamInv
  PROVE  TypeOK /\ DigestOfMessage /\ BlockIsRest /\ CorruptedExactly
<1>1. TypeOK /\ DigestOfMessage /\ CorruptedExactly
  BY DEF StreamInv, Context, TypeOK, DigestOfMessage, CorruptedExactly
<1>2. ASSUME ~ context.Corrupted, ~ context.Computed
      PROVE  context.block = SubSeq(message, BLOCK * (Len(message) \div BLOCK) + 1, Len(message))
  <2> DEFINE b == context.block
  <2>1. Streams(context, message, Len(message)) /\ message \in Seq(Byte)
    BY <1>2 DEF StreamInv
  <2>2. PICK q \in Nat : Len(message) = BLOCK * q + Len(b) /\ \A i \in 1..Len(b) : b[i] = message[BLOCK * q + i]
    BY <2>1 DEF Streams
  <2>3. /\ BLOCK \in Nat \ {0} /\ BLOCK * q \in Nat /\ b \in Seq(Byte) /\ Len(b) \in Nat /\ Len(b) < BLOCK
        /\ Len(message) \in Nat
    BY <2>1, Sizes, Times, LenProperties DEF Streams, Context
  <2>4. Len(message) \div BLOCK = q
    <3>1. Len(b) \in 0..(BLOCK - 1)
      BY <2>3
    <3> QED BY <2>2, <2>3, <3>1, Division
  <2> HIDE DEF b
  <2> DEFINE a == BLOCK * q
             r == SubSeq(message, a + 1, Len(message))
  <2>5. a \in Nat /\ Len(message) = a + Len(b) /\ \A i \in 1..Len(b) : b[i] = message[a + i]
    BY <2>2, <2>3
  <2> HIDE DEF a
  <2>6. /\ a + 1 \in Int /\ Len(message) \in Int /\ \A i \in a + 1..Len(message) : message[i] \in Byte
        /\ (IF a + 1 <= Len(message) THEN Len(message) - (a + 1) + 1 ELSE 0) = Len(b)
        /\ \A i \in 1..Len(b) : i \in 1..Len(message) - (a + 1) + 1 /\ a + 1 + i - 1 = a + i
    <3>1. \A i \in 1..Len(message) : message[i] \in Byte
      BY <2>1, ElementOfSeq
    <3> QED BY <2>3, <2>5, <3>1
  <2>7. /\ r \in Seq(Byte)
        /\ Len(r) = IF a + 1 <= Len(message) THEN Len(message) - (a + 1) + 1 ELSE 0
        /\ \A i \in 1..Len(message) - (a + 1) + 1 : r[i] = message[a + 1 + i - 1]
    BY ONLY <2>6, SubSeqProperties
  <2> HIDE DEF r
  <2>8. Len(r) = Len(b) /\ \A i \in 1..Len(r) : r[i] = b[i]
    <3>1. Len(r) = Len(b)
      <4>1. Len(r) = IF a + 1 <= Len(message) THEN Len(message) - (a + 1) + 1 ELSE 0
        BY <2>7
      <4>2. (IF a + 1 <= Len(message) THEN Len(message) - (a + 1) + 1 ELSE 0) = Len(b)
        BY <2>6
      <4> QED BY ONLY <4>1, <4>2
    <3>2. ASSUME NEW i \in 1..Len(r) PROVE r[i] = b[i]
      <4>1. i \in 1..Len(b) /\ i \in 1..Len(message) - (a + 1) + 1 /\ a + 1 + i - 1 = a + i
        BY <2>6, <3>1, Zenon
      <4>2. r[i] = message[a + 1 + i - 1]
        BY <2>7, <4>1, Zenon
      <4> QED BY <2>5, <4>1, <4>2, Zenon
    <3> QED BY <3>1, <3>2, Zenon
  <2>9. r = b
    BY <2>3, <2>7, <2>8, SeqEqual
  <2> QED BY <2>4, <2>9 DEF r, a, b
<1> QED BY <1>1, <1>2 DEF BlockIsRest

\* SHA1Input and SHA1Result, in any order and with any cuts: the digest given
\* is that of the message padded as a whole, for every size of bytes, words
\* and blocks and every compression; until then no byte is lost; and the
\* context is corrupted exactly for too long a message and after misuse.
THEOREM StreamDigest ==
  ASSUME SizesAssumption, ChunksAssumption
  PROVE  Spec => [](TypeOK /\ DigestOfMessage /\ BlockIsRest /\ CorruptedExactly)
<1>1. Spec => []StreamInv
  BY StreamInvariant
<1>2. StreamInv => TypeOK /\ DigestOfMessage /\ BlockIsRest /\ CorruptedExactly
  BY StreamKept
<1> QED BY <1>1, <1>2, PTL

-----------------------------------------------------------------------------
(* The order of bytes.                                                     *)

Place == 0..63

\* Where the bit at a place goes when the bytes of a word are reversed.
Mirror(i) == 8 * (7 - (i \div 8)) + (i % 8)

\* A byte at a time, its bits keep their order.
LEMMA MirrorOfByte ==
  ASSUME NEW k \in 0..7, NEW i \in (8 * k)..(8 * k + 7)
  PROVE  Mirror(i) = 56 - 16 * k + i
<1>1. i \div 8 = k /\ i % 8 = i - 8 * k
  OBVIOUS
<1> QED BY <1>1 DEF Mirror

\* Every place is in a byte.
LEMMA ByteOf == \A i \in Place : \E k \in 0..7 : i \in (8 * k)..(8 * k + 7)
<1> SUFFICES ASSUME NEW i \in Place PROVE \E k \in 0..7 : i \in (8 * k)..(8 * k + 7)
  OBVIOUS
<1>1. i \div 8 \in 0..7 /\ i \in (8 * (i \div 8))..(8 * (i \div 8) + 7)
  BY DEF Place
<1> QED BY <1>1

LEMMA MirrorTwice == \A i \in Place : Mirror(i) \in Place /\ Mirror(Mirror(i)) = i
<1> SUFFICES ASSUME NEW i \in Place PROVE Mirror(i) \in Place /\ Mirror(Mirror(i)) = i
  OBVIOUS
<1>1. PICK k \in 0..7 : i \in (8 * k)..(8 * k + 7)
  BY ByteOf
<1>2. Mirror(i) = 56 - 16 * k + i
  BY <1>1, MirrorOfByte
<1>3. 7 - k \in 0..7 /\ Mirror(i) \in (8 * (7 - k))..(8 * (7 - k) + 7)
  BY <1>1, <1>2
<1>4. Mirror(Mirror(i)) = 56 - 16 * (7 - k) + Mirror(i)
  BY <1>3, MirrorOfByte
<1> QED BY <1>1, <1>2, <1>3, <1>4 DEF Place

\* The bits of a word with its bytes reversed, place by place.
LEMMA ReversedBits ==
  ASSUME NEW w \in SUBSET Place
  PROVE  /\ Order!Reversed(w, 8) \subseteq Place
         /\ \A j \in Place : j \in Order!Reversed(w, 8) <=> Mirror(j) \in w
<1>1. Order!Reversed(w, 8) = {Mirror(i) : i \in w}
  BY DEF Order!Reversed, Mirror
<1> QED BY <1>1, MirrorTwice

\* The bits of a word converted: what each of the eight shifts contributes.
LEMMA SwappedBits ==
  ASSUME NEW w \in SUBSET Place
  PROVE  /\ Order!Swap64(w) \subseteq Place
         /\ \A k \in 0..7 : \A j \in (8 * k)..(8 * k + 7) : j \in Order!Swap64(w) <=> 56 - 16 * k + j \in w
<1>1. \A n \in 0..63 : \A j \in Int : j \in Order!ShiftRight(w, n) <=> j >= 0 /\ j + n \in w
  BY DEF Order!ShiftRight, Place
<1>2. \A n \in 0..63 : \A j \in Int : j \in Order!ShiftLeft(w, n, 64) <=> j <= 63 /\ j - n \in w
  BY DEF Order!ShiftLeft, Place
<1>3. Order!Swap64(w) \subseteq Place
  BY <1>1, <1>2 DEF Order!Swap64, Order!Mask, Place, Order!ShiftRight, Order!ShiftLeft
<1>4. \A j \in Place :
        j \in Order!Swap64(w) <=>
          \/ j + 56 \in w
          \/ j - 56 \in w
          \/ j \in 48..55 /\ j - 40 \in w
          \/ j \in 40..47 /\ j - 24 \in w
          \/ j \in 32..39 /\ j - 8 \in w
          \/ j \in 24..31 /\ j + 8 \in w
          \/ j \in 16..23 /\ j + 24 \in w
          \/ j \in 8..15 /\ j + 40 \in w
  <2> SUFFICES ASSUME NEW j \in Place PROVE <1>4!(j)
    OBVIOUS
  <2>1. /\ j \in Order!ShiftRight(w, 56) <=> j + 56 \in w
        /\ j \in Order!ShiftLeft(w, 56, 64) <=> j - 56 \in w
        /\ j \in Order!ShiftLeft(w, 40, 64) <=> j - 40 \in w
        /\ j \in Order!ShiftLeft(w, 24, 64) <=> j - 24 \in w
        /\ j \in Order!ShiftLeft(w, 8, 64) <=> j - 8 \in w
        /\ j \in Order!ShiftRight(w, 8) <=> j + 8 \in w
        /\ j \in Order!ShiftRight(w, 24) <=> j + 24 \in w
        /\ j \in Order!ShiftRight(w, 40) <=> j + 40 \in w
    <3>1. j \in Int /\ j >= 0 /\ j <= 63
      BY DEF Place
    <3>2. \A n \in {8, 24, 40, 56} : j \in Order!ShiftRight(w, n) <=> j + n \in w
      BY <1>1, <3>1
    <3>3. \A n \in {8, 24, 40, 56} : j \in Order!ShiftLeft(w, n, 64) <=> j - n \in w
      BY <1>2, <3>1
    <3> QED BY <3>2, <3>3
  <2> QED BY <2>1 DEF Order!Swap64, Order!Mask
<1>5. ASSUME NEW k \in 0..7, NEW j \in (8 * k)..(8 * k + 7)
      PROVE  j \in Order!Swap64(w) <=> 56 - 16 * k + j \in w
  <2>1. j \in Place
    BY DEF Place
  <2>2. \A i \in w : i \in 0..63
    BY DEF Place
  <2>3. \A i \in Int \ Place : i \notin w
    BY DEF Place
  <2>4. CASE k = 0
    BY <2>1, <2>3, <2>4, <1>4 DEF Place
  <2>5. CASE k = 1
    BY <2>1, <2>3, <2>5, <1>4 DEF Place
  <2>6. CASE k = 2
    BY <2>1, <2>3, <2>6, <1>4 DEF Place
  <2>7. CASE k = 3
    BY <2>1, <2>3, <2>7, <1>4 DEF Place
  <2>8. CASE k = 4
    BY <2>1, <2>3, <2>8, <1>4 DEF Place
  <2>9. CASE k = 5
    BY <2>1, <2>3, <2>9, <1>4 DEF Place
  <2>10. CASE k = 6
    BY <2>1, <2>3, <2>10, <1>4 DEF Place
  <2>11. CASE k = 7
    BY <2>1, <2>3, <2>11, <1>4 DEF Place
  <2> QED BY <2>4, <2>5, <2>6, <2>7, <2>8, <2>9, <2>10, <2>11
<1> QED BY <1>3, <1>5

\* lws_htobe64 reverses the bytes of every word.
LEMMA Swap64Reverses ==
  ASSUME NEW w \in SUBSET Place
  PROVE  Order!Swap64(w) = Order!Reversed(w, 8)
<1>1. \A j \in Place : j \in Order!Swap64(w) <=> Mirror(j) \in w
  BY ByteOf, MirrorOfByte, SwappedBits
<1> QED BY <1>1, ReversedBits, SwappedBits

\* lws_htobe16 does on the two bytes of its own.
LEMMA Swap16Reverses ==
  ASSUME NEW w \in SUBSET (0..15)
  PROVE  /\ Order!Swap16(w) = Order!Reversed(w, 2)
         /\ Order!Swap16(w) \in SUBSET (0..15)
         /\ Order!Swap16(Order!Swap16(w)) = w
<1>1. \A i \in 0..15 : 8 * (2 - 1 - (i \div 8)) + (i % 8) = IF i < 8 THEN i + 8 ELSE i - 8
  OBVIOUS
<1>2. ASSUME NEW v \in SUBSET (0..15)
      PROVE  /\ Order!Swap16(v) \subseteq 0..15
             /\ \A j \in 0..15 : j \in Order!Swap16(v) <=> (IF j < 8 THEN j + 8 ELSE j - 8) \in v
  <2>1. \A j \in Int : j \in Order!ShiftLeft(v \cap Order!Mask(0, 7), 8, 16) <=> j \in 8..15 /\ j - 8 \in v
    BY DEF Order!ShiftLeft, Order!Mask
  <2>2. \A j \in Int : j \in Order!ShiftRight(v \cap Order!Mask(8, 15), 8) <=> j \in 0..7 /\ j + 8 \in v
    BY DEF Order!ShiftRight, Order!Mask
  <2>3. Order!Swap16(v) \subseteq 0..15
    BY DEF Order!Swap16, Order!ShiftLeft, Order!ShiftRight, Order!Mask
  <2>4. ASSUME NEW j \in 0..15
        PROVE  j \in Order!Swap16(v) <=> (IF j < 8 THEN j + 8 ELSE j - 8) \in v
    <3>1. j \in Order!Swap16(v) <=> (j \in 8..15 /\ j - 8 \in v) \/ (j \in 0..7 /\ j + 8 \in v)
      <4> DEFINE up == Order!ShiftLeft(v \cap Order!Mask(0, 7), 8, 16)
                 down == Order!ShiftRight(v \cap Order!Mask(8, 15), 8)
      <4>1. /\ j \in up <=> j \in 8..15 /\ j - 8 \in v
            /\ j \in down <=> j \in 0..7 /\ j + 8 \in v
        <5> j \in Int
          OBVIOUS
        <5> QED BY <2>1, <2>2
      <4>2. Order!Swap16(v) = up \cup down
        BY Zenon DEF Order!Swap16
      <4> HIDE DEF up, down
      <4> QED BY ONLY <4>1, <4>2
    <3> QED BY <3>1
  <2> QED BY <2>3, <2>4
<1>3. /\ Order!Reversed(w, 2) \subseteq 0..15
      /\ \A j \in 0..15 : j \in Order!Reversed(w, 2) <=> (IF j < 8 THEN j + 8 ELSE j - 8) \in w
  BY <1>1 DEF Order!Reversed
<1>4. Order!Swap16(w) = Order!Reversed(w, 2)
  BY <1>2, <1>3
<1>5. Order!Swap16(w) \in SUBSET (0..15)
  BY <1>2
<1>6. \A j \in 0..15 : j \in Order!Swap16(Order!Swap16(w)) <=> j \in w
  BY <1>2, <1>5
<1> QED BY <1>2, <1>4, <1>5, <1>6

\* Reversing twice changes nothing.
LEMMA ReversedTwice ==
  ASSUME NEW w \in SUBSET Place
  PROVE  Order!Reversed(Order!Reversed(w, 8), 8) = w
BY ReversedBits, MirrorTwice

-----------------------------------------------------------------------------
Word == word \in SUBSET Place

LEMMA WordIsPlaces == Order!Spec => []Word
<1>1. Order!Init => Word
  BY DEF Order!Init, Word
<1>2. Word /\ [Order!Next]_word => Word'
  BY DEF Order!Next, Order!SetBit, Place, Word
<1> QED BY <1>1, <1>2, PTL DEF Order!Spec

\* The conversions of util.c reverse the bytes of every word of 64 bits, or of
\* 16, and what was converted to the order of the network is read back.
THEOREM Reverses == Order!Spec => [](Order!BytesReversed /\ Order!SwapsBack)
<1>1. Word => Order!BytesReversed
  BY Swap64Reverses, Swap16Reverses DEF Order!BytesReversed, Word
<1>2. Word => Order!SwapsBack
  <2> SUFFICES ASSUME word \in SUBSET Place PROVE Order!SwapsBack
    BY DEF Word
  <2>1. Order!Swap64(word) \in SUBSET Place
    BY SwappedBits
  <2>2. Order!Swap64(Order!Swap64(word)) = word
    BY <2>1, Swap64Reverses, ReversedTwice
  <2> QED BY <2>2, Swap16Reverses DEF Order!SwapsBack
<1> QED BY <1>1, <1>2, WordIsPlaces, PTL

-----------------------------------------------------------------------------
(* The bytes of out_data: numbers in base Radix.                           *)

LEMMA OutNumbers ==
  ASSUME Out!NumbersAssumption
  PROVE  /\ Radix \in Nat \ {0} /\ SMALL \in Nat /\ 3 <= SMALL
         /\ Out!SHORT = Radix * Radix /\ Out!SHORT \in Nat /\ SMALL < Out!SHORT
         /\ Out!WORD = Out!SHORT * Out!SHORT /\ Out!WORD \in Nat /\ 10 < Out!WORD \div 2
         /\ Out!LIMIT = Out!WORD - 16 /\ Out!LIMIT \in Nat
<1>1. Radix \in Nat /\ SMALL \in Nat /\ 3 <= SMALL /\ SMALL < Out!SHORT /\ 10 < Out!WORD \div 2
  BY DEF Out!NumbersAssumption
<1>2. Out!SHORT = Radix * Radix /\ Out!SHORT \in Nat
  BY <1>1 DEF Out!SHORT
<1>3. Radix # 0
  <2>1. Radix = 0 => Radix * Radix = 0
    OBVIOUS
  <2> QED BY <1>1, <1>2, <2>1
<1>4. Out!WORD = Out!SHORT * Out!SHORT /\ Out!WORD \in Nat
  BY <1>2 DEF Out!WORD
<1>5. Out!LIMIT = Out!WORD - 16 /\ Out!LIMIT \in Nat
  BY <1>1, <1>4 DEF Out!LIMIT
<1> QED BY <1>1, <1>2, <1>3, <1>4, <1>5

\* A digit and the number before it.
LEMMA LastDigit ==
  ASSUME NEW b \in Nat \ {0}, NEW n \in Nat
  PROVE  n \div b \in Nat /\ n % b \in 0..(b - 1) /\ b * (n \div b) + (n % b) = n
OBVIOUS

LEMMA FewerDigits ==
  ASSUME NEW b \in Nat \ {0}, NEW c \in Nat, NEW n \in Nat, n < b * c
  PROVE  n \div b < c
<1> DEFINE q == n \div b
           r == n % b
<1>1. q \in Nat /\ r \in 0..(b - 1) /\ b * q + r = n
  BY LastDigit
<1> HIDE DEF q, r
<1>2. SUFFICES ASSUME c <= q PROVE FALSE
  BY <1>1 DEF q
<1>3. b * c <= b * q
  BY <1>1, <1>2
<1>4. b * q \in Nat /\ b * c \in Nat
  BY <1>1
<1> QED BY <1>1, <1>3, <1>4

LEMMA NumberRead ==
  ASSUME Out!NumbersAssumption, NEW s \in Seq(Nat)
  PROVE  \E v \in [0..Len(s) -> Nat] :
           /\ v[0] = 0 /\ \A i \in 1..Len(s) : v[i] = Radix * v[i - 1] + s[i]
           /\ Out!Number(s) = v[Len(s)]
<1> DEFINE n == Len(s)
           F == [k \in 1..n |-> [x \in Nat |-> Radix * x + s[k]]]
<1>1. n \in Nat /\ Radix \in Nat /\ \A k \in 1..n : s[k] \in Nat
  BY OutNumbers, LenProperties, ElementOfSeq
<1>2. \A k \in 1..n : \A x \in Nat : F[k][x] = Radix * x + s[k] /\ F[k][x] \in Nat
  <2> TAKE k \in 1..n
  <2> TAKE x \in Nat
  <2>1. Radix * x \in Nat
    BY <1>1
  <2>2. Radix * x + s[k] \in Nat
    BY <1>1, <2>1
  <2> QED BY <2>2
<1> HIDE DEF F, n
<1>3. PICK f : Trace(f, n, Nat, 0, F)
  BY <1>1, <1>2, TraceExists
<1>4. /\ f \in [0..n -> Nat] /\ f[0] = 0
      /\ \A k \in 1..n : f[k] = Radix * f[k - 1] + s[k]
  <2>1. /\ f \in [0..n -> Nat] /\ f[0] = 0 /\ \A k \in 1..n : f[k] = F[k][f[k - 1]]
    BY <1>3 DEF Trace
  <2>2. \A k \in 1..n : f[k - 1] \in Nat
    BY <1>1, <2>1
  <2> QED BY <1>2, <2>1, <2>2
<1> DEFINE Eq(v) == v = [i \in 0..n |-> IF i = 0 THEN 0 ELSE Radix * v[i - 1] + s[i]]
<1>5. Eq(f)
  <2> DEFINE g == [i \in 0..n |-> IF i = 0 THEN 0 ELSE Radix * f[i - 1] + s[i]]
  <2>1. \A i \in 0..n : f[i] = g[i]
    BY <1>1, <1>4
  <2> QED BY <1>4, <2>1
<1> DEFINE w == CHOOSE v : Eq(v)
<1>6. Eq(w)
  <2> HIDE DEF Eq
  <2> QED BY <1>5
<1>7. Out!Number(s) = w[n]
  BY DEF Out!Number, n
<1> HIDE DEF w
<1>8. w[0] = 0 /\ \A i \in 1..n : w[i] = Radix * w[i - 1] + s[i]
  BY <1>1, <1>6
<1>9. \A k \in 0..n : w[k] \in Nat
  <2> DEFINE T == {k \in 0..n : w[k] \in Nat}
  <2>1. 0 \in T
    BY <1>1, <1>8
  <2>2. ASSUME NEW k \in 1..n, k - 1 \in T PROVE k \in T
    <3>1. Radix * w[k - 1] \in Nat
      BY <1>1, <2>2
    <3>2. w[k] = Radix * w[k - 1] + s[k] /\ s[k] \in Nat
      BY <1>1, <1>8
    <3>3. w[k] \in Nat
      BY <3>1, <3>2
    <3> QED BY <3>3
  <2>3. \A k \in 0..n : k \in T
    <3> HIDE DEF T
    <3> QED BY <1>1, <2>1, <2>2, InductionUpTo
  <2> QED BY <2>3
<1>10. w \in [0..n -> Nat]
  <2>1. w = [i \in 0..n |-> w[i]]
    BY <1>6
  <2> QED BY <1>9, <2>1
<1> QED BY <1>7, <1>8, <1>10 DEF n

\* The two and the four digits of a header: the number shifted, and shifted
\* again.
Shift(n) == n \div Radix
Two(a, b) == [i \in 1..2 |-> IF i = 1 THEN a ELSE b]
Four(a, b, c, d) == [i \in 1..4 |-> IF i = 1 THEN a ELSE IF i = 2 THEN b ELSE IF i = 3 THEN c ELSE d]

LEMMA TwoDigits ==
  ASSUME NEW n
  PROVE  Out!BigEndian(n, 2) = Two(Shift(n) % Radix, n % Radix)
<1> DEFINE Eq(f) == f = [i \in 0..2 |-> IF i = 0 THEN n ELSE f[i - 1] \div Radix]
           f0 == [i \in 0..2 |-> IF i = 0 THEN n ELSE IF i = 1 THEN Shift(n) ELSE Shift(Shift(n))]
           g == CHOOSE f : Eq(f)
<1>1. Eq(f0)
  BY DEF Shift
<1>2. Eq(g)
  <2> HIDE DEF Eq
  <2> QED BY <1>1
<1>3. Out!BigEndian(n, 2) = [i \in 1..2 |-> g[2 - i] % Radix]
  BY DEF Out!BigEndian
<1> HIDE DEF g
<1>4. g[0] = n /\ g[1] = Shift(n)
  BY <1>2 DEF Shift
<1> QED BY <1>3, <1>4 DEF Two

LEMMA FourDigits ==
  ASSUME NEW n
  PROVE  Out!BigEndian(n, 4) =
           Four(Shift(Shift(Shift(n))) % Radix, Shift(Shift(n)) % Radix, Shift(n) % Radix, n % Radix)
<1> DEFINE Eq(f) == f = [i \in 0..4 |-> IF i = 0 THEN n ELSE f[i - 1] \div Radix]
           f0 == [i \in 0..4 |-> IF i = 0 THEN n ELSE IF i = 1 THEN Shift(n)
                                 ELSE IF i = 2 THEN Shift(Shift(n))
                                 ELSE IF i = 3 THEN Shift(Shift(Shift(n)))
                                 ELSE Shift(Shift(Shift(Shift(n))))]
           g == CHOOSE f : Eq(f)
<1>1. Eq(f0)
  BY DEF Shift
<1>2. Eq(g)
  <2> HIDE DEF Eq
  <2> QED BY <1>1
<1>3. Out!BigEndian(n, 4) = [i \in 1..4 |-> g[4 - i] % Radix]
  BY DEF Out!BigEndian
<1> HIDE DEF g
<1>4. g[0] = n /\ g[1] = Shift(n) /\ g[2] = Shift(Shift(n)) /\ g[3] = Shift(Shift(Shift(n)))
  BY <1>2 DEF Shift
<1> QED BY <1>3, <1>4 DEF Four

LEMMA TwoInSequence ==
  ASSUME NEW a \in Nat, NEW b \in Nat
  PROVE  Two(a, b) \in Seq(Nat) /\ Len(Two(a, b)) = 2 /\ Two(a, b)[1] = a /\ Two(a, b)[2] = b
BY DEF Two

HoldsFour(s, a, b, c, d) ==
  s \in Seq(Nat) /\ Len(s) = 4 /\ s[1] = a /\ s[2] = b /\ s[3] = c /\ s[4] = d

LEMMA FourInSequence ==
  ASSUME NEW a \in Nat, NEW b \in Nat, NEW c \in Nat, NEW d \in Nat
  PROVE  HoldsFour(Four(a, b, c, d), a, b, c, d)
BY DEF Four, HoldsFour

LEMMA FourZeros ==
  ASSUME NEW t \in Seq(Nat), NEW s, s = <<0, 0, 0, 0>> \o t
  PROVE  /\ s \in Seq(Nat) /\ Len(s) = 4 + Len(t)
         /\ s[1] = 0 /\ s[2] = 0 /\ s[3] = 0 /\ s[4] = 0
         /\ \A i \in 1..Len(t) : s[4 + i] = t[i]
<1> DEFINE z == <<0, 0, 0, 0>>
<1>1. z \in Seq(Nat) /\ Len(z) = 4 /\ z[1] = 0 /\ z[2] = 0 /\ z[3] = 0 /\ z[4] = 0
  OBVIOUS
<1>2. Len(t) \in Nat
  BY LenProperties
<1> HIDE DEF z
<1>3. /\ z \o t \in Seq(Nat) /\ Len(z \o t) = 4 + Len(t)
      /\ \A i \in 1..(4 + Len(t)) : (z \o t)[i] = IF i <= 4 THEN z[i] ELSE t[i - 4]
  <2>1. /\ z \o t \in Seq(Nat) /\ Len(z \o t) = Len(z) + Len(t)
        /\ \A i \in 1..(Len(z) + Len(t)) : (z \o t)[i] = IF i <= Len(z) THEN z[i] ELSE t[i - Len(z)]
    BY <1>1, ConcatProperties, Zenon
  <2>2. Len(z) = 4
    BY <1>1
  <2> QED BY <2>1, <2>2, Zenon
<1>4. \A i \in 1..Len(t) : (z \o t)[4 + i] = t[i]
  <2> TAKE i \in 1..Len(t)
  <2>1. 4 + i \in 1..(4 + Len(t)) /\ ~ (4 + i <= 4) /\ (4 + i) - 4 = i
    BY <1>2
  <2> QED BY <1>3, <2>1
<1>5. (z \o t)[1] = 0 /\ (z \o t)[2] = 0 /\ (z \o t)[3] = 0 /\ (z \o t)[4] = 0
  BY <1>1, <1>2, <1>3
<1> QED BY <1>3, <1>4, <1>5 DEF z

\* What is read back.
LEMMA ReadTwo ==
  ASSUME Out!NumbersAssumption, NEW n \in Nat, n < Out!SHORT
  PROVE  /\ Out!BigEndian(n, 2) \in Seq(Nat) /\ Len(Out!BigEndian(n, 2)) = 2
         /\ Out!Number(Out!BigEndian(n, 2)) = n
<1> DEFINE s == Out!BigEndian(n, 2)
           n1 == Shift(n)
           n2 == Shift(n1)
<1>1. /\ Radix \in Nat \ {0} /\ Out!SHORT = Radix * Radix
  BY OutNumbers
<1>2. /\ n1 \in Nat /\ n % Radix \in Nat /\ Radix * n1 + (n % Radix) = n
      /\ n2 \in Nat /\ n1 % Radix \in Nat /\ Radix * n2 + (n1 % Radix) = n1
  <2>1. ASSUME NEW m \in Nat
        PROVE  Shift(m) \in Nat /\ m % Radix \in Nat /\ Radix * Shift(m) + (m % Radix) = m
    BY <1>1, LastDigit DEF Shift
  <2> QED BY <2>1, Zenon
<1>3. n2 = 0
  <2>1. n1 < Radix
    BY <1>1, FewerDigits DEF Shift
  <2>2. n1 < Radix * 1
    BY <1>1, <1>2, <2>1
  <2>3. n2 < 1
    <3> HIDE DEF n1
    <3> QED BY <1>1, <1>2, <2>2, FewerDigits DEF Shift
  <2> QED BY <1>2, <2>3
<1>4. s = Two(n1 % Radix, n % Radix)
  BY TwoDigits, Zenon
<1> HIDE DEF s, n1, n2
<1>5. s \in Seq(Nat) /\ Len(s) = 2 /\ s[1] = n1 % Radix /\ s[2] = n % Radix
  BY <1>2, <1>4, TwoInSequence, Zenon
<1>6. PICK v \in [0..Len(s) -> Nat] :
        /\ v[0] = 0 /\ \A i \in 1..Len(s) : v[i] = Radix * v[i - 1] + s[i]
        /\ Out!Number(s) = v[Len(s)]
  BY <1>5, NumberRead
<1>7. v[1] = n1
  <2>1. v[1] = Radix * v[0] + s[1]
    BY <1>5, <1>6
  <2> QED BY <1>1, <1>2, <1>3, <1>5, <1>6, <2>1
<1>8. v[2] = n
  <2>1. v[2] = Radix * v[1] + s[2]
    BY <1>5, <1>6
  <2> QED BY <1>2, <1>5, <1>7, <2>1
<1> QED BY <1>5, <1>6, <1>8 DEF s

LEMMA ReadFour ==
  ASSUME Out!NumbersAssumption, NEW n \in Nat, n < Out!WORD
  PROVE  /\ Out!BigEndian(n, 4) \in Seq(Nat)
         /\ <<0, 0, 0, 0>> \o Out!BigEndian(n, 4) \in Seq(Nat)
         /\ Len(<<0, 0, 0, 0>> \o Out!BigEndian(n, 4)) = 8
         /\ Out!Number(<<0, 0, 0, 0>> \o Out!BigEndian(n, 4)) = n
<1> DEFINE d == Out!BigEndian(n, 4)
           s == <<0, 0, 0, 0>> \o d
           n1 == Shift(n)
           n2 == Shift(n1)
           n3 == Shift(n2)
           n4 == Shift(n3)
<1>1. /\ Radix \in Nat \ {0} /\ Out!SHORT = Radix * Radix /\ Out!SHORT \in Nat
      /\ Out!WORD = Out!SHORT * Out!SHORT
  BY OutNumbers
<1>2. ASSUME NEW m \in Nat
      PROVE  Shift(m) \in Nat /\ m % Radix \in Nat /\ Radix * Shift(m) + (m % Radix) = m
  BY <1>1, LastDigit DEF Shift
<1>3. ASSUME NEW m \in Nat, NEW c \in Nat, m < Radix * c
      PROVE  Shift(m) < c
  BY <1>1, <1>3, FewerDigits DEF Shift
<1>4. d = Four(n3 % Radix, n2 % Radix, n1 % Radix, n % Radix)
  BY FourDigits, Zenon
<1>5. n1 \in Nat /\ n2 \in Nat /\ n3 \in Nat /\ n4 \in Nat
  BY <1>2, Zenon
<1>6. n4 = 0
  <2> DEFINE r2 == Radix * Radix
             r3 == Radix * r2
  <2>1. Out!WORD = Radix * r3 /\ r2 \in Nat /\ r3 \in Nat /\ r2 = Radix * Radix /\ Radix = Radix * 1
    BY <1>1
  <2> HIDE DEF r2, r3, n1, n2, n3, n4
  <2>2. n1 < r3
    BY <1>3, <2>1 DEF n1
  <2>3. n2 < r2
    BY <1>3, <1>5, <2>1, <2>2 DEF n2, r3
  <2>4. n3 < Radix
    BY <1>1, <1>3, <1>5, <2>1, <2>3 DEF n3
  <2>5. n4 < 1
    BY <1>1, <1>3, <1>5, <2>1, <2>4 DEF n4
  <2> QED BY <1>5, <2>5
<1>7. /\ n % Radix \in Nat /\ Radix * n1 + (n % Radix) = n
      /\ n1 % Radix \in Nat /\ Radix * n2 + (n1 % Radix) = n1
      /\ n2 % Radix \in Nat /\ Radix * n3 + (n2 % Radix) = n2
      /\ n3 % Radix \in Nat /\ Radix * n4 + (n3 % Radix) = n3
  BY <1>2, <1>5, Zenon
<1> HIDE DEF n1, n2, n3, n4, d
<1>8. /\ d \in Seq(Nat) /\ Len(d) = 4
      /\ d[1] = n3 % Radix /\ d[2] = n2 % Radix /\ d[3] = n1 % Radix /\ d[4] = n % Radix
  <2> DEFINE f == Four(n3 % Radix, n2 % Radix, n1 % Radix, n % Radix)
  <2>1. n % Radix \in Nat /\ n1 % Radix \in Nat /\ n2 % Radix \in Nat /\ n3 % Radix \in Nat
    BY <1>7
  <2>2. HoldsFour(f, n3 % Radix, n2 % Radix, n1 % Radix, n % Radix)
    BY ONLY <2>1, FourInSequence, Zenon
  <2>3. d = f
    BY <1>4
  <2> HIDE DEF f
  <2> QED BY <2>2, <2>3, Zenon DEF HoldsFour
<1>9. /\ s \in Seq(Nat) /\ Len(s) = 8
      /\ s[1] = 0 /\ s[2] = 0 /\ s[3] = 0 /\ s[4] = 0
      /\ s[5] = d[1] /\ s[6] = d[2] /\ s[7] = d[3] /\ s[8] = d[4]
  <2>1. /\ s \in Seq(Nat) /\ Len(s) = 4 + Len(d)
        /\ s[1] = 0 /\ s[2] = 0 /\ s[3] = 0 /\ s[4] = 0
        /\ \A i \in 1..Len(d) : s[4 + i] = d[i]
    BY <1>8, FourZeros, Zenon
  <2> HIDE DEF s
  <2> QED BY <1>8, <2>1
<1> HIDE DEF s
<1>10. PICK v \in [0..Len(s) -> Nat] :
        /\ v[0] = 0 /\ \A i \in 1..Len(s) : v[i] = Radix * v[i - 1] + s[i]
        /\ Out!Number(s) = v[Len(s)]
  BY <1>9, NumberRead
<1>11. /\ v[1] = Radix * v[0] + s[1] /\ v[2] = Radix * v[1] + s[2]
       /\ v[3] = Radix * v[2] + s[3] /\ v[4] = Radix * v[3] + s[4]
       /\ v[5] = Radix * v[4] + s[5] /\ v[6] = Radix * v[5] + s[6]
       /\ v[7] = Radix * v[6] + s[7] /\ v[8] = Radix * v[7] + s[8]
  BY <1>9, <1>10
<1>12. Radix * 0 + 0 = 0
  BY <1>1
<1>13. v[1] = 0 /\ v[2] = 0 /\ v[3] = 0 /\ v[4] = 0
  BY <1>9, <1>10, <1>11, <1>12, Zenon
<1>14. v[5] = n3 /\ v[6] = n2 /\ v[7] = n1 /\ v[8] = n
  <2>1. v[5] = n3
    <3>1. v[5] = Radix * 0 + (n3 % Radix) /\ Radix * 0 + (n3 % Radix) = n3
      BY ONLY <1>6, <1>7, <1>8, <1>9, <1>11, <1>13, Zenon
    <3> QED BY <3>1, Zenon
  <2>2. v[6] = n2
    BY ONLY <1>7, <1>8, <1>9, <1>11, <2>1, Zenon
  <2>3. v[7] = n1
    BY ONLY <1>7, <1>8, <1>9, <1>11, <2>2, Zenon
  <2>4. v[8] = n
    BY ONLY <1>7, <1>8, <1>9, <1>11, <2>3, Zenon
  <2> QED BY <2>1, <2>2, <2>3, <2>4, Zenon
<1> QED BY <1>8, <1>9, <1>10, <1>14 DEF s, d

-----------------------------------------------------------------------------
(* The bytes of one frame.                                                 *)

MadeFrame == [b0 : Nat, data : Seq(Nat)]
FrameBytes(m) == Out!Header(m.b0, Len(m.data)) \o m.data

\* What follows two bytes.
Rest(h) == SubSeq(h, 3, Len(h))
IsAfter(h, a, b, t) ==
  h \in Seq(Nat) /\ Len(h) = 2 + Len(t) /\ h[1] = a /\ h[2] = b /\ Rest(h) = t

\* What a header is: the first byte of the frame, and a second that tells
\* its length and how the length of the payload is found.
Tells(h, b0, len) ==
  /\ h \in Seq(Nat) /\ Len(h) = Out!LeastHeader(len) /\ Len(h) \in {2, 4, 10}
  /\ h[1] = b0
  /\ Len(h) = 2 => h[2] = len /\ len <= SMALL
  /\ Len(h) = 4 => h[2] = SMALL + 1
  /\ Len(h) = 10 => h[2] = SMALL + 2
  /\ Len(h) > 2 => Out!Number(Rest(h)) = len

LEMMA AfterTwo ==
  ASSUME NEW a \in Nat, NEW b \in Nat, NEW t \in Seq(Nat), NEW h, h = <<a, b>> \o t
  PROVE  IsAfter(h, a, b, t)
<1> DEFINE z == <<a, b>>
<1>1. z \in Seq(Nat) /\ Len(z) = 2 /\ z[1] = a /\ z[2] = b
  OBVIOUS
<1>2. Len(t) \in Nat /\ \A i \in 1..Len(t) : t[i] \in Nat
  BY LenProperties, ElementOfSeq
<1> HIDE DEF z
<1>3. /\ z \o t \in Seq(Nat) /\ Len(z \o t) = 2 + Len(t)
      /\ \A i \in 1..(2 + Len(t)) : (z \o t)[i] = IF i <= 2 THEN z[i] ELSE t[i - 2]
  <2>1. /\ z \o t \in Seq(Nat) /\ Len(z \o t) = Len(z) + Len(t)
        /\ \A i \in 1..(Len(z) + Len(t)) : (z \o t)[i] = IF i <= Len(z) THEN z[i] ELSE t[i - Len(z)]
    BY <1>1, ConcatProperties, Zenon
  <2>2. Len(z) = 2
    BY <1>1
  <2> QED BY <2>1, <2>2, Zenon
<1>4. h = z \o t
  BY DEF z
<1>5. h \in Seq(Nat) /\ Len(h) = 2 + Len(t) /\ h[1] = a /\ h[2] = b
  BY <1>1, <1>2, <1>3, <1>4
<1>6. \A i \in 1..Len(t) : h[i + 2] = t[i]
  <2> TAKE i \in 1..Len(t)
  <2>1. i + 2 \in 1..(2 + Len(t)) /\ ~ (i + 2 <= 2) /\ (i + 2) - 2 = i
    BY <1>2
  <2> QED BY <1>3, <1>4, <2>1
<1> DEFINE u == SubSeq(h, 3, Len(h))
<1>7. /\ u \in Seq(Nat) /\ Len(u) = Len(t) /\ \A i \in 1..Len(t) : u[i] = h[i + 2]
  <2>1. 3 \in Int /\ Len(h) \in Int /\ \A i \in 3..Len(h) : h[i] \in Nat
    BY <1>2, <1>5, ElementOfSeq
  <2>2. /\ u \in Seq(Nat) /\ Len(u) = IF 3 <= Len(h) THEN Len(h) - 3 + 1 ELSE 0
        /\ \A i \in 1..(Len(h) - 3 + 1) : u[i] = h[3 + i - 1]
    BY <2>1, SubSeqProperties
  <2> HIDE DEF u
  <2>3. Len(u) = Len(t)
    BY <1>2, <1>5, <2>2
  <2>4. \A i \in 1..Len(t) : i \in 1..(Len(h) - 3 + 1) /\ 3 + i - 1 = i + 2
    BY <1>2, <1>5
  <2> QED BY <2>2, <2>3, <2>4
<1>8. u = t
  <2> HIDE DEF u
  <2>1. \A i \in 1..Len(u) : u[i] = t[i]
    BY <1>6, <1>7
  <2> QED BY <1>7, <2>1, SeqEqual
<1> QED BY <1>5, <1>8 DEF u, IsAfter, Rest

LEMMA SixBytes ==
  ASSUME NEW a \in Nat, NEW b \in Nat
  PROVE  <<a, b>> \o <<0, 0, 0, 0>> = <<a, b, 0, 0, 0, 0>>
<1> DEFINE x == <<a, b>>
           z == <<0, 0, 0, 0>>
           s == <<a, b, 0, 0, 0, 0>>
<1>1. x \in Seq(Nat) /\ Len(x) = 2 /\ x[1] = a /\ x[2] = b
  OBVIOUS
<1>2. z \in Seq(Nat) /\ Len(z) = 4 /\ z[1] = 0 /\ z[2] = 0 /\ z[3] = 0 /\ z[4] = 0
  OBVIOUS
<1>3. s \in Seq(Nat) /\ Len(s) = 6 /\ s[1] = a /\ s[2] = b /\ s[3] = 0 /\ s[4] = 0 /\ s[5] = 0 /\ s[6] = 0
  OBVIOUS
<1> HIDE DEF x, z, s
<1>4. /\ x \o z \in Seq(Nat) /\ Len(x \o z) = 6
      /\ \A i \in 1..6 : (x \o z)[i] = IF i <= 2 THEN x[i] ELSE z[i - 2]
  <2>1. /\ x \o z \in Seq(Nat) /\ Len(x \o z) = Len(x) + Len(z)
        /\ \A i \in 1..(Len(x) + Len(z)) : (x \o z)[i] = IF i <= Len(x) THEN x[i] ELSE z[i - Len(x)]
    BY <1>1, <1>2, ConcatProperties, Zenon
  <2>2. Len(x) = 2 /\ Len(z) = 4 /\ 2 + 4 = 6
    BY <1>1, <1>2
  <2> QED BY <2>1, <2>2, Zenon
<1>5. \A i \in 1..6 : (x \o z)[i] = s[i]
  <2> TAKE i \in 1..6
  <2>1. i = 1 \/ i = 2 \/ i = 3 \/ i = 4 \/ i = 5 \/ i = 6
    OBVIOUS
  <2>2. (x \o z)[i] = IF i <= 2 THEN x[i] ELSE z[i - 2]
    BY <1>4
  <2> QED BY <1>1, <1>2, <1>3, <2>1, <2>2
<1>6. x \o z = s
  <2>1. Len(x \o z) = Len(s) /\ \A i \in 1..Len(x \o z) : (x \o z)[i] = s[i]
    BY <1>3, <1>4, <1>5, Zenon
  <2> QED BY <1>3, <1>4, <2>1, SeqEqual, Zenon
<1> QED BY <1>6 DEF x, z, s

LEMMA HeaderTells ==
  ASSUME Out!NumbersAssumption, NEW b0 \in Nat, NEW len \in Nat, len <= Out!LIMIT
  PROVE  Tells(Out!Header(b0, len), b0, len)
<1>1. /\ SMALL \in Nat /\ Out!SHORT \in Nat /\ SMALL < Out!SHORT /\ Out!WORD \in Nat
      /\ Out!LIMIT = Out!WORD - 16 /\ len < Out!WORD
  BY OutNumbers
<1> DEFINE h == Out!Header(b0, len)
<1>2. CASE len <= SMALL
  <2>1. h = <<b0, len>> /\ Out!LeastHeader(len) = 2
    BY <1>2 DEF Out!Header, Out!LeastHeader
  <2> HIDE DEF h
  <2>2. h \in Seq(Nat) /\ Len(h) = 2 /\ h[1] = b0 /\ h[2] = len
    BY <2>1
  <2>3. Tells(h, b0, len)
    BY <1>2, <2>1, <2>2 DEF Tells
  <2> QED BY <2>3 DEF h
<1>3. CASE len > SMALL /\ len < Out!SHORT
  <2> DEFINE t == Out!BigEndian(len, 2)
  <2>1. h = <<b0, SMALL + 1>> \o t /\ Out!LeastHeader(len) = 4
    BY <1>1, <1>3 DEF Out!Header, Out!LeastHeader
  <2>2. t \in Seq(Nat) /\ Len(t) = 2 /\ Out!Number(t) = len
    BY <1>3, ReadTwo
  <2> HIDE DEF h, t
  <2>3. SMALL + 1 \in Nat
    BY <1>1
  <2>4. IsAfter(h, b0, SMALL + 1, t)
    BY <2>1, <2>2, <2>3, AfterTwo, Zenon
  <2>5. Tells(h, b0, len)
    BY <2>1, <2>2, <2>4 DEF Tells, IsAfter
  <2> QED BY <2>5 DEF h
<1>4. CASE len > SMALL /\ len >= Out!SHORT
  <2> DEFINE t == <<0, 0, 0, 0>> \o Out!BigEndian(len, 4)
  <2>1. Out!LeastHeader(len) = 10
    BY <1>1, <1>4 DEF Out!LeastHeader
  <2>2. t \in Seq(Nat) /\ Len(t) = 8 /\ Out!Number(t) = len
    BY <1>1, ReadFour
  <2>3. h = <<b0, SMALL + 2>> \o t
    <3>1. h = <<b0, SMALL + 2, 0, 0, 0, 0>> \o Out!BigEndian(len, 4)
      BY <1>1, <1>4 DEF Out!Header
    <3> DEFINE d == Out!BigEndian(len, 4)
    <3>2. d \in Seq(Nat) /\ SMALL + 2 \in Nat
      BY <1>1, ReadFour
    <3> HIDE DEF d
    <3> DEFINE x == <<b0, SMALL + 2>>
               z == <<0, 0, 0, 0>>
    <3>3. x \o (z \o d) = (x \o z) \o d
      <4>1. x \in Seq(Nat) /\ z \in Seq(Nat)
        BY <3>2
      <4> HIDE DEF x, z
      <4>2. JoinsThree(x, z, d)
        BY <3>2, <4>1, ThreeParts, Zenon
      <4> QED BY <4>2, Zenon DEF JoinsThree
    <3>4. <<b0, SMALL + 2>> \o <<0, 0, 0, 0>> = <<b0, SMALL + 2, 0, 0, 0, 0>>
      BY <3>2, SixBytes, Zenon
    <3> HIDE DEF h
    <3>5. h = (x \o z) \o d
      BY <3>1, <3>4, Zenon DEF d, x, z
    <3>6. t = z \o d
      BY DEF d, z, t
    <3> HIDE DEF t, z
    <3> QED BY <3>3, <3>5, <3>6, Zenon DEF x
  <2> HIDE DEF h, t
  <2>4. SMALL + 2 \in Nat
    BY <1>1
  <2>5. IsAfter(h, b0, SMALL + 2, t)
    BY <2>2, <2>3, <2>4, AfterTwo, Zenon
  <2>6. Tells(h, b0, len)
    BY <2>1, <2>2, <2>5 DEF Tells, IsAfter
  <2> QED BY <2>6 DEF h
<1> QED BY <1>1, <1>2, <1>3, <1>4

\* A part of a sequence, by its elements.
LEMMA Window ==
  ASSUME NEW S, NEW s \in Seq(S), NEW t \in Seq(S), NEW a \in Nat, 1 <= a,
         NEW b, b = a + Len(t) - 1, b <= Len(s),
         \A i \in 1..Len(t) : s[a + i - 1] = t[i]
  PROVE  SubSeq(s, a, b) = t
<1> DEFINE u == SubSeq(s, a, b)
<1>1. Len(t) \in Nat /\ Len(s) \in Nat /\ b \in Int
  BY LenProperties
<1>2. \A i \in a..b : s[i] \in S
  <2> TAKE i \in a..b
  <2>1. i \in 1..Len(s)
    BY <1>1
  <2> QED BY <2>1, ElementOfSeq
<1>3. /\ u \in Seq(S) /\ Len(u) = IF a <= b THEN b - a + 1 ELSE 0
      /\ \A i \in 1..(b - a + 1) : u[i] = s[a + i - 1]
  BY <1>1, <1>2, SubSeqProperties
<1> HIDE DEF u
<1>4. Len(u) = Len(t)
  BY <1>1, <1>3
<1>5. \A i \in 1..Len(u) : u[i] = t[i]
  <2> TAKE i \in 1..Len(u)
  <2>1. i \in 1..(b - a + 1) /\ i \in 1..Len(t)
    BY <1>1, <1>4
  <2> QED BY <1>3, <2>1, Zenon
<1>6. u = t
  BY <1>3, <1>4, <1>5, SeqEqual, Zenon
<1> QED BY <1>6 DEF u

\* The bytes of a frame are its header's and its payload's.
Joined(t, h, d) ==
  /\ t \in Seq(Nat) /\ Len(t) = Len(h) + Len(d)
  /\ \A i \in 1..Len(h) : t[i] = h[i]
  /\ \A i \in 1..Len(d) : t[Len(h) + i] = d[i]

LEMMA JoinedBytes ==
  ASSUME NEW h \in Seq(Nat), NEW d \in Seq(Nat)
  PROVE  Joined(h \o d, h, d)
<1>1. /\ h \o d \in Seq(Nat) /\ Len(h \o d) = Len(h) + Len(d)
      /\ \A i \in 1..(Len(h) + Len(d)) : (h \o d)[i] = IF i <= Len(h) THEN h[i] ELSE d[i - Len(h)]
  BY ConcatProperties, Zenon
<1>2. Len(h) \in Nat /\ Len(d) \in Nat
  BY LenProperties
<1> DEFINE t == h \o d
<1> HIDE DEF t
<1>3. \A i \in 1..Len(h) : t[i] = h[i]
  BY <1>1, <1>2 DEF t
<1>4. \A i \in 1..Len(d) : t[Len(h) + i] = d[i]
  <2> TAKE i \in 1..Len(d)
  <2>1. Len(h) + i \in 1..(Len(h) + Len(d)) /\ ~ (Len(h) + i <= Len(h)) /\ (Len(h) + i) - Len(h) = i
    BY <1>2
  <2> QED BY <1>1, <2>1 DEF t
<1> QED BY <1>1, <1>3, <1>4 DEF t, Joined

Sound(m) == m \in MadeFrame /\ Len(m.data) <= Out!LIMIT

LEMMA FrameJoined ==
  ASSUME Out!NumbersAssumption, NEW m, Sound(m)
  PROVE  \E h \in Seq(Nat) : /\ Tells(h, m.b0, Len(m.data))
                             /\ Joined(FrameBytes(m), h, m.data)
<1>1. m.b0 \in Nat /\ m.data \in Seq(Nat) /\ Len(m.data) \in Nat /\ Len(m.data) <= Out!LIMIT
  BY LenProperties DEF Sound, MadeFrame
<1> DEFINE h == Out!Header(m.b0, Len(m.data))
<1>2. Tells(h, m.b0, Len(m.data))
  BY <1>1, HeaderTells
<1>3. h \in Seq(Nat)
  BY <1>2 DEF Tells
<1>4. Joined(FrameBytes(m), h, m.data)
  <2> HIDE DEF h
  <2>1. Joined(h \o m.data, h, m.data)
    BY <1>1, <1>3, JoinedBytes
  <2> QED BY <2>1 DEF h, FrameBytes
<1> QED BY <1>2, <1>3, <1>4

\* The bytes of m are those of s from p up to q.
Lies(s, p, q, m) ==
  /\ p \in Nat /\ 1 <= p /\ Len(FrameBytes(m)) \in Nat
  /\ q = p + Len(FrameBytes(m)) /\ q <= Len(s) + 1
  /\ \A i \in 1..Len(FrameBytes(m)) : s[p + i - 1] = FrameBytes(m)[i]

\* The frame read where m lies is m.
LEMMA ReadsFrame ==
  ASSUME Out!NumbersAssumption, NEW s \in Seq(Nat), NEW p, NEW q, NEW m, Sound(m), Lies(s, p, q, m)
  PROVE  Out!IsFrameAt(s, p) /\ Out!EndAt(s, p) = q /\ Out!FrameAt(s, p) = m
<1>1. PICK h \in Seq(Nat) : Tells(h, m.b0, Len(m.data)) /\ Joined(FrameBytes(m), h, m.data)
  BY FrameJoined
<1> DEFINE t == FrameBytes(m)
           d == m.data
           n == Len(h)
           l == Len(d)
<1>2. p \in Nat /\ 1 <= p /\ q = p + Len(t) /\ q <= Len(s) + 1
  BY DEF Lies
<1>3. \A i \in 1..Len(t) : s[p + i - 1] = t[i]
  BY DEF Lies
<1>4. Len(t) = n + l
  BY <1>1 DEF Joined
<1>5. /\ \A i \in 1..n : t[i] = h[i]
      /\ \A i \in 1..l : t[n + i] = d[i]
  BY <1>1 DEF Joined
<1>6. n = Out!LeastHeader(l) /\ h[1] = m.b0 /\ (n > 2 => Out!Number(Rest(h)) = l)
  BY <1>1 DEF Tells
<1>7. /\ n \in {2, 4, 10}
      /\ n = 2 => h[2] = l /\ l <= SMALL
      /\ n = 4 => h[2] = SMALL + 1
      /\ n = 10 => h[2] = SMALL + 2
  BY <1>1 DEF Tells
<1>8. d \in Seq(Nat) /\ m = [b0 |-> m.b0, data |-> d]
  BY DEF Sound, MadeFrame
<1>9. l \in Nat /\ SMALL \in Nat /\ Len(s) \in Nat /\ n \in Nat
  BY <1>8, OutNumbers, LenProperties
<1> HIDE DEF t, d, n, l
<1>10. \A i \in 1..n : s[p + i - 1] = h[i]
  <2> TAKE i \in 1..n
  <2>1. i \in 1..Len(t)
    BY <1>4, <1>5, <1>9
  <2> QED BY <1>2, <1>3, <1>4, <1>5, <2>1
<1>11. \A i \in 1..l : s[(p + n) + i - 1] = d[i]
  <2> TAKE i \in 1..l
  <2>1. n + i \in 1..Len(t) /\ p + (n + i) - 1 = (p + n) + i - 1
    BY <1>2, <1>4, <1>9
  <2> QED BY <1>2, <1>3, <1>4, <1>5, <2>1
<1>12. s[p] = m.b0 /\ s[p + 1] = h[2]
  <2>1. 1 \in 1..n /\ 2 \in 1..n /\ p + 1 - 1 = p /\ p + 2 - 1 = p + 1
    BY <1>2, <1>3, <1>7
  <2>2. s[p + 1 - 1] = h[1] /\ s[p + 2 - 1] = h[2]
    BY <1>10, <2>1
  <2> QED BY <1>7, <1>6, <2>1, <2>2
<1>13. Out!HeaderAt(s, p) = n
  BY <1>7, <1>9, <1>12 DEF Out!HeaderAt
<1>14. Out!LengthAt(s, p) = l
  <2>1. CASE n = 2
    BY <1>7, <1>6, <1>12, <2>1 DEF Out!LengthAt
  <2>2. CASE n # 2
    <3>1. s[p + 1] \in {SMALL + 1, SMALL + 2} /\ ~ (s[p + 1] <= SMALL) /\ n > 2
      BY <1>7, <1>9, <1>12, <2>2
    <3> DEFINE r == Rest(h)
    <3>2. r \in Seq(Nat) /\ Len(r) = n - 2 /\ \A i \in 1..(n - 2) : r[i] = h[i + 2]
      <4>1. 3 \in Int /\ n \in Int /\ \A i \in 3..n : h[i] \in Nat
        BY <1>9, ElementOfSeq DEF n
      <4>2. /\ r \in Seq(Nat) /\ Len(r) = IF 3 <= n THEN n - 3 + 1 ELSE 0
            /\ \A i \in 1..(n - 3 + 1) : r[i] = h[3 + i - 1]
        BY <4>1, SubSeqProperties DEF Rest, n
      <4> HIDE DEF r
      <4>3. n - 3 + 1 = n - 2 /\ (3 <= n) /\ \A i \in 1..(n - 2) : 3 + i - 1 = i + 2
        BY <1>9, <3>1
      <4> QED BY <4>2, <4>3
    <3> HIDE DEF r
    <3>3. Len(r) = n - 2
      BY <3>2
    <3>4. \A i \in 1..Len(r) : s[(p + 2) + i - 1] = r[i]
      <4> TAKE i \in 1..Len(r)
      <4>1. i \in 1..(n - 2) /\ i + 2 \in 1..n /\ (p + 2) + i - 1 = p + (i + 2) - 1
        BY <1>2, <1>9, <3>3
      <4> QED BY <1>10, <3>2, <4>1
    <3>5. p + 2 \in Nat /\ 1 <= p + 2 /\ p + n - 1 = (p + 2) + Len(r) - 1 /\ p + n - 1 <= Len(s)
      BY <1>2, <1>4, <1>9, <3>1, <3>3
    <3>6. SubSeq(s, p + 2, p + n - 1) = r
      BY <3>2, <3>4, <3>5, Window
    <3>7. Out!LengthAt(s, p) = Out!Number(SubSeq(s, p + 2, p + n - 1))
      BY <1>13, <3>1, Zenon DEF Out!LengthAt
    <3> QED BY <1>7, <1>6, <3>1, <3>6, <3>7, Zenon DEF r
  <2> QED BY <2>1, <2>2
<1>15. Out!EndAt(s, p) = q
  <2>1. Out!EndAt(s, p) = p + n + l
    BY <1>13, <1>14, Zenon DEF Out!EndAt
  <2> QED BY <1>2, <1>4, <1>9, <2>1
<1>16. Out!IsFrameAt(s, p)
  <2>1. p < Len(s) /\ p + n <= Len(s) + 1
    BY <1>2, <1>4, <1>7, <1>9
  <2> QED BY <1>2, <1>6, <1>13, <1>14, <1>15, <2>1, Zenon DEF Out!IsFrameAt
<1>17. SubSeq(s, p + n, q - 1) = d
  <2>1. p + n \in Nat /\ 1 <= p + n /\ q - 1 = (p + n) + Len(d) - 1 /\ q - 1 <= Len(s)
    BY <1>2, <1>4, <1>9 DEF l
  <2>2. \A i \in 1..Len(d) : s[(p + n) + i - 1] = d[i]
    BY <1>11 DEF l
  <2> QED BY <1>8, <2>1, <2>2, Window
<1>18. Out!FrameAt(s, p) = m
  <2>1. Out!FrameAt(s, p) = [b0 |-> s[p], data |-> SubSeq(s, p + n, q - 1)]
    BY <1>13, <1>15, Zenon DEF Out!FrameAt
  <2> QED BY <1>8, <1>12, <1>17, <2>1, Zenon
<1> QED BY <1>15, <1>16, <1>18

-----------------------------------------------------------------------------
(* The frames of a sequence of bytes.                                      *)

\* What a walk finds from p on when f says what it finds further on: nothing
\* behind n, e alone at a place of stop, and at others one[p] and what
\* follows from next[p] on.
Walk(f, p, n, stop, e, one, next) ==
  IF p > n THEN <<>> ELSE IF p \in stop THEN <<e>> ELSE <<one[p]>> \o f[next[p]]

HasWalk(n, stop, e, one, next) ==
  \E f : f = [p \in 1..(n + 1) |-> Walk(f, p, n, stop, e, one, next)]

\* A walk that always goes on ends.
LEMMA WalkExists ==
  ASSUME NEW n \in Nat, NEW stop, NEW e, NEW one, NEW next,
         \A p \in 1..n : p \notin stop => next[p] \in (p + 1)..(n + 1)
  PROVE  HasWalk(n, stop, e, one, next)
<1> DEFINE From(k) == (n + 1 - k)..(n + 1)
           Walks(f, k) == f = [p \in From(k) |-> Walk(f, p, n, stop, e, one, next)]
           S == {k \in 0..n : \E f : Walks(f, k)}
<1>1. 0 \in S
  <2> DEFINE f == [p \in From(0) |-> <<>>]
  <2>1. \A p \in From(0) : Walk(f, p, n, stop, e, one, next) = <<>>
    BY DEF Walk
  <2>2. Walks(f, 0)
    BY <2>1
  <2>3. 0 \in 0..n
    OBVIOUS
  <2> HIDE DEF Walks, f
  <2> QED BY <2>2, <2>3
<1>2. ASSUME NEW k \in 1..n, k - 1 \in S PROVE k \in S
  <2>1. PICK f : Walks(f, k - 1)
    BY <1>2
  <2> DEFINE a == n + 1 - k
             g == [p \in From(k) |-> IF p = a THEN Walk(f, a, n, stop, e, one, next) ELSE f[p]]
  <2>2. /\ a \in 1..n /\ a \in From(k) /\ a \notin From(k - 1)
        /\ \A p \in From(k) : p # a => p \in From(k - 1)
        /\ \A p \in From(k - 1) : p \in From(k)
    OBVIOUS
  <2>3. \A p \in From(k - 1) : g[p] = f[p]
    <3> HIDE DEF From, a
    <3> QED BY <2>2
  <2>4. \A p \in From(k) : p <= n /\ p \notin stop => next[p] \in From(k - 1)
    <3> TAKE p \in From(k)
    <3> SUFFICES ASSUME p <= n, p \notin stop PROVE next[p] \in From(k - 1)
      OBVIOUS
    <3>1. p \in 1..n /\ next[p] \in (p + 1)..(n + 1)
      OBVIOUS
    <3> QED BY <3>1
  <2>5. \A p \in From(k) : Walk(g, p, n, stop, e, one, next) = Walk(f, p, n, stop, e, one, next)
    <3> TAKE p \in From(k)
    <3>1. CASE p <= n /\ p \notin stop
      <4>1. g[next[p]] = f[next[p]]
        <5> HIDE DEF g, From
        <5> QED BY <2>3, <2>4, <3>1
      <4> HIDE DEF g
      <4> QED BY <4>1, Zenon DEF Walk
    <3>2. CASE p > n \/ p \in stop
      BY <3>2, Zenon DEF Walk
    <3>3. p > n \/ p <= n
      OBVIOUS
    <3> QED BY <3>1, <3>2, <3>3
  <2>6. \A p \in From(k) : g[p] = Walk(g, p, n, stop, e, one, next)
    <3> TAKE p \in From(k)
    <3>1. CASE p = a
      BY <2>5, <3>1, Zenon
    <3>2. CASE p # a
      <4>1. p \in From(k - 1)
        BY <2>2, <3>2, Zenon
      <4>2. f[p] = Walk(f, p, n, stop, e, one, next)
        BY <2>1, <4>1, Zenon
      <4> HIDE DEF From, a
      <4> QED BY <2>3, <2>5, <4>1, <4>2, Zenon
    <3> QED BY <3>1, <3>2
  <2>7. Walks(g, k)
    <3> DEFINE h == [p \in From(k) |-> Walk(g, p, n, stop, e, one, next)]
    <3>1. \A p \in From(k) : g[p] = h[p]
      BY <2>6, Zenon
    <3> HIDE DEF From, a
    <3> QED BY <3>1, Zenon
  <2> HIDE DEF g, Walks
  <2> QED BY <2>7
<1>3. n \in S
  <2>1. \A k \in 0..n : k \in S
    <3> HIDE DEF S
    <3> QED BY <1>1, <1>2, InductionUpTo
  <2> QED BY <2>1
<1>4. From(n) = 1..(n + 1)
  OBVIOUS
<1>5. PICK f : Walks(f, n)
  BY <1>3
<1>6. f = [p \in 1..(n + 1) |-> Walk(f, p, n, stop, e, one, next)]
  <2> HIDE DEF From
  <2> QED BY <1>4, <1>5, Zenon
<1> QED BY <1>6, Zenon DEF HasWalk

\* FramesOf is what a walk finds from the first byte on.
Finds(f, s) ==
  /\ f[Len(s) + 1] = <<>>
  /\ \A p \in 1..Len(s) : Out!IsFrameAt(s, p) => f[p] = <<Out!FrameAt(s, p)>> \o f[Out!EndAt(s, p)]

LEMMA LengthRead ==
  ASSUME Out!NumbersAssumption, NEW s \in Seq(Nat), NEW p \in 1..Len(s), Out!IsFrameAt(s, p)
  PROVE  Out!EndAt(s, p) \in (p + 1)..(Len(s) + 1)
<1> DEFINE n == Len(s)
           a == Out!HeaderAt(s, p)
           l == Out!LengthAt(s, p)
<1>1. n \in Nat /\ p \in Nat /\ p < n /\ p + a <= n + 1 /\ Out!EndAt(s, p) <= n + 1
  BY LenProperties DEF Out!IsFrameAt
<1>2. a \in {2, 4, 10}
  BY DEF Out!HeaderAt
<1>3. Out!EndAt(s, p) = p + a + l
  BY DEF Out!EndAt
<1>4. l \in Nat
  <2>1. p + 1 \in 1..n
    BY <1>1
  <2>2. s[p + 1] \in Nat
    BY <2>1, ElementOfSeq
  <2> DEFINE t == SubSeq(s, p + 2, p + a - 1)
  <2>3. t \in Seq(Nat)
    <3>1. \A i \in (p + 2)..(p + a - 1) : i \in 1..n
      BY <1>1, <1>2
    <3>2. \A i \in (p + 2)..(p + a - 1) : s[i] \in Nat
      BY <3>1, ElementOfSeq
    <3>3. p + 2 \in Int /\ p + a - 1 \in Int
      BY <1>1, <1>2
    <3> QED BY <3>2, <3>3, SubSeqProperties
  <2>4. Out!Number(t) \in Nat
    <3> HIDE DEF t
    <3>1. PICK v \in [0..Len(t) -> Nat] : Out!Number(t) = v[Len(t)]
      BY <2>3, NumberRead
    <3>2. Len(t) \in 0..Len(t)
      BY <2>3, LenProperties
    <3> QED BY <3>1, <3>2
  <2>5. l = s[p + 1] \/ l = Out!Number(t)
    BY Zenon DEF Out!LengthAt
  <2> QED BY <2>2, <2>4, <2>5
<1> HIDE DEF n, a, l
<1>5. p + a + l \in (p + 1)..(n + 1)
  BY <1>1, <1>2, <1>3, <1>4
<1> QED BY <1>3, <1>5 DEF n

LEMMA FramesFound ==
  ASSUME Out!NumbersAssumption, NEW s \in Seq(Nat)
  PROVE  \E f : Out!FramesOf(s) = f[1] /\ Finds(f, s)
<1> DEFINE n == Len(s)
           stop == {p \in 1..n : ~ Out!IsFrameAt(s, p)}
           one == [p \in 1..n |-> Out!FrameAt(s, p)]
           next == [p \in 1..n |-> Out!EndAt(s, p)]
           e == Out!Malformed
           Eq(f) == f = [p \in 1..(n + 1) |->
                           IF p > n THEN <<>>
                           ELSE IF ~ Out!IsFrameAt(s, p) THEN <<Out!Malformed>>
                           ELSE <<Out!FrameAt(s, p)>> \o f[Out!EndAt(s, p)]]
           g == CHOOSE f : Eq(f)
<1>1. n \in Nat
  BY LenProperties
<1>2. \A p \in 1..n : p \notin stop => next[p] \in (p + 1)..(n + 1)
  BY LengthRead
<1>3. HasWalk(n, stop, e, one, next)
  <2> HIDE DEF n, stop, e, one, next
  <2> QED BY <1>1, <1>2, WalkExists, Zenon
<1>4. PICK f0 : f0 = [p \in 1..(n + 1) |-> Walk(f0, p, n, stop, e, one, next)]
  BY <1>3, Zenon DEF HasWalk
<1>5. \A p \in 1..(n + 1) : Walk(f0, p, n, stop, e, one, next) =
         IF p > n THEN <<>>
         ELSE IF ~ Out!IsFrameAt(s, p) THEN <<Out!Malformed>>
         ELSE <<Out!FrameAt(s, p)>> \o f0[Out!EndAt(s, p)]
  <2> TAKE p \in 1..(n + 1)
  <2>1. CASE p > n
    BY <2>1, Zenon DEF Walk
  <2>2. CASE ~ (p > n)
    <3>1. p \in 1..n
      BY <1>1, <2>2
    <3> HIDE DEF n
    <3> QED BY <2>2, <3>1, Zenon DEF Walk
  <2> QED BY <2>1, <2>2
<1>6. Eq(f0)
  <2> HIDE DEF n
  <2> QED BY <1>4, <1>5, Zenon
<1>7. Eq(g)
  <2> HIDE DEF Eq
  <2> QED BY <1>6
<1>8. Out!FramesOf(s) = g[1]
  BY Zenon DEF Out!FramesOf
<1> HIDE DEF g
<1>9. \A p \in 1..(n + 1) : g[p] = IF p > n THEN <<>>
                                ELSE IF ~ Out!IsFrameAt(s, p) THEN <<Out!Malformed>>
                                ELSE <<Out!FrameAt(s, p)>> \o g[Out!EndAt(s, p)]
  <2> HIDE DEF n
  <2> QED BY <1>7, Zenon
<1>10. g[n + 1] = <<>>
  <2>1. n + 1 \in 1..(n + 1) /\ n + 1 > n
    BY <1>1
  <2> HIDE DEF n
  <2> QED BY <1>9, <2>1, Zenon
<1>11. ASSUME NEW p \in 1..n, Out!IsFrameAt(s, p)
       PROVE  g[p] = <<Out!FrameAt(s, p)>> \o g[Out!EndAt(s, p)]
  <2>1. p \in 1..(n + 1) /\ ~ (p > n)
    BY <1>1
  <2> HIDE DEF n
  <2> QED BY <1>9, <1>11, <2>1, Zenon
<1> QED BY <1>8, <1>10, <1>11, Zenon DEF Finds

-----------------------------------------------------------------------------
(* The frames lie one behind the other.                                    *)

\* pos[k] is where the frames after the k-th begin.
Layout(pos, s, frames) ==
  /\ pos \in [0..Len(frames) -> Nat] /\ pos[0] = 1 /\ pos[Len(frames)] = Len(s) + 1
  /\ \A k \in 1..Len(frames) : Lies(s, pos[k - 1], pos[k], frames[k])

AllSound(frames) == \A k \in 1..Len(frames) : Sound(frames[k])

LEMMA TailFrom ==
  ASSUME NEW S, NEW s \in Seq(S), NEW j \in 1..Len(s)
  PROVE  <<s[j]>> \o SubSeq(s, j + 1, Len(s)) = SubSeq(s, j, Len(s))
<1> DEFINE n == Len(s)
           r == SubSeq(s, j + 1, n)
           x == <<s[j]>>
           t == x \o r
<1>1. n \in Nat /\ j \in Nat /\ 1 <= j /\ j <= n /\ s[j] \in S
  BY LenProperties, ElementOfSeq
<1>2. x \in Seq(S) /\ Len(x) = 1 /\ x[1] = s[j]
  BY <1>1
<1>3. r \in Seq(S) /\ Len(r) = n - j /\ \A i \in 1..(n - j) : r[i] = s[j + i]
  <2>1. j + 1 \in Int /\ n \in Int
    BY <1>1
  <2>2. \A i \in (j + 1)..n : s[i] \in S
    <3> TAKE i \in (j + 1)..n
    <3>1. i \in 1..Len(s)
      BY <1>1
    <3> QED BY <3>1, ElementOfSeq
  <2>3. /\ r \in Seq(S) /\ Len(r) = IF j + 1 <= n THEN n - (j + 1) + 1 ELSE 0
        /\ \A i \in 1..(n - (j + 1) + 1) : r[i] = s[(j + 1) + i - 1]
    BY <2>1, <2>2, SubSeqProperties
  <2> HIDE DEF r, n
  <2>4. n - (j + 1) + 1 = n - j /\ \A i \in 1..(n - j) : (j + 1) + i - 1 = j + i
    BY <1>1
  <2>5. Len(r) = n - j
    BY <1>1, <2>3
  <2> QED BY <2>3, <2>4, <2>5
<1> HIDE DEF x, r
<1>4. /\ t \in Seq(S) /\ Len(t) = 1 + (n - j)
      /\ \A i \in 1..(1 + (n - j)) : t[i] = IF i <= 1 THEN x[i] ELSE r[i - 1]
  <2>1. /\ t \in Seq(S) /\ Len(t) = Len(x) + Len(r)
        /\ \A i \in 1..(Len(x) + Len(r)) : t[i] = IF i <= Len(x) THEN x[i] ELSE r[i - Len(x)]
    BY <1>2, <1>3, ConcatProperties, Zenon
  <2> HIDE DEF t
  <2> QED BY <1>2, <1>3, <2>1, Zenon
<1> HIDE DEF t
<1>5. \A i \in 1..Len(t) : s[j + i - 1] = t[i]
  <2> TAKE i \in 1..Len(t)
  <2>1. CASE i = 1
    <3>1. t[1] = s[j]
      BY <1>1, <1>2, <1>4
    <3>2. j + i - 1 = j
      BY <1>1, <2>1
    <3> QED BY <2>1, <3>1, <3>2
  <2>2. CASE i # 1
    <3>1. i \in 1..(1 + (n - j)) /\ ~ (i <= 1) /\ i - 1 \in 1..(n - j) /\ j + (i - 1) = j + i - 1
      BY <1>1, <1>4, <2>2
    <3> QED BY <1>3, <1>4, <3>1
  <2> QED BY <2>1, <2>2
<1>6. n = j + Len(t) - 1 /\ n <= Len(s)
  BY <1>1, <1>4 DEF n
<1>7. SubSeq(s, j, n) = t
  BY <1>1, <1>4, <1>5, <1>6, Window
<1> QED BY <1>7 DEF t, x, r, n

\* What is read is what was laid out.
LEMMA LayoutParses ==
  ASSUME Out!NumbersAssumption, NEW s \in Seq(Nat), NEW frames \in Seq(MadeFrame), AllSound(frames),
         NEW pos, Layout(pos, s, frames)
  PROVE  Out!FramesOf(s) = frames
<1>1. PICK f : Out!FramesOf(s) = f[1] /\ Finds(f, s)
  BY FramesFound
<1> DEFINE n == Len(frames)
           S == {k \in 0..n : f[pos[n - k]] = SubSeq(frames, n - k + 1, n)}
<1>2. n \in Nat /\ pos[0] = 1 /\ pos[n] = Len(s) + 1
  BY LenProperties DEF Layout
<1>3. 0 \in S
  <2>1. f[pos[n]] = <<>>
    BY <1>1, <1>2 DEF Finds
  <2>2. SubSeq(frames, n + 1, n) = <<>>
    <3>1. n + 1 \in Int /\ n \in Int /\ \A i \in (n + 1)..n : frames[i] \in MadeFrame
      BY <1>2
    <3> DEFINE t == SubSeq(frames, n + 1, n)
    <3>2. t \in Seq(MadeFrame) /\ Len(t) = IF n + 1 <= n THEN n - (n + 1) + 1 ELSE 0
      BY <3>1, SubSeqProperties
    <3> HIDE DEF t
    <3>3. t = <<>>
      BY <1>2, <3>2, EmptySeq
    <3> QED BY <3>3 DEF t
  <2>3. n - 0 = n /\ n - 0 + 1 = n + 1 /\ 0 \in 0..n
    BY <1>2
  <2> HIDE DEF n
  <2> QED BY <2>1, <2>2, <2>3
<1>4. ASSUME NEW k \in 1..n, k - 1 \in S PROVE k \in S
  <2> DEFINE j == n - k + 1
             p == pos[j - 1]
  <2>1. /\ j \in 1..n /\ j - 1 = n - k /\ j = n - (k - 1) /\ j + 1 = n - (k - 1) + 1
        /\ k \in 0..n
    BY <1>2
  <2>2. Lies(s, p, pos[j], frames[j]) /\ Sound(frames[j])
    BY <2>1 DEF Layout, AllSound
  <2> HIDE DEF n, j
  <2>3. Out!IsFrameAt(s, p) /\ Out!EndAt(s, p) = pos[j] /\ Out!FrameAt(s, p) = frames[j]
    BY <2>2, ReadsFrame
  <2>4. p \in 1..Len(s)
    <3>1. p \in Nat /\ 1 <= p /\ p < Len(s) /\ Len(s) \in Nat
      BY <2>2, <2>3, LenProperties DEF Lies, Out!IsFrameAt
    <3> QED BY <3>1
  <2>5. f[p] = <<frames[j]>> \o f[pos[j]]
    <3> HIDE DEF p
    <3> QED BY <1>1, <2>3, <2>4, Zenon DEF Finds
  <2>6. f[pos[j]] = SubSeq(frames, j + 1, n)
    <3>1. f[pos[n - (k - 1)]] = SubSeq(frames, n - (k - 1) + 1, n)
      BY <1>4
    <3> QED BY <2>1, <3>1, Zenon
  <2>7. <<frames[j]>> \o SubSeq(frames, j + 1, n) = SubSeq(frames, j, n)
    BY <2>1, TailFrom, Zenon DEF n
  <2>8. f[pos[n - k]] = SubSeq(frames, n - k + 1, n)
    <3>1. j = n - k + 1
      BY DEF j
    <3> HIDE DEF j
    <3> QED BY <2>1, <2>5, <2>6, <2>7, <3>1, Zenon
  <2> QED BY <2>1, <2>8
<1>5. n \in S
  <2>1. \A k \in 0..n : k \in S
    <3> HIDE DEF S, n
    <3> QED BY <1>2, <1>3, <1>4, InductionUpTo
  <2>2. n \in 0..n
    BY <1>2
  <2> HIDE DEF S
  <2> QED BY <2>1, <2>2
<1>6. f[1] = SubSeq(frames, 1, n)
  <2>1. n - n = 0 /\ n - n + 1 = 1
    BY <1>2
  <2>2. f[pos[n - n]] = SubSeq(frames, n - n + 1, n)
    BY <1>5
  <2> HIDE DEF n
  <2> QED BY <1>2, <2>1, <2>2
<1>7. SubSeq(frames, 1, n) = frames
  <2>1. /\ 1 \in Nat /\ 1 <= 1 /\ n = 1 + Len(frames) - 1 /\ n <= Len(frames)
        /\ \A i \in 1..Len(frames) : 1 + i - 1 = i
    BY <1>2
  <2>2. \A i \in 1..Len(frames) : frames[1 + i - 1] = frames[i]
    BY <2>1
  <2> QED BY <2>1, <2>2, Window
<1> QED BY <1>1, <1>6, <1>7

\* One more frame lies behind the others.
LEMMA LayoutLonger ==
  ASSUME NEW s \in Seq(Nat), NEW frames \in Seq(MadeFrame), NEW m \in MadeFrame,
         FrameBytes(m) \in Seq(Nat), NEW pos, Layout(pos, s, frames)
  PROVE  \E longer : Layout(longer, s \o FrameBytes(m), Append(frames, m))
<1> DEFINE n == Len(frames)
           t == FrameBytes(m)
           u == s \o t
           more == Append(frames, m)
           g == [k \in 0..(n + 1) |-> IF k = n + 1 THEN Len(u) + 1 ELSE pos[k]]
<1>1. /\ n \in Nat /\ Len(s) \in Nat /\ Len(t) \in Nat
  BY LenProperties
<1>2. /\ pos \in [0..n -> Nat] /\ pos[0] = 1 /\ pos[n] = Len(s) + 1
      /\ \A k \in 1..n : Lies(s, pos[k - 1], pos[k], frames[k])
  BY DEF Layout
<1> HIDE DEF t
<1>3. /\ u \in Seq(Nat) /\ Len(u) = Len(s) + Len(t)
      /\ \A i \in 1..Len(s) : u[i] = s[i]
      /\ \A i \in 1..Len(t) : u[Len(s) + i] = t[i]
  <2>1. Joined(u, s, t)
    BY JoinedBytes DEF t
  <2> QED BY <2>1, Zenon DEF Joined
<1>4. Len(more) = n + 1 /\ more[n + 1] = m /\ \A k \in 1..n : more[k] = frames[k]
  BY AppendProperties
<1> HIDE DEF u, more, n
<1>5. /\ g \in [0..(n + 1) -> Nat] /\ g[n + 1] = Len(u) + 1 /\ \A k \in 0..n : g[k] = pos[k]
  <2>1. Len(u) + 1 \in Nat
    BY <1>1, <1>3
  <2>2. \A k \in 0..(n + 1) : k # n + 1 => k \in 0..n
    BY <1>1
  <2>3. \A k \in 0..n : k \in 0..(n + 1) /\ k # n + 1
    BY <1>1
  <2>4. n + 1 \in 0..(n + 1)
    BY <1>1
  <2> QED BY <1>2, <2>1, <2>2, <2>3, <2>4
<1> HIDE DEF g
<1>6. ASSUME NEW k \in 1..n PROVE Lies(u, g[k - 1], g[k], more[k])
  <2>1. g[k - 1] = pos[k - 1] /\ g[k] = pos[k] /\ more[k] = frames[k]
    BY <1>1, <1>4, <1>5
  <2>2. Lies(s, pos[k - 1], pos[k], frames[k])
    BY <1>2
  <2> DEFINE p == pos[k - 1]
             l == Len(FrameBytes(frames[k]))
  <2>3. p \in Nat /\ 1 <= p /\ l \in Nat /\ pos[k] = p + l /\ pos[k] <= Len(s) + 1
    BY <2>2, Zenon DEF Lies
  <2>4. \A i \in 1..l : s[p + i - 1] = FrameBytes(frames[k])[i]
    BY <2>2, Zenon DEF Lies
  <2>5. pos[k] \in Nat
    BY <1>1, <1>2
  <2> HIDE DEF p, l
  <2>6. ASSUME NEW i \in 1..l PROVE u[p + i - 1] = s[p + i - 1]
    <3>1. p + i - 1 \in 1..Len(s)
      BY <1>1, <2>3, <2>5
    <3> QED BY <1>3, <3>1
  <2>7. pos[k] <= Len(u) + 1
    BY <1>1, <1>3, <2>3, <2>5
  <2>8. \A i \in 1..l : u[p + i - 1] = FrameBytes(frames[k])[i]
    BY <2>4, <2>6, Zenon
  <2>9. Lies(u, p, pos[k], frames[k])
    BY <2>3, <2>7, <2>8, Zenon DEF Lies, l
  <2> QED BY <2>1, <2>9, Zenon DEF p
<1>7. Lies(u, g[n], g[n + 1], more[n + 1])
  <2>1. g[n] = Len(s) + 1 /\ g[n + 1] = Len(u) + 1 /\ more[n + 1] = m
    BY <1>1, <1>2, <1>4, <1>5
  <2>2. /\ Len(s) + 1 \in Nat /\ 1 <= Len(s) + 1 /\ Len(u) + 1 = (Len(s) + 1) + Len(t)
        /\ Len(u) + 1 <= Len(u) + 1
    BY <1>1, <1>3
  <2>3. \A i \in 1..Len(t) : u[(Len(s) + 1) + i - 1] = t[i]
    <3> TAKE i \in 1..Len(t)
    <3>1. (Len(s) + 1) + i - 1 = Len(s) + i
      BY <1>1
    <3> QED BY <1>3, <3>1
  <2>4. Lies(u, Len(s) + 1, Len(u) + 1, m)
    BY <1>1, <2>2, <2>3, Zenon DEF Lies, t
  <2> QED BY <2>1, <2>4, Zenon
<1>8. \A k \in 1..(n + 1) : Lies(u, g[k - 1], g[k], more[k])
  <2> TAKE k \in 1..(n + 1)
  <2>1. CASE k \in 1..n
    BY <1>6, <2>1
  <2>2. CASE k = n + 1
    <3>1. k - 1 = n
      BY <1>1, <2>2
    <3> QED BY <1>7, <2>2, <3>1, Zenon
  <2>3. k \in 1..n \/ k = n + 1
    BY <1>1
  <2> QED BY <2>1, <2>2, <2>3
<1>9. g[0] = 1
  <2>1. 0 \in 0..n
    BY <1>1
  <2> QED BY <1>2, <1>5, <2>1
<1>10. Layout(g, u, more)
  BY <1>4, <1>5, <1>8, <1>9, Zenon DEF Layout
<1> QED BY <1>10 DEF u, more, t

-----------------------------------------------------------------------------
(* Every step lays out what it makes.                                      *)

ShortControl(frames) ==
  Reasons \subseteq 0..Out!REASON =>
    \A k \in 1..Len(frames) : frames[k].b0 = Out!CLOSE => Len(frames[k].data) <= SMALL

OutInv ==
  /\ out_data \in Seq(Nat) /\ made \in Seq(MadeFrame) /\ AllSound(made)
  /\ \E pos : Layout(pos, out_data, made)
  /\ ShortControl(made)

LEMMA NothingLaid ==
  /\ <<>> \in Seq(Nat) /\ <<>> \in Seq(MadeFrame) /\ AllSound(<<>>) /\ ShortControl(<<>>)
  /\ \E pos : Layout(pos, <<>>, <<>>)
<1>1. <<>> \in Seq(Nat) /\ <<>> \in Seq(MadeFrame) /\ Len(<<>>) = 0
  OBVIOUS
<1>2. Layout([k \in 0..0 |-> 1], <<>>, <<>>)
  BY <1>1 DEF Layout
<1>3. AllSound(<<>>) /\ ShortControl(<<>>)
  BY <1>1 DEF AllSound, ShortControl
<1> QED BY <1>1, <1>2, <1>3

\* What MakeFragment is called with by the two callers.
Payload(b0, data) ==
  /\ b0 \in Nat /\ data \in Seq(Nat)
  /\ Reasons \subseteq 0..Out!REASON /\ b0 = Out!CLOSE => Len(data) <= SMALL

\* A frame that is made has a length that an int tells from -1, and lies
\* behind the others.
LEMMA FragmentStep ==
  ASSUME Out!NumbersAssumption, NEW b0, NEW data, Payload(b0, data), OutInv, Out!MakeFragment(b0, data)
  PROVE  OutInv' /\ (returned' = -1 <=> made' = made)
<1>1. /\ b0 \in Nat /\ data \in Seq(Nat) /\ Len(data) \in Nat
  BY LenProperties DEF Payload
<1>2. CASE Len(data) > Out!LIMIT
  <2>1. returned' = -1 /\ out_data' = out_data /\ made' = made
    BY <1>2 DEF Out!MakeFragment
  <2> QED BY <2>1, Zenon DEF OutInv
<1>3. CASE ~ (Len(data) > Out!LIMIT)
  <2> DEFINE m == [b0 |-> b0, data |-> data]
  <2>1. /\ returned' = Out!Signed(Len(FrameBytes(m)))
        /\ out_data' = out_data \o FrameBytes(m) /\ made' = Append(made, m)
    BY <1>3 DEF Out!MakeFragment, FrameBytes
  <2>2. m \in MadeFrame /\ m.b0 = b0 /\ m.data = data
    BY <1>1 DEF MadeFrame
  <2>3. Sound(m)
    <3>1. Len(data) <= Out!LIMIT
      BY <1>1, <1>3, OutNumbers
    <3> QED BY <2>2, <3>1 DEF Sound
  <2> HIDE DEF m
  <2>4. PICK h \in Seq(Nat) : Tells(h, b0, Len(data)) /\ Joined(FrameBytes(m), h, data)
    <3>1. \E h \in Seq(Nat) : Tells(h, m.b0, Len(m.data)) /\ Joined(FrameBytes(m), h, m.data)
      BY <2>3, FrameJoined, Zenon
    <3> QED BY <2>2, <3>1, Zenon
  <2>5. FrameBytes(m) \in Seq(Nat) /\ Len(FrameBytes(m)) = Len(h) + Len(data)
    BY <2>4, Zenon DEF Joined
  <2>6. Len(h) \in {2, 4, 10}
    BY <2>4, Zenon DEF Tells
  <2>7. out_data \in Seq(Nat) /\ made \in Seq(MadeFrame) /\ AllSound(made) /\ ShortControl(made)
    BY DEF OutInv
  <2>8. PICK pos : Layout(pos, out_data, made)
    BY DEF OutInv
  <2>9. \E longer : Layout(longer, out_data', made')
    BY <2>1, <2>2, <2>5, <2>7, <2>8, LayoutLonger, Zenon
  <2>10. out_data' \in Seq(Nat) /\ made' \in Seq(MadeFrame)
    <3>1. out_data \o FrameBytes(m) \in Seq(Nat)
      BY <2>5, <2>7, ConcatProperties, Zenon
    <3>2. Append(made, m) \in Seq(MadeFrame)
      BY <2>2, <2>7, AppendProperties
    <3> QED BY <2>1, <3>1, <3>2, Zenon
  <2>11. /\ Len(made) \in Nat /\ Len(made') = Len(made) + 1 /\ made'[Len(made) + 1] = m
         /\ \A k \in 1..Len(made) : made'[k] = made[k]
    BY <2>1, <2>2, <2>7, AppendProperties, LenProperties
  <2>12. \A k \in 1..(Len(made) + 1) : k \in 1..Len(made) \/ k = Len(made) + 1
    BY <2>11
  <2>13. AllSound(made')
    BY <2>3, <2>7, <2>11, <2>12, Zenon DEF AllSound
  <2>14. ShortControl(made')
    <3> SUFFICES ASSUME Reasons \subseteq 0..Out!REASON, NEW k \in 1..Len(made'), made'[k].b0 = Out!CLOSE
                 PROVE  Len(made'[k].data) <= SMALL
      BY DEF ShortControl
    <3>1. CASE k \in 1..Len(made)
      BY <2>7, <2>11, <3>1, Zenon DEF ShortControl
    <3>2. CASE k = Len(made) + 1
      BY <2>2, <2>11, <3>2, Zenon DEF Payload
    <3> QED BY <2>11, <2>12, <3>1, <3>2, Zenon
  <2>15. returned' # -1
    <3> DEFINE l == Len(FrameBytes(m))
               w == Out!WORD
    <3>1. w \in Nat /\ Out!LIMIT = w - 16
      BY OutNumbers
    <3>2. l \in Nat /\ l <= w - 6
      <4>1. Len(data) <= w - 16
        BY <1>1, <1>3, <3>1
      <4> DEFINE a == Len(h)
                 b == Len(data)
      <4>2. l = a + b /\ b \in Nat /\ b <= w - 16 /\ (a = 2 \/ a = 4 \/ a = 10)
        BY <1>1, <2>5, <2>6, <4>1
      <4> HIDE DEF w, l, a, b
      <4> QED BY <3>1, <4>2
    <3>3. returned' = IF l < w \div 2 THEN l ELSE l - w
      BY <2>1 DEF Out!Signed
    <3> HIDE DEF l, w
    <3>4. l # -1 /\ l - w # -1
      BY <3>1, <3>2
    <3> QED BY <3>3, <3>4, Zenon
  <2>16. made' # made
    BY <2>11
  <2> QED BY <2>9, <2>10, <2>13, <2>14, <2>15, <2>16, Zenon DEF OutInv
<1> QED BY <1>2, <1>3

LEMMA DataPayload ==
  ASSUME Out!NumbersAssumption, NEW len \in Nat
  PROVE  Payload(Out!BINARY, Out!Pattern(len))
<1>1. Radix \in Nat \ {0}
  BY OutNumbers
<1>2. \A i \in 1..len : i % Radix \in Nat
  <2> TAKE i \in 1..len
  <2>1. i \in Nat
    OBVIOUS
  <2> QED BY <1>1, <2>1, LastDigit
<1>3. Out!Pattern(len) \in [1..len -> Nat]
  BY <1>2 DEF Out!Pattern
<1>4. Out!Pattern(len) \in Seq(Nat)
  BY <1>3
<1>5. Out!BINARY \in Nat /\ Out!BINARY # Out!CLOSE
  BY DEF Out!BINARY, Out!CLOSE
<1> QED BY <1>4, <1>5, Zenon DEF Payload

LEMMA ClosePayload ==
  ASSUME Out!NumbersAssumption, NEW len \in Reasons, len \in Nat
  PROVE  Payload(Out!CLOSE, Out!CodeBytes \o [i \in 1..len |-> IF i <= Out!REASON THEN i ELSE 0])
<1> DEFINE r == [i \in 1..len |-> IF i <= Out!REASON THEN i ELSE 0]
           c == Out!CodeBytes
<1>1. r \in [1..len -> Nat]
  OBVIOUS
<1> HIDE DEF r
<1>2. r \in Seq(Nat) /\ Len(r) = len
  BY <1>1
<1>3. c \in Seq(Nat) /\ Len(c) = 2
  BY DEF Out!CodeBytes
<1> HIDE DEF c
<1>4. c \o r \in Seq(Nat) /\ Len(c \o r) = Len(c) + Len(r)
  BY <1>2, <1>3, ConcatProperties, Zenon
<1>5. Len(c \o r) = 2 + len
  BY <1>2, <1>3, <1>4, Zenon
<1>6. Reasons \subseteq 0..Out!REASON => Len(c \o r) <= SMALL
  <2> SUFFICES ASSUME Reasons \subseteq 0..Out!REASON PROVE 2 + len <= SMALL
    BY <1>5
  <2>1. len <= Out!REASON
    OBVIOUS
  <2>2. Out!REASON = SMALL - 2 /\ SMALL \in Nat
    BY OutNumbers DEF Out!REASON
  <2> QED BY <2>1, <2>2
<1>7. Out!CLOSE \in Nat
  BY DEF Out!CLOSE
<1>8. Payload(Out!CLOSE, c \o r)
  BY <1>4, <1>6, <1>7, Zenon DEF Payload
<1> QED BY <1>8 DEF c, r

\* CleanupOutdata takes away all of it.
LEMMA CleanupStep ==
  ASSUME OutInv, Out!CleanupOutdata
  PROVE  OutInv' /\ ~ (Len(made') >= Len(made))
<1>1. out_data # <<>> /\ out_data' = <<>> /\ made' = <<>>
  BY DEF Out!CleanupOutdata
<1>2. OutInv'
  BY <1>1, NothingLaid, Zenon DEF OutInv
<1>3. PICK pos : Layout(pos, out_data, made)
  BY DEF OutInv
<1>4. out_data \in Seq(Nat) /\ Len(out_data) \in Nat /\ Len(made) \in Nat
  BY LenProperties DEF OutInv
<1>5. Len(made) # 0
  <2> SUFFICES ASSUME Len(made) = 0 PROVE FALSE
    OBVIOUS
  <2>1. pos[0] = 1 /\ pos[0] = Len(out_data) + 1
    BY <1>3 DEF Layout
  <2>2. Len(out_data) = 0
    BY <1>4, <2>1
  <2> QED BY <1>1, <1>4, <2>2, EmptySeq
<1>6. Len(<<>>) = 0
  OBVIOUS
<1>7. ~ (Len(made') >= Len(made))
  BY <1>1, <1>4, <1>5, <1>6
<1> QED BY <1>2, <1>7

LEMMA OutStep ==
  ASSUME Out!NumbersAssumption, Out!InputsAssumption, OutInv, [Out!Next]_(Out!vars)
  PROVE  OutInv' /\ ((Len(made') >= Len(made) => (returned' = -1 <=> made' = made))
                    \/ UNCHANGED Out!vars)
<1>1. ASSUME NEW len \in Lengths, Out!MakeData(len)
      PROVE  OutInv' /\ (returned' = -1 <=> made' = made)
  <2>1. len \in Nat
    BY OutNumbers DEF Out!InputsAssumption
  <2>2. Out!MakeFragment(Out!BINARY, Out!Pattern(len))
    BY <1>1 DEF Out!MakeData
  <2> QED BY <2>1, <2>2, DataPayload, FragmentStep, Zenon
<1>2. ASSUME NEW len \in Reasons, Out!MakeClose(len)
      PROVE  OutInv' /\ (returned' = -1 <=> made' = made)
  <2>1. len \in Nat
    BY OutNumbers DEF Out!InputsAssumption, Out!BUF
  <2> DEFINE d == Out!CodeBytes \o [i \in 1..len |-> IF i <= Out!REASON THEN i ELSE 0]
  <2>2. Out!MakeFragment(Out!CLOSE, d)
    BY <1>2 DEF Out!MakeClose
  <2>3. Payload(Out!CLOSE, d)
    BY <2>1, ClosePayload
  <2> HIDE DEF d
  <2> QED BY <2>2, <2>3, FragmentStep, Zenon
<1>3. ASSUME Out!CleanupOutdata
      PROVE  OutInv' /\ ~ (Len(made') >= Len(made))
  BY <1>3, CleanupStep
<1>4. ASSUME UNCHANGED Out!vars
      PROVE  OutInv'
  <2>1. out_data' = out_data /\ made' = made
    BY <1>4 DEF Out!vars
  <2> QED BY <2>1, Zenon DEF OutInv
<1>5. \/ \E len \in Lengths : Out!MakeData(len)
      \/ \E len \in Reasons : Out!MakeClose(len)
      \/ Out!CleanupOutdata
      \/ UNCHANGED Out!vars
  BY DEF Out!Next
<1> QED BY <1>1, <1>2, <1>3, <1>4, <1>5, Zenon

LEMMA OutInvariant ==
  ASSUME Out!NumbersAssumption, Out!InputsAssumption
  PROVE  Out!Spec => []OutInv
<1>1. Out!Init => OutInv
  BY NothingLaid, Zenon DEF Out!Init, OutInv
<1>2. OutInv /\ [Out!Next]_(Out!vars) => OutInv'
  BY OutStep
<1> QED BY <1>1, <1>2, PTL DEF Out!Spec

\* libwebsock_make_fragment, for every base, every limit and every length up
\* to it: the peer reads from out_data the frames that were made, each with
\* the shortest form of its length; and a close frame is no longer than a
\* control frame may be when its reason fits.
THEOREM OutputReadsBack ==
  ASSUME Out!NumbersAssumption, Out!InputsAssumption
  PROVE  Out!Spec => [](Out!StreamParses /\ Out!ControlFramesShort)
<1>1. OutInv => Out!StreamParses /\ Out!ControlFramesShort
  <2> SUFFICES ASSUME OutInv PROVE Out!StreamParses /\ Out!ControlFramesShort
    OBVIOUS
  <2>1. /\ out_data \in Seq(Nat) /\ made \in Seq(MadeFrame) /\ AllSound(made)
        /\ \E pos : Layout(pos, out_data, made)
        /\ ShortControl(made)
    BY DEF OutInv
  <2>2. Out!StreamParses
    BY <2>1, LayoutParses, Zenon DEF Out!StreamParses
  <2>3. DOMAIN made = 1..Len(made)
    BY <2>1, LenProperties
  <2>4. Out!ControlFramesShort
    BY <2>1, <2>3, Zenon DEF Out!ControlFramesShort, ShortControl
  <2> QED BY <2>2, <2>4
<1>2. Out!Spec => []OutInv
  BY OutInvariant
<1> QED BY <1>1, <1>2, PTL

\* The int it returns is -1 for a refused frame and for no other, though
\* the length of a long one is negative in it.
THEOREM ReturnTells ==
  ASSUME Out!NumbersAssumption, Out!InputsAssumption
  PROVE  Out!Spec => Out!ResultTells
<1>1. OutInv /\ [Out!Next]_(Out!vars) =>
        [Len(made') >= Len(made) => (returned' = -1 <=> made' = made)]_(Out!vars)
  BY OutStep
<1>2. Out!Spec => []OutInv
  BY OutInvariant
<1> QED BY <1>1, <1>2, PTL DEF Out!Spec, Out!ResultTells
=============================================================================
