---------------------------- MODULE Sha1Compress ----------------------------
(***************************************************************************)
(* SHA1ProcessMessageBlock of sha1.c on words of 32 bits, each a pair of   *)
(* halves so that TLC's integers hold them.                                *)
(***************************************************************************)
EXTENDS Integers, Sequences, SequencesExt
LOCAL INSTANCE Bitwise

HALF == 65536
Word == (0..HALF - 1) \X (0..HALF - 1)

Plus(v, w) ==
  LET low == v[2] + w[2]
  IN  <<(v[1] + w[1] + (low \div HALF)) % HALF, low % HALF>>
Sum5(a, b, c, d, e) == Plus(Plus(Plus(Plus(a, b), c), d), e)

BitAnd(v, w) == <<v[1] & w[1], v[2] & w[2]>>
BitOr(v, w)  == <<v[1] | w[1], v[2] | w[2]>>
BitXor(v, w) == <<v[1] ^^ w[1], v[2] ^^ w[2]>>
BitNot(w)    == <<HALF - 1 - w[1], HALF - 1 - w[2]>>

\* SHA1CircularShift
CircularShift(bits, w) ==
  LET high == w[1 + (bits \div 16)]
      low  == w[2 - (bits \div 16)]
      n    == bits % 16
  IN  <<((high * 2^n) % HALF) + (low \div 2^(16 - n)), ((low * 2^n) % HALF) + (high \div 2^(16 - n))>>

\* Message_Digest after SHA1Reset.
InitialDigest == <<<<\H6745, \H2301>>, <<\HEFCD, \HAB89>>, <<\H98BA, \HDCFE>>,
                   <<\H1032, \H5476>>, <<\HC3D2, \HE1F0>>>>

K == <<<<\H5A82, \H7999>>, <<\H6ED9, \HEBA1>>, <<\H8F1B, \HBCDC>>, <<\HCA62, \HC1D6>>>>

-----------------------------------------------------------------------------
\* The first sixteen words of W.
Words(block) ==
  [t \in 1..16 |-> <<256 * block[4 * t - 3] + block[4 * t - 2], 256 * block[4 * t - 1] + block[4 * t]>>]

\* All of W; the code counts from 0.
Schedule(block) ==
  LET Extend[W \in Seq(Word)] ==
        LET t == Len(W) + 1
        IN  IF t > 80 THEN W
            ELSE Extend[Append(W, CircularShift(1, BitXor(BitXor(W[t - 3], W[t - 8]),
                                                          BitXor(W[t - 14], W[t - 16]))))]
  IN  Extend[Words(block)]

\* What each of the four loops mixes B, C and D with.
Mix(t, B, C, D) ==
  IF t <= 20 THEN BitOr(BitAnd(B, C), BitAnd(BitNot(B), D))
  ELSE IF t \in 41..60 THEN BitOr(BitOr(BitAnd(B, C), BitAnd(B, D)), BitAnd(C, D))
  ELSE BitXor(BitXor(B, C), D)

\* One round: w holds A to E.
Round(w, t, Wt) ==
  <<Sum5(CircularShift(5, w[1]), Mix(t, w[2], w[3], w[4]), w[5], Wt, K[1 + ((t - 1) \div 20)]),
    w[1], CircularShift(30, w[2]), w[3], w[4]>>

\* The rounds of the four loops.
Compress(digest, block) ==
  LET W == Schedule(block)
      Rounds[v \in Seq(Word), t \in 1..81] ==
        IF t > 80 THEN v ELSE Rounds[Round(v, t, W[t]), t + 1]
      w == Rounds[digest, 1]
  IN  [i \in 1..5 |-> Plus(digest[i], w[i])]

-----------------------------------------------------------------------------
(* Reference: the alternate method of FIPS 180-1, section 8, on a queue of *)
(* sixteen words, with f by its Boolean identities.                        *)

FipsF(t, B, C, D) ==
  CASE t \in 0..19  -> BitXor(D, BitAnd(B, BitXor(C, D)))
    [] t \in 40..59 -> BitXor(BitAnd(B, C), BitXor(BitAnd(B, D), BitAnd(C, D)))
    [] OTHER        -> BitXor(B, BitXor(C, D))

FipsStep(h, t) ==
  LET s     == t % 16
      at(k) == h.W[(s + k) % 16]
      Ws    == IF t < 16 THEN at(0) ELSE CircularShift(1, BitXor(BitXor(at(13), at(8)), BitXor(at(2), at(0))))
  IN  [A |-> Sum5(CircularShift(5, h.A), FipsF(t, h.B, h.C, h.D), h.E, Ws, K[1 + (t \div 20)]),
       B |-> h.A, C |-> CircularShift(30, h.B), D |-> h.C, E |-> h.D,
       W |-> [h.W EXCEPT ![s] = Ws]]

FipsBlock(digest, block) ==
  LET start == [A |-> digest[1], B |-> digest[2], C |-> digest[3], D |-> digest[4], E |-> digest[5],
                W |-> [s \in 0..15 |-> Words(block)[s + 1]]]
      Steps[h \in [A : Word, B : Word, C : Word, D : Word, E : Word, W : [0..15 -> Word]], t \in 0..80] ==
        IF t = 80 THEN h ELSE Steps[FipsStep(h, t), t + 1]
      end == Steps[start, 0]
  IN  <<Plus(digest[1], end.A), Plus(digest[2], end.B), Plus(digest[3], end.C),
        Plus(digest[4], end.D), Plus(digest[5], end.E)>>
=============================================================================
