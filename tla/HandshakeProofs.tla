--------------------------- MODULE HandshakeProofs ---------------------------
(* What holds of the handshake for all requests, lists of subprotocols and *)
(* ways of cutting the request into reads: what a failure leaves, what a   *)
(* reply answers, and what becomes of the memory.                          *)
EXTENDS Handshake, SequenceLemmas, FiniteSetTheorems

\* The reply exists only after the flags have said so, and a failure has
\* closed the connection before anything else can be read or written.
IInv ==
  /\ flags \in {{"CONNECTING"}, {"CONNECTED"}}
  /\ flags = {"CONNECTING"} => out_data = None /\ sent = None
  /\ result = -1 => flags = {"CONNECTING"} /\ host = "closed"

\* A request that is refused changes the result alone; one that is answered
\* ends the handshake.
LEMMA ReadStep ==
  ASSUME IInv, NEW n, NEW inside, HostReads(n, inside)
  PROVE  IInv'
<1>1. flags = {"CONNECTING"}
  BY DEF IInv, HostReads
<1>2. CASE result' = -1 /\ UNCHANGED <<flags, out_data, heap>>
  BY <1>1, <1>2 DEF IInv, HostReads
<1>3. CASE result' = 0 /\ flags' = {"CONNECTED"}
  BY <1>3 DEF IInv
<1> QED BY <1>2, <1>3 DEF HostReads, PopulateHandshake

LEMMA WriteStep ==
  ASSUME IInv, HostWrites
  PROVE  IInv'
<1>1. flags = {"CONNECTED"} /\ flags' = flags /\ result' = result
  BY DEF IInv, HostWrites
<1> QED BY <1>1 DEF IInv

\* A failed handshake leaves the connection as it was, with nothing waiting
\* and nothing written: the server's close is all the client sees.
THEOREM NothingAfterFailure == Spec => []FailureLeavesNothing
<1>1. Init => IInv
  BY DEF Init, IInv
<1>2. IInv /\ [Next]_vars => IInv'
  <2> SUFFICES ASSUME IInv, [Next]_vars PROVE IInv'
    OBVIOUS
  <2>1. CASE \E n \in 0..Len(unread), inside \in BOOLEAN : HostReads(n, inside)
    BY <2>1, ReadStep
  <2>2. CASE HostWrites
    BY <2>2, WriteStep
  <2>3. CASE UNCHANGED vars
    BY <2>3 DEF IInv, vars
  <2> QED BY <2>1, <2>2, <2>3 DEF Next
<1>3. IInv => FailureLeavesNothing
  BY DEF IInv, FailureLeavesNothing
<1> QED BY <1>1, <1>2, <1>3, PTL DEF Spec

-----------------------------------------------------------------------------
(* The loops over the lines of a request.                                  *)

RequestLine == KeyLines \cup ProtocolLines \cup {Other, Blank}
KeyBlock == {"key"} \X Nat
Headers == [key : Seq(STRING) \cup {None}, block : KeyBlock \cup {None},
            keys : {S \in SUBSET KeyBlock : IsFiniteSet(S)}, list : Seq(Token), len : Nat]

\* A list of tokens has a width.
LEMMA WidthType ==
  ASSUME NEW tokens \in Seq(Token)
  PROVE  ListWidth(tokens) \in Nat
<1> DEFINE n0 == Len(tokens)
           F == [k \in 1..n0 |-> [x \in Nat |-> x + Width[tokens[k]] + IF k = 1 THEN 0 ELSE 1]]
           Equation(f) == f = [n \in 0..Len(tokens) |->
                                IF n = 0 THEN 0 ELSE f[n - 1] + Width[tokens[n]] + IF n = 1 THEN 0 ELSE 1]
           w == CHOOSE f : Equation(f)
<1>0. n0 \in Nat /\ 0 \in Nat /\ \A k \in 1..n0 : Width[tokens[k]] \in Nat
  <2>1. n0 \in Nat /\ \A k \in 1..n0 : tokens[k] \in Token
    BY LenProperties, ElementOfSeq
  <2> QED BY <2>1, TokensAssumption
<1>1. PICK f : Trace(f, n0, Nat, 0, F)
  <2>1. \A k \in 1..n0 : \A x \in Nat : F[k][x] \in Nat
    BY <1>0
  <2> HIDE DEF F, n0
  <2> QED BY ONLY <1>0, <2>1, TraceExists
<1>2. f \in [0..n0 -> Nat] /\ f[0] = 0 /\ \A k \in 1..n0 : f[k] = F[k][f[k - 1]]
  BY <1>1 DEF Trace
<1>3. \A k \in 1..n0 : f[k] = f[k - 1] + Width[tokens[k]] + IF k = 1 THEN 0 ELSE 1
  <2>1. \A k \in 1..n0 : k - 1 \in 0..n0
    BY <1>0
  <2>2. \A k \in 1..n0 : f[k - 1] \in Nat
    BY <1>2, <2>1
  <2> QED BY <1>2, <2>2
<1>4. Equation(f)
  BY <1>0, <1>2, <1>3
<1>5. Equation(w)
  <2> HIDE DEF Equation
  <2> QED BY <1>4
<1>6. ListWidth(tokens) = w[n0]
  BY DEF ListWidth
<1>7. w[0] = 0 /\ \A k \in 1..n0 : w[k] = w[k - 1] + Width[tokens[k]] + IF k = 1 THEN 0 ELSE 1
  <2> HIDE DEF w
  <2> QED BY <1>0, <1>5
<1> DEFINE S == {k \in 0..n0 : w[k] \in Nat}
<1> HIDE DEF w
<1>8. 0 \in S /\ \A k \in 1..n0 : k - 1 \in S => k \in S
  BY <1>0, <1>7
<1>9. \A k \in 0..n0 : k \in S
  <2> HIDE DEF S, n0
  <2> QED BY ONLY <1>0, <1>8, InductionUpTo
<1> QED BY <1>0, <1>6, <1>9

\* An empty one has none.
LEMMA EmptyWidth == ListWidth(<<>>) = 0
<1> DEFINE Equation(f) == f = [n \in 0..Len(<<>>) |->
                                IF n = 0 THEN 0 ELSE f[n - 1] + Width[<<>>[n]] + IF n = 1 THEN 0 ELSE 1]
           w == CHOOSE f : Equation(f)
<1>1. Len(<<>>) = 0 /\ \A n \in 0..Len(<<>>) : n = 0
  OBVIOUS
<1>2. Equation([n \in 0..Len(<<>>) |-> 0])
  BY <1>1
<1>3. Equation(w)
  <2> HIDE DEF Equation
  <2> QED BY <1>2
<1>4. ListWidth(<<>>) = w[0]
  BY <1>1 DEF ListWidth
<1> HIDE DEF w
<1> QED BY <1>1, <1>3, <1>4

\* What a line makes of what was found before it.
LEMMA ParseLineType ==
  ASSUME NEW p \in Headers, NEW line \in RequestLine
  PROVE  ParseLine(p, line) \in Headers
<1>0. p = [key |-> p.key, block |-> p.block, keys |-> p.keys, list |-> p.list, len |-> p.len]
      /\ p.key \in Seq(STRING) \cup {None} /\ p.block \in KeyBlock \cup {None} /\ p.keys \in SUBSET KeyBlock
      /\ IsFiniteSet(p.keys) /\ p.list \in Seq(Token) /\ p.len \in Nat
  BY DEF Headers
<1>1. CASE line.name = "key"
  <2>1. line.value \in Seq(STRING)
    BY <1>1 DEF RequestLine, KeyLines, ProtocolLines, Other, Blank
  <2> DEFINE b == <<"key", Cardinality(p.keys)>>
  <2>2. b \in KeyBlock
    BY <1>0, FS_CardinalityType DEF KeyBlock
  <2>3. p.keys \cup {b} \in SUBSET KeyBlock /\ IsFiniteSet(p.keys \cup {b})
    BY <1>0, <2>2, FS_AddElement
  <2>4. ParseLine(p, line) = [p EXCEPT !.key = line.value, !.block = b, !.keys = p.keys \cup {b}]
    BY <1>1 DEF ParseLine, KeyLine
  <2> HIDE DEF b
  <2> QED BY <1>0, <2>1, <2>2, <2>3, <2>4 DEF Headers
<1>2. CASE line.name = "protocol"
  <2>1. line.value \in Seq(Token)
    BY <1>2 DEF RequestLine, KeyLines, ProtocolLines, Other, Blank
  <2>2. p.list \o line.value \in Seq(Token) /\ ListWidth(line.value) \in Nat
    BY <1>0, <2>1, ConcatProperties, WidthType
  <2>3. ParseLine(p, line) = ProtocolLine(p, line.value)
    BY <1>2 DEF ParseLine
  <2> DEFINE l == p.list \o line.value
             w == ListWidth(line.value)
             n == p.len + (IF p.len > 0 THEN 1 ELSE 0) + w
  <2>4. l \in Seq(Token) /\ n \in Nat
    BY <1>0, <2>2
  <2>5. ParseLine(p, line) = p \/ ParseLine(p, line) = [[p EXCEPT !.list = l] EXCEPT !.len = n]
    BY <2>3 DEF ProtocolLine
  <2>6. [[p EXCEPT !.list = l] EXCEPT !.len = n] \in Headers
    <3> HIDE DEF l, n
    <3> QED BY <2>4 DEF Headers
  <2> QED BY <2>5, <2>6
<1> QED BY <1>1, <1>2 DEF ParseLine

\* Parsing goes from line to line.
LEMMA ParsingLines ==
  ASSUME NEW read \in Seq(RequestLine)
  PROVE  /\ Parsing(read)[0] = NoHeaders
         /\ \A k \in 0..Len(read) : Parsing(read)[k] \in Headers
         /\ \A k \in 1..Len(read) : Parsing(read)[k] = ParseLine(Parsing(read)[k - 1], read[k])
<1> DEFINE n0 == Len(read)
           F == [k \in 1..n0 |-> [x \in Headers |-> ParseLine(x, read[k])]]
           Equation(f) == f = [n \in 0..Len(read) |-> IF n = 0 THEN NoHeaders ELSE ParseLine(f[n - 1], read[n])]
           r == Parsing(read)
<1>0. n0 \in Nat /\ NoHeaders \in Headers /\ \A k \in 1..n0 : read[k] \in RequestLine
  <2>1. n0 \in Nat /\ \A k \in 1..n0 : read[k] \in RequestLine
    BY LenProperties, ElementOfSeq
  <2>2. <<>> \in Seq(Token) /\ IsFiniteSet({}) /\ 0 \in Nat
    BY FS_EmptySet, EmptySeq
  <2> QED BY <2>1, <2>2 DEF NoHeaders, Headers
<1>1. PICK f : Trace(f, n0, Headers, NoHeaders, F)
  <2>1. \A k \in 1..n0 : \A x \in Headers : F[k][x] \in Headers
    BY <1>0, ParseLineType
  <2> HIDE DEF F, n0
  <2> QED BY ONLY <1>0, <2>1, TraceExists
<1>2. f \in [0..n0 -> Headers] /\ f[0] = NoHeaders /\ \A k \in 1..n0 : f[k] = F[k][f[k - 1]]
  BY <1>1 DEF Trace
<1>3. \A k \in 1..n0 : f[k] = ParseLine(f[k - 1], read[k])
  <2>1. \A k \in 1..n0 : k - 1 \in 0..n0
    BY <1>0
  <2>2. \A k \in 1..n0 : f[k - 1] \in Headers
    BY <1>2, <2>1
  <2> QED BY <1>2, <2>2
<1>4. Equation(f)
  BY <1>0, <1>2, <1>3
<1>5. Equation(r)
  BY <1>4 DEF Parsing
<1>6. r[0] = NoHeaders /\ \A k \in 1..n0 : r[k] = ParseLine(r[k - 1], read[k])
  <2> HIDE DEF r
  <2> QED BY <1>0, <1>5
<1> DEFINE S == {k \in 0..n0 : r[k] \in Headers}
<1> HIDE DEF r
<1>7. 0 \in S /\ \A k \in 1..n0 : k - 1 \in S => k \in S
  BY <1>0, <1>6, ParseLineType
<1>8. \A k \in 0..n0 : k \in S
  <2> HIDE DEF S, n0
  <2> QED BY ONLY <1>0, <1>7, InductionUpTo
<1> QED BY <1>6, <1>8 DEF r

\* The same of what the client asked for, and of the room that takes.
LEMMA AskingLines ==
  ASSUME request \in Seq(RequestLine)
  PROVE  /\ Asking[0] = <<>>
         /\ \A k \in 0..Len(request) : Asking[k] \in Seq(Token)
         /\ \A k \in 1..Len(request) : Asking[k] = Asking[k - 1] \o AskedIn(request[k])
<1> DEFINE n0 == Len(request)
           V == Seq(Token)
           F == [k \in 1..n0 |-> [x \in V |-> x \o AskedIn(request[k])]]
           Equation(f) == f = [n \in 0..Len(request) |-> IF n = 0 THEN <<>> ELSE f[n - 1] \o AskedIn(request[n])]
           r == Asking
<1>0. n0 \in Nat /\ <<>> \in V /\ \A k \in 1..n0 : AskedIn(request[k]) \in V
  <2>1. n0 \in Nat /\ \A k \in 1..n0 : request[k] \in RequestLine
    BY LenProperties, ElementOfSeq
  <2>2. \A line \in RequestLine : AskedIn(line) \in Seq(Token)
    BY EmptySeq DEF AskedIn, RequestLine, KeyLines, ProtocolLines, Other, Blank
  <2> QED BY <2>1, <2>2, EmptySeq
<1>00. \A k \in 1..n0 : \A x \in V : x \o AskedIn(request[k]) \in V
  BY <1>0, ConcatProperties
<1> HIDE DEF V
<1>1. PICK f : Trace(f, n0, V, <<>>, F)
  <2>1. \A k \in 1..n0 : \A x \in V : F[k][x] \in V
    BY <1>00
  <2> HIDE DEF F, n0
  <2> QED BY ONLY <1>0, <2>1, TraceExists
<1>2. f \in [0..n0 -> V] /\ f[0] = <<>> /\ \A k \in 1..n0 : f[k] = F[k][f[k - 1]]
  BY <1>1 DEF Trace
<1>3. \A k \in 1..n0 : f[k] = f[k - 1] \o AskedIn(request[k])
  <2>1. \A k \in 1..n0 : k - 1 \in 0..n0
    BY <1>0
  <2>2. \A k \in 1..n0 : f[k - 1] \in V
    BY <1>2, <2>1
  <2> QED BY <1>2, <2>2
<1>4. Equation(f)
  BY <1>0, <1>2, <1>3
<1>5. Equation(r)
  BY <1>4 DEF Asking
<1>6. r[0] = <<>> /\ \A k \in 1..n0 : r[k] = r[k - 1] \o AskedIn(request[k])
  <2> HIDE DEF r
  <2> QED BY <1>0, <1>5
<1> DEFINE S == {k \in 0..n0 : r[k] \in V}
<1> HIDE DEF r
<1>7. 0 \in S /\ \A k \in 1..n0 : k - 1 \in S => k \in S
  <2>1. 0 \in S
    BY <1>0, <1>6
  <2>2. ASSUME NEW k \in 1..n0, k - 1 \in S PROVE k \in S
    <3>1. k \in 0..n0 /\ r[k - 1] \in V
      BY <1>0, <2>2
    <3>2. r[k] \in V
      BY <1>00, <1>6, <3>1
    <3> QED BY <3>1, <3>2
  <2> QED BY <2>1, <2>2
<1>8. \A k \in 0..n0 : k \in S
  <2> HIDE DEF S, n0
  <2> QED BY ONLY <1>0, <1>7, InductionUpTo
<1> QED BY <1>6, <1>8 DEF r, V

LEMMA TakingLines ==
  ASSUME request \in Seq(RequestLine)
  PROVE  /\ Taking[0] = 0
         /\ \A k \in 0..Len(request) : Taking[k] \in Nat
         /\ \A k \in 1..Len(request) : Taking[k] = Taking[k - 1] + RoomOf(request[k])
<1> DEFINE n0 == Len(request)
           F == [k \in 1..n0 |-> [x \in Nat |-> x + RoomOf(request[k])]]
           Equation(f) == f = [n \in 0..Len(request) |-> IF n = 0 THEN 0 ELSE f[n - 1] + RoomOf(request[n])]
           r == Taking
<1>0. n0 \in Nat /\ 0 \in Nat /\ \A k \in 1..n0 : RoomOf(request[k]) \in Nat
  <2>1. n0 \in Nat /\ \A k \in 1..n0 : request[k] \in RequestLine
    BY LenProperties, ElementOfSeq
  <2>2. \A line \in RequestLine : RoomOf(line) \in Nat
    <3> SUFFICES ASSUME NEW line \in RequestLine, line.name = "protocol"
                 PROVE  RoomOf(line) \in Nat
      BY DEF RoomOf
    <3>1. line.value \in Seq(Token)
      BY DEF RequestLine, KeyLines, ProtocolLines, Other, Blank
    <3>2. ListWidth(line.value) \in Nat
      BY <3>1, WidthType
    <3> QED BY <3>2 DEF RoomOf
  <2> QED BY <2>1, <2>2
<1>1. PICK f : Trace(f, n0, Nat, 0, F)
  <2>1. \A k \in 1..n0 : \A x \in Nat : F[k][x] \in Nat
    BY <1>0
  <2> HIDE DEF F, n0
  <2> QED BY ONLY <1>0, <2>1, TraceExists
<1>2. f \in [0..n0 -> Nat] /\ f[0] = 0 /\ \A k \in 1..n0 : f[k] = F[k][f[k - 1]]
  BY <1>1 DEF Trace
<1>3. \A k \in 1..n0 : f[k] = f[k - 1] + RoomOf(request[k])
  <2>1. \A k \in 1..n0 : k - 1 \in 0..n0
    BY <1>0
  <2>2. \A k \in 1..n0 : f[k - 1] \in Nat
    BY <1>2, <2>1
  <2> QED BY <1>2, <2>2
<1>4. Equation(f)
  BY <1>0, <1>2, <1>3
<1>5. Equation(r)
  BY <1>4 DEF Taking
<1>6. r[0] = 0 /\ \A k \in 1..n0 : r[k] = r[k - 1] + RoomOf(request[k])
  <2> HIDE DEF r
  <2> QED BY <1>0, <1>5
<1> DEFINE S == {k \in 0..n0 : r[k] \in Nat}
<1> HIDE DEF r
<1>7. 0 \in S /\ \A k \in 1..n0 : k - 1 \in S => k \in S
  BY <1>0, <1>6
<1>8. \A k \in 0..n0 : k \in S
  <2> HIDE DEF S, n0
  <2> QED BY ONLY <1>0, <1>7, InductionUpTo
<1> QED BY <1>6, <1>8 DEF r

\* A sequence without its last element.
LEMMA FrontElements ==
  ASSUME NEW S, NEW s \in Seq(S), s # <<>>
  PROVE  /\ Front(s) \in Seq(S) /\ Len(s) \in Nat /\ Len(s) # 0
         /\ DOMAIN Front(s) = 1..Len(s) - 1
         /\ \A i \in 1..Len(s) - 1 : Front(s)[i] = s[i] /\ i \in DOMAIN s
<1>1. /\ Len(s) \in Nat /\ Len(s) # 0 /\ DOMAIN s = 1..Len(s)
      /\ \A i \in 1..Len(s) : s[i] \in S
  BY LenProperties, EmptySeq, ElementOfSeq
<1> DEFINE k == Len(s) - 1
<1>2. k \in Nat /\ k \in Int /\ 1 \in Int /\ (IF 1 <= k THEN k - 1 + 1 ELSE 0) = k
      /\ \A i \in 1..k : i \in 1..k - 1 + 1 /\ 1 + i - 1 = i /\ i \in 1..Len(s)
  BY <1>1
<1>3. Front(s) = SubSeq(s, 1, k)
  BY DEF Front
<1> HIDE DEF k
<1>4. \A i \in 1..k : s[i] \in S
  BY <1>1, <1>2
<1>5. /\ SubSeq(s, 1, k) \in Seq(S)
      /\ Len(SubSeq(s, 1, k)) = IF 1 <= k THEN k - 1 + 1 ELSE 0
      /\ \A i \in 1..k - 1 + 1 : SubSeq(s, 1, k)[i] = s[1 + i - 1]
  BY ONLY <1>2, <1>4, SubSeqProperties
<1>6. DOMAIN Front(s) = 1..k
  BY <1>2, <1>3, <1>5, LenProperties
<1>7. \A i \in 1..k : Front(s)[i] = s[i] /\ i \in DOMAIN s
  BY <1>1, <1>2, <1>3, <1>5
<1> QED BY <1>1, <1>3, <1>5, <1>6, <1>7 DEF k

\* A token list without its last token has no other tokens; two of them
\* joined have those of both.
LEMMA TokensOfFront ==
  ASSUME NEW s \in Seq(Token), s # <<>>
  PROVE  Front(s) \in Seq(Token) /\ Range(Front(s)) \subseteq Range(s)
BY FrontElements DEF Range

LEMMA TokensOfBoth ==
  ASSUME NEW s \in Seq(Token), NEW u \in Seq(Token)
  PROVE  Range(s \o u) = Range(s) \cup Range(u)
<1>1. /\ Len(s) \in Nat /\ DOMAIN s = 1..Len(s) /\ Len(u) \in Nat /\ DOMAIN u = 1..Len(u)
      /\ DOMAIN (s \o u) = 1..Len(s) + Len(u)
  BY LenProperties, ConcatProperties
<1>2. \A i \in 1..Len(s) + Len(u) : (s \o u)[i] = IF i <= Len(s) THEN s[i] ELSE u[i - Len(s)]
  BY ConcatProperties
<1>3. \A i \in 1..Len(s) : i \in 1..Len(s) + Len(u) /\ (s \o u)[i] = s[i]
  BY <1>1, <1>2
<1>4. \A i \in 1..Len(u) : Len(s) + i \in 1..Len(s) + Len(u) /\ (s \o u)[Len(s) + i] = u[i]
  BY <1>1, <1>2
<1>5. ASSUME NEW i \in 1..Len(s) + Len(u)
      PROVE  (s \o u)[i] \in Range(s) \cup Range(u)
  <2>1. CASE i <= Len(s)
    <3>1. (s \o u)[i] = s[i] /\ i \in DOMAIN s
      BY <1>1, <1>2, <2>1
    <3> QED BY <3>1 DEF Range
  <2>2. CASE ~ (i <= Len(s))
    <3>1. (s \o u)[i] = u[i - Len(s)] /\ i - Len(s) \in DOMAIN u
      BY <1>1, <1>2, <2>2
    <3> QED BY <3>1 DEF Range
  <2> QED BY <2>1, <2>2
<1>6. Range(s) \subseteq Range(s \o u) /\ Range(u) \subseteq Range(s \o u)
  BY <1>1, <1>3, <1>4 DEF Range
<1>7. Range(s \o u) \subseteq Range(s) \cup Range(u)
  BY <1>1, <1>5 DEF Range
<1> QED BY <1>6, <1>7

\* What was found in the first n lines: client_sub_protocols is never
\* written behind its end; all that was asked for is in it when that fits with
\* its commas; and there is a key exactly after a line with one.
ParsedRight(n) ==
  LET p == Parsing(request)[n]
  IN  /\ p.len <= MaxList
      /\ p.len = 0 \/ p.list # <<>>
      /\ p.len = 0 \/ p.len < Taking[n]
      /\ Taking[n] <= MaxList => p.list = Asking[n]
      /\ Range(p.list) \subseteq Range(Asking[n])
      /\ p.key = None => p.keys = {} /\ \A i \in 1..n : request[i] \notin KeyLines
      /\ p.key # None => \E i \in 1..n : request[i] \in KeyLines /\ p.key = request[i].value
      /\ OneKey => p.keys \ {p.block} = {}

\* A list of width w behind len characters, of lists that take room.
Behind(len, w, room, max) ==
  /\ len + w > max - 1 => room + w + 1 > max
  /\ len = 0 \/ len < room + w + 1
  /\ ~ (len + w > max - 1) => /\ len + (IF len > 0 THEN 1 ELSE 0) + w <= max
                              /\ len + (IF len > 0 THEN 1 ELSE 0) + w < room + w + 1
  /\ room + w + 1 <= max => room <= max

LEMMA RoomLeft ==
  ASSUME NEW len \in Nat, NEW w \in Nat, NEW room \in Nat, NEW max \in Nat,
         len = 0 \/ len < room
  PROVE  Behind(len, w, room, max) /\ room + (w + 1) = room + w + 1
<1>1. CASE len = 0
  BY <1>1 DEF Behind
<1>2. CASE len # 0 /\ len < room
  BY <1>2 DEF Behind
<1> QED BY <1>1, <1>2

\* Nothing is found in no line; and a line keeps what was found right.
LEMMA ParsedFirst ==
  ASSUME request \in Seq(RequestLine)
  PROVE  ParsedRight(0)
<1>1. Parsing(request)[0] = NoHeaders /\ Asking[0] = <<>>
  BY ParsingLines, AskingLines
<1>2. 0 <= MaxList
  <2>1. MaxList \in Nat
    BY TokensAssumption
  <2> QED BY ONLY <2>1
<1> QED BY <1>1, <1>2 DEF ParsedRight, NoHeaders, Range

LEMMA ParsedNext ==
  ASSUME request \in Seq(RequestLine), NEW k \in 1..Len(request), ParsedRight(k - 1)
  PROVE  ParsedRight(k)
<1> DEFINE p == Parsing(request)[k - 1]
           q == Parsing(request)[k]
           line == request[k]
<1>0. /\ Len(request) \in Nat /\ k - 1 \in 0..Len(request) /\ line \in RequestLine
      /\ \A i \in 1..k - 1 : i \in 1..k /\ i # k
      /\ \A i \in 1..k : i = k \/ i \in 1..k - 1
      /\ k \in DOMAIN request /\ \A i \in 1..k - 1 : i \in DOMAIN request
  BY LenProperties, ElementOfSeq
<1>1. /\ p \in Headers /\ q = ParseLine(p, line)
      /\ Asking[k - 1] \in Seq(Token) /\ Asking[k] = Asking[k - 1] \o AskedIn(line)
      /\ Taking[k - 1] \in Nat /\ Taking[k] = Taking[k - 1] + RoomOf(line)
  BY <1>0, ParsingLines, AskingLines, TakingLines
<1>2. p.list \in Seq(Token) /\ p.len \in Nat
  BY <1>1 DEF Headers
<1>3. MaxList \in Nat
  BY TokensAssumption
<1> DEFINE Found(x, n) ==
             /\ x.key = None => x.keys = {} /\ \A i \in 1..n : request[i] \notin KeyLines
             /\ x.key # None => \E i \in 1..n : request[i] \in KeyLines /\ x.key = request[i].value
             /\ OneKey => x.keys \ {x.block} = {}
           Listed(x, n) ==
             /\ x.len <= MaxList
             /\ x.len = 0 \/ x.list # <<>>
             /\ x.len = 0 \/ x.len < Taking[n]
             /\ Taking[n] <= MaxList => x.list = Asking[n]
             /\ Range(x.list) \subseteq Range(Asking[n])
<1>4. Found(p, k - 1) /\ Listed(p, k - 1)
  BY DEF ParsedRight
<1>5. CASE line \in KeyLines
  <2>1. line.name = "key" /\ line.value \in Seq(STRING) /\ line.value # None
    BY <1>5, NoneAssumption DEF KeyLines
  <2>2. AskedIn(line) = <<>> /\ RoomOf(line) = 0
    BY <2>1 DEF AskedIn, RoomOf
  <2>3. Asking[k] = Asking[k - 1] /\ Taking[k] = Taking[k - 1]
    BY <1>1, <2>2, ConcatEmptySeq
  <2> DEFINE b == <<"key", Cardinality(p.keys)>>
  <2>4. q = [p EXCEPT !.key = line.value, !.block = b, !.keys = p.keys \cup {b}]
    BY <1>1, <2>1 DEF ParseLine, KeyLine
  <2>5. /\ q.key = line.value /\ q.block = b /\ q.keys = p.keys \cup {b}
        /\ q.list = p.list /\ q.len = p.len
    <3> HIDE DEF b, p, q
    <3> QED BY <1>1, <2>4 DEF Headers
  <2>6. Listed(q, k)
    BY <1>4, <2>3, <2>5
  <2>7. OneKey => p.key = None
    <3> SUFFICES ASSUME OneKey, p.key # None PROVE FALSE
      OBVIOUS
    <3>1. PICK i \in 1..k - 1 : request[i] \in KeyLines
      BY <1>4
    <3>2. i \in DOMAIN request /\ k \in DOMAIN request /\ i # k
      BY <1>0
    <3> QED BY <1>5, <3>1, <3>2 DEF OneKey
  <2>8. Found(q, k)
    <3>1. k \in 1..k
      BY <1>0
    <3> HIDE DEF b, p, q
    <3> QED BY <1>4, <1>5, <2>1, <2>5, <2>7, <3>1
  <2> QED BY <2>6, <2>8 DEF ParsedRight
<1>6. CASE line \notin KeyLines
  <2>1. line.name # "key" /\ (line.name = "protocol" => line.value \in Seq(Token))
    BY <1>0, <1>6 DEF RequestLine, KeyLines, ProtocolLines, Other, Blank
  <2>2. q.key = p.key /\ q.block = p.block /\ q.keys = p.keys
    <3> HIDE DEF p, q
    <3> QED BY <1>1, <2>1 DEF ParseLine, ProtocolLine, Headers
  <2>3. Found(q, k)
    <3> HIDE DEF p, q
    <3> QED BY <1>0, <1>4, <1>6, <2>2
  <2>4. Listed(q, k)
    <3>1. CASE line.name # "protocol"
      <4>1. AskedIn(line) = <<>> /\ RoomOf(line) = 0
        BY <3>1 DEF AskedIn, RoomOf
      <4>2. Asking[k] = Asking[k - 1] /\ Taking[k] = Taking[k - 1]
        BY <1>1, <4>1, ConcatEmptySeq
      <4>3. q = p
        BY <1>1, <2>1, <3>1 DEF ParseLine
      <4> QED BY <1>4, <4>2, <4>3
    <3>2. CASE line.name = "protocol"
      <4> DEFINE v == line.value
                 w == ListWidth(v)
                 n == p.len + (IF p.len > 0 THEN 1 ELSE 0) + w
      <4>1. v \in Seq(Token) /\ w \in Nat
        BY <2>1, <3>2, WidthType
      <4>8. Behind(p.len, w, Taking[k - 1], MaxList) /\ Taking[k - 1] + (w + 1) = Taking[k - 1] + w + 1
        <5>1. Taking[k - 1] \in Nat /\ (p.len = 0 \/ p.len < Taking[k - 1]) /\ p.len \in Nat
          BY <1>1, <1>2, <1>4
        <5> HIDE DEF p, w, v
        <5> QED BY ONLY <1>3, <4>1, <5>1, RoomLeft, Zenon
      <4>2. Asking[k] = Asking[k - 1] \o v /\ Taking[k] = Taking[k - 1] + w + 1
        <5>1. AskedIn(line) = v /\ RoomOf(line) = w + 1
          BY <3>2 DEF AskedIn, RoomOf
        <5> HIDE DEF w, v
        <5> QED BY <1>1, <4>8, <5>1
      <4>3. Range(Asking[k]) = Range(Asking[k - 1]) \cup Range(v) /\ Range(p.list \o v) = Range(p.list) \cup Range(v)
        BY <1>1, <1>2, <4>1, <4>2, TokensOfBoth
      <4>4. q = ProtocolLine(p, v)
        BY <1>1, <3>2 DEF ParseLine
      <4>7. /\ p.len + w > MaxList - 1 => Taking[k - 1] + w + 1 > MaxList
            /\ p.len = 0 \/ p.len < Taking[k - 1] + w + 1
            /\ ~ (p.len + w > MaxList - 1) => n <= MaxList /\ n < Taking[k - 1] + w + 1
            /\ Taking[k - 1] + w + 1 <= MaxList => Taking[k - 1] <= MaxList
        BY <4>8 DEF Behind
      <4>5. CASE p.len + w > MaxList - 1
        <5>1. q = p
          BY <4>4, <4>5 DEF ProtocolLine
        <5>2. Taking[k] > MaxList /\ (p.len = 0 \/ p.len < Taking[k])
          BY <4>2, <4>5, <4>7
        <5>3. p.len = 0 \/ p.len < Taking[k]
          BY <5>2
        <5>4. ~ (Taking[k] <= MaxList)
          <6>1. Taking[k] \in Nat
            BY <1>0, TakingLines
          <6> QED BY ONLY <1>3, <5>2, <6>1
        <5> HIDE DEF p, q, v, w
        <5> QED BY <1>4, <4>3, <5>1, <5>3, <5>4
      <4>6. CASE ~ (p.len + w > MaxList - 1)
        <5>1. q.list = p.list \o v /\ q.len = n
          <6>1. q = [p EXCEPT !.list = p.list \o v, !.len = n]
            BY <4>4, <4>6 DEF ProtocolLine
          <6> HIDE DEF p, q, n, v
          <6> QED BY <1>1, <6>1 DEF Headers
        <5>2. n <= MaxList /\ (n = 0 \/ n < Taking[k]) /\ (Taking[k] <= MaxList => Taking[k - 1] <= MaxList)
          BY <4>2, <4>6, <4>7
        <5>3. n = 0 \/ p.list \o v # <<>>
          <6>1. CASE p.len # 0
            <7>1. Len(p.list) \in Nat /\ Len(p.list) # 0 /\ Len(v) \in Nat /\ Len(p.list \o v) = Len(p.list) + Len(v)
              BY <1>2, <1>4, <4>1, <6>1, LenProperties, EmptySeq, ConcatProperties
            <7> QED BY <7>1
          <6>2. CASE p.len = 0 /\ w # 0
            <7>1. v # <<>>
              BY <4>1, <6>2, EmptyWidth
            <7>2. Len(p.list) \in Nat /\ Len(v) \in Nat /\ Len(v) # 0 /\ Len(p.list \o v) = Len(p.list) + Len(v)
              BY <1>2, <4>1, <7>1, LenProperties, EmptySeq, ConcatProperties
            <7> QED BY <7>2
          <6>3. CASE p.len = 0 /\ w = 0
            BY <6>3
          <6> QED BY <6>1, <6>2, <6>3
        <5> HIDE DEF p, q, n, v, w
        <5> QED BY <1>4, <4>2, <4>3, <5>1, <5>2, <5>3
      <4> QED BY <4>5, <4>6
    <3> QED BY <3>1, <3>2
  <2> QED BY <2>3, <2>4 DEF ParsedRight
<1> QED BY <1>5, <1>6

LEMMA Parsed ==
  ASSUME request \in Seq(RequestLine)
  PROVE  \A n \in 0..Len(request) : ParsedRight(n)
<1> DEFINE S == {n \in 0..Len(request) : ParsedRight(n)}
<1>0. Len(request) \in Nat
  BY LenProperties
<1>1. 0 \in S /\ \A k \in 1..Len(request) : k - 1 \in S => k \in S
  BY <1>0, ParsedFirst, ParsedNext
<1>2. \A n \in 0..Len(request) : n \in S
  <2> HIDE DEF S
  <2> QED BY ONLY <1>0, <1>1, InductionUpTo
<1> QED BY <1>2

-----------------------------------------------------------------------------
(* The reply.                                                              *)

\* What populate_handshake makes of a request that arrived whole.
Answers(reply) ==
  LET p == Parse(request)
  IN  p.key # None /\ \E tokens \in TokensRead(p) : reply = Reply(p.key, Selected(tokens))

LEMMA RequestType ==
  ASSUME request \in Requests
  PROVE  /\ request \in Seq(RequestLine) /\ Len(request) \in Nat /\ Len(request) >= 2
         /\ DOMAIN request = 1..Len(request) /\ request # <<>>
         /\ request[Len(request)] = Blank
         /\ \A i \in 1..Len(request) - 1 : request[i] # Blank
<1>1. /\ request \in Seq(RequestLine) /\ Len(request) >= 2
      /\ request[Len(request)] = Blank /\ Blank \notin Range(Front(request))
  BY RequestsAssumption DEF RequestLine, Last
<1>2. Len(request) \in Nat /\ DOMAIN request = 1..Len(request)
  BY <1>1, LenProperties
<1>3. request # <<>>
  BY <1>1
<1>4. \A i \in 1..Len(request) - 1 : request[i] # Blank
  BY <1>1, <1>3, FrontElements DEF Range
<1> QED BY <1>1, <1>2, <1>3, <1>4

\* The subprotocol chosen is the first of the list that is supported.
LEMMA SelectedParts ==
  ASSUME NEW tokens \in Seq(Token)
  PROVE  LET hits == {i \in DOMAIN tokens : tokens[i] \in Range(Supported)}
         IN  /\ Selected(tokens) \in Token \cup {None}
             /\ Selected(tokens) = None <=> hits = {}
             /\ Selected(tokens) # None => Selected(tokens) \in Range(tokens) \cap Range(Supported)
             /\ hits # {} => \E i \in hits : /\ Selected(tokens) = tokens[i]
                                             /\ \A j \in hits : i <= j
<1> DEFINE hits == {i \in DOMAIN tokens : tokens[i] \in Range(Supported)}
<1>1. Selected(tokens) = IF hits = {} THEN None ELSE tokens[Min(hits)]
  BY DEF Selected
<1>2. /\ hits \in SUBSET Nat /\ \A i \in DOMAIN tokens : tokens[i] \in Token /\ tokens[i] # None
  <2>1. DOMAIN tokens = 1..Len(tokens) /\ Len(tokens) \in Nat /\ \A i \in 1..Len(tokens) : tokens[i] \in Token
    BY LenProperties, ElementOfSeq
  <2> QED BY <2>1, NoneAssumption
<1>3. \A i \in hits : i \in DOMAIN tokens /\ tokens[i] \in Range(Supported) /\ tokens[i] \in Range(tokens)
  BY DEF Range
<1> HIDE DEF hits
<1>4. CASE hits = {}
  BY <1>1, <1>4 DEF hits
<1>5. CASE hits # {}
  <2>1. Min(hits) \in hits /\ \A j \in hits : Min(hits) <= j
    BY <1>2, <1>5, MinOfNats
  <2>2. Selected(tokens) = tokens[Min(hits)]
    BY <1>1, <1>5
  <2> QED BY <1>2, <1>3, <1>5, <2>1, <2>2 DEF hits
<1> QED BY <1>4, <1>5

\* What ReplyAnswersRequest and TypeOK say of a reply.
Right(reply) ==
  /\ reply \in {Reply(k, t) : k \in {l.value : l \in Range(request)}, t \in Token \cup {None}}
  /\ reply.accept \in {<<"accept", k>> : k \in Keys}
  /\ Room <= MaxList =>
       LET hits == {i \in DOMAIN Asked : Asked[i] \in Range(Supported)}
       IN  /\ reply.protocol = None <=> hits = {}
           /\ hits # {} => \E i \in hits : /\ reply.protocol = Asked[i]
                                           /\ \A j \in hits : i <= j
  /\ reply.protocol # None => reply.protocol \in Range(Asked) \cap Range(Supported)
  /\ reply # None

LEMMA AnswersRight ==
  ASSUME request \in Requests, NEW reply, Answers(reply)
  PROVE  Right(reply)
<1> DEFINE p == Parse(request)
<1>0. request \in Seq(RequestLine) /\ Len(request) \in 0..Len(request) /\ DOMAIN request = 1..Len(request)
  BY RequestType
<1>1. ParsedRight(Len(request)) /\ p = Parsing(request)[Len(request)] /\ p \in Headers /\ Asked \in Seq(Token) /\ Room \in Nat
  BY <1>0, Parsed, ParsingLines, AskingLines, TakingLines DEF Parse, Asked, Room
<1>2. PICK tokens \in TokensRead(p) : reply = Reply(p.key, Selected(tokens))
  BY DEF Answers
<1>3. /\ p.key # None /\ p.list \in Seq(Token) /\ p.len \in Nat /\ MaxList \in Nat /\ MaxList # 0
      /\ p.len = 0 \/ p.list # <<>>
      /\ p.len = 0 \/ p.len < Room
      /\ Room <= MaxList => p.list = Asked
      /\ Range(p.list) \subseteq Range(Asked)
  BY <1>1, TokensAssumption DEF Answers, ParsedRight, Headers, Asked, Room
<1>4. PICK i \in 1..Len(request) : request[i] \in KeyLines /\ p.key = request[i].value
  BY <1>1, <1>3 DEF ParsedRight
<1> HIDE DEF p
<1>5. /\ p.key \in Keys /\ p.key \in {l.value : l \in Range(request)} /\ p.key \in Seq(STRING)
  <2>1. request[i] \in Range(request) /\ request[i].name = "key" /\ request[i].value \in Seq(STRING)
    BY <1>0, <1>4 DEF Range, KeyLines
  <2> QED BY <1>4, <2>1 DEF Keys
<1>6. tokens \in Seq(Token) /\ Range(tokens) \subseteq Range(Asked) /\ (Room <= MaxList => tokens = Asked)
  <2>1. CASE p.len < MaxList
    BY <1>2, <1>3, <2>1 DEF TokensRead
  <2>2. CASE ~ (p.len < MaxList)
    <3>1. p.len # 0 /\ ~ (Room <= MaxList)
      BY <1>1, <1>3, <2>2
    <3>2. Front(p.list) \in Seq(Token) /\ Range(Front(p.list)) \subseteq Range(p.list)
      BY <1>3, <3>1, TokensOfFront
    <3> QED BY <1>2, <1>3, <2>2, <3>1, <3>2 DEF TokensRead
  <2> QED BY <2>1, <2>2
<1> DEFINE t == Selected(tokens)
<1>7. reply.accept = <<"accept", p.key>> /\ reply.protocol = t
  BY <1>2 DEF Reply
<1>8. t \in Token \cup {None} /\ (t # None => t \in Range(tokens) \cap Range(Supported))
  BY <1>6, SelectedParts
<1>9. Room <= MaxList =>
       LET hits == {j \in DOMAIN Asked : Asked[j] \in Range(Supported)}
       IN  /\ t = None <=> hits = {}
           /\ hits # {} => \E j \in hits : t = Asked[j] /\ \A l \in hits : j <= l
  BY <1>6, SelectedParts
<1> HIDE DEF t
<1>10. reply # None
  <2>1. reply \in Replies
    BY <1>2, <1>5, <1>8 DEF Reply, Replies, t
  <2> QED BY <2>1, NoneAssumption
<1>11. reply \in {Reply(k, u) : k \in {l.value : l \in Range(request)}, u \in Token \cup {None}}
  BY <1>2, <1>5, <1>8 DEF t
<1>12. reply.accept \in {<<"accept", k>> : k \in Keys}
  BY <1>5, <1>7
<1>13. reply.protocol # None => reply.protocol \in Range(Asked) \cap Range(Supported)
  BY <1>6, <1>7, <1>8
<1> QED BY <1>7, <1>9, <1>10, <1>11, <1>12, <1>13 DEF Right

\* A read has the end of the request only when it is the whole request; and
\* nothing is left to read only then.
LEMMA PartOfRequest ==
  ASSUME request \in Requests, unread = request, NEW n \in Nat, NEW inside \in BOOLEAN,
         n + (IF inside THEN 1 ELSE 0) \in 1..Len(unread)
  PROVE  /\ Terminated(Part(n, inside)) => Part(n, inside) = request
         /\ Rest(n, inside) = <<>> => Part(n, inside) = request /\ Terminated(request)
<1> DEFINE len == Len(request)
           start == SubSeq(request, 1, n)
<1>0. /\ request \in Seq(RequestLine) /\ len \in Nat /\ len >= 2 /\ DOMAIN request = 1..len
      /\ request[len] = Blank /\ \A i \in 1..len - 1 : request[i] # Blank
      /\ \A i \in 1..len : request[i] \in RequestLine
  BY RequestType, ElementOfSeq
<1>1. n <= len /\ n \in Int /\ 1 \in Int /\ (IF 1 <= n THEN n - 1 + 1 ELSE 0) = n /\ \A i \in 1..n : i \in 1..n - 1 + 1 /\ 1 + i - 1 = i
  <2>1. CASE inside
    BY <2>1, <1>0
  <2>2. CASE ~ inside
    BY <2>2, <1>0
  <2> QED BY <2>1, <2>2
<1>2. start \in Seq(RequestLine) /\ Len(start) = n /\ \A i \in 1..n : start[i] = request[i]
  <2>1. \A i \in 1..n : request[i] \in RequestLine
    BY <1>0, <1>1
  <2>2. /\ start \in Seq(RequestLine)
        /\ Len(start) = IF 1 <= n THEN n - 1 + 1 ELSE 0
        /\ \A i \in 1..n - 1 + 1 : start[i] = request[1 + i - 1]
    BY ONLY <1>1, <2>1, SubSeqProperties
  <2> HIDE DEF start
  <2> QED BY <1>1, <2>2
<1> HIDE DEF start
<1>3. DOMAIN start = 1..n
  BY <1>2, LenProperties
<1>4. Other # Blank /\ Other \in RequestLine
  BY DEF Other, Blank, RequestLine
<1>5. CASE inside
  <2>1. Part(n, inside) = start \o <<Other>>
    BY <1>5 DEF Part, start
  <2>2. n + 1 \in 1..len /\ \A i \in 1..n : start[i] # Blank
    BY <1>0, <1>1, <1>2, <1>5
  <2>3. <<Other>> \in Seq(RequestLine) /\ Len(<<Other>>) = 1 /\ <<Other>>[1] = Other
    BY <1>4
  <2>4. /\ DOMAIN (start \o <<Other>>) = 1..n + 1
        /\ \A i \in 1..n + 1 : (start \o <<Other>>)[i] = IF i <= n THEN start[i] ELSE <<Other>>[i - n]
    <3> DEFINE u == <<Other>>
    <3>1. u \in Seq(RequestLine) /\ Len(u) = 1
      BY <2>3
    <3> HIDE DEF u
    <3>2. /\ start \o u \in Seq(RequestLine) /\ Len(start \o u) = Len(start) + Len(u)
          /\ \A i \in 1..Len(start) + Len(u) : (start \o u)[i] = IF i <= Len(start) THEN start[i] ELSE u[i - Len(start)]
      BY ONLY <1>2, <3>1, ConcatProperties
    <3>3. DOMAIN (start \o u) = 1..Len(start \o u)
      BY ONLY <3>2, LenProperties
    <3> QED BY <1>2, <3>1, <3>2, <3>3 DEF u
  <2>5. ~ Terminated(Part(n, inside))
    <3> SUFFICES ASSUME NEW i \in 1..n + 1 PROVE (start \o <<Other>>)[i] # Blank
      BY <2>1, <2>4 DEF Terminated
    <3>1. CASE i <= n
      BY <2>2, <2>4, <3>1
    <3>2. CASE ~ (i <= n)
      <4>1. i - n = 1
        BY <3>2
      <4> QED BY <1>4, <2>3, <2>4, <3>2, <4>1
    <3> QED BY <3>1, <3>2
  <2>6. Rest(n, inside) # <<>>
    <3> DEFINE u == SubSeq(request, n + 2, len)
               o == <<Other>>
    <3>1. u \in Seq(RequestLine)
      <4>1. n + 2 \in Int /\ len \in Int /\ \A i \in n + 2..len : request[i] \in RequestLine
        BY <1>0
      <4> QED BY ONLY <4>1, SubSeqProperties
    <3>2. Rest(n, inside) = o \o u
      BY <1>5 DEF Rest
    <3>3. o \in Seq(RequestLine) /\ Len(o) = 1
      BY <2>3
    <3> HIDE DEF u, o
    <3>4. Len(o \o u) = Len(o) + Len(u) /\ Len(u) \in Nat
      BY <3>1, <3>3, ConcatProperties, LenProperties
    <3> QED BY <3>2, <3>3, <3>4
  <2> QED BY <2>5, <2>6
<1>6. CASE ~ inside /\ n # len
  <2>0. n < len /\ n + 1 <= len /\ len - (n + 1) + 1 # 0 /\ \A i \in 1..n : i \in 1..len - 1
    <3>1. n \in Nat /\ len \in Nat /\ n <= len /\ n # len
      BY <1>0, <1>1, <1>6
    <3> HIDE DEF len
    <3> QED BY ONLY <3>1, SMT
  <2>1. \A i \in 1..n : start[i] # Blank
    BY <1>0, <1>2, <2>0
  <2>2. Part(n, inside) = start
    <3>1. Part(n, inside) = start \o <<>>
      BY <1>6 DEF Part, start
    <3> QED BY <1>2, <3>1, ConcatEmptySeq
  <2>3. ~ Terminated(Part(n, inside))
    BY <1>3, <2>1, <2>2 DEF Terminated
  <2>4. Len(Rest(n, inside)) # 0
    <3> DEFINE u == SubSeq(request, n + 1, len)
    <3>1. n + 1 \in Int /\ len \in Int /\ \A i \in n + 1..len : request[i] \in RequestLine
      BY <1>0
    <3>2. Len(u) = IF n + 1 <= len THEN len - (n + 1) + 1 ELSE 0
      BY ONLY <3>1, SubSeqProperties
    <3>3. Rest(n, inside) = u
      BY <1>6 DEF Rest
    <3> HIDE DEF u
    <3>4. Len(u) = len - (n + 1) + 1
      BY <2>0, <3>2
    <3> QED BY <2>0, <3>3, <3>4
  <2>5. Len(<<>>) = 0
    OBVIOUS
  <2> QED BY <2>3, <2>4, <2>5
<1>7. CASE ~ inside /\ n = len
  <2>1. Part(n, inside) = start
    <3>1. Part(n, inside) = start \o <<>>
      BY <1>7 DEF Part, start
    <3> QED BY <1>2, <3>1, ConcatEmptySeq
  <2>2. start = request
    <3>1. start = [i \in 1..n |-> start[i]] /\ request = [i \in 1..n |-> request[i]]
      BY <1>0, <1>2, <1>3, <1>7
    <3> QED BY <1>2, <3>1
  <2>3. Terminated(request)
    BY <1>0 DEF Terminated
  <2> QED BY <2>1, <2>2, <2>3
<1> QED BY <1>5, <1>6, <1>7

-----------------------------------------------------------------------------
(* The invariant.                                                          *)

\* As long as the handshake is under way nothing of the request was read; a
\* reply answers the whole of it, a refusal had only a part of it or no key;
\* and of a request with one key only the reply is still allocated.
HInv ==
  /\ request \in Requests /\ IInv
  /\ host \in {"open", "closed"} /\ result \in {0, -1}
  /\ flags = {"CONNECTING"} /\ host = "open" => unread = request
  /\ result = -1 => unread # <<>> \/ Keys = {}
  /\ \A reply \in {out_data, sent} \ {None} : Answers(reply)
  /\ OneKey => heap = IF out_data = None THEN {} ELSE {OutBlock}

LEMMA InitHInv == Init => HInv
BY RequestType DEF Init, HInv, IInv

LEMMA ReadHInv ==
  ASSUME HInv, NEW n \in 0..Len(unread), NEW inside \in BOOLEAN, HostReads(n, inside)
  PROVE  HInv'
<1> DEFINE read == Part(n, inside)
<1>1. /\ flags = {"CONNECTING"} /\ host = "open" /\ unread = request /\ out_data = None /\ sent = None
      /\ request \in Requests /\ UNCHANGED <<request, sent>> /\ unread' = Rest(n, inside)
      /\ n \in Nat /\ n + (IF inside THEN 1 ELSE 0) \in 1..Len(unread)
  <2>1. Len(request) \in Nat /\ request \in Requests
    BY RequestType DEF HInv
  <2>2. flags = {"CONNECTING"} /\ host = "open"
    BY DEF HInv, IInv, HostReads
  <2>3. unread = request
    BY <2>2 DEF HInv
  <2> QED BY <2>1, <2>2, <2>3 DEF HInv, IInv, HostReads
<1>2. /\ Terminated(read) => read = request
      /\ unread' = <<>> => read = request /\ Terminated(request)
  BY <1>1, PartOfRequest
<1>3. IInv'
  BY ReadStep DEF HInv
<1>4. request' \in Requests /\ host' \in {"open", "closed"} /\ (Keys' = Keys) /\ (OneKey <=> OneKey')
  BY <1>1 DEF HostReads, Keys, OneKey
<1>5. CASE /\ ~ Terminated(read) \/ Parse(read).key = None
           /\ result' = -1
           /\ UNCHANGED <<flags, out_data, heap>>
  <2>1. unread' # <<>> \/ Keys = {}
    <3> SUFFICES ASSUME unread' = <<>> PROVE Keys = {}
      OBVIOUS
    <3>1. Parse(request).key = None
      BY <1>2, <1>5
    <3>2. request \in Seq(RequestLine) /\ DOMAIN request = 1..Len(request) /\ Len(request) \in 0..Len(request)
      BY <1>1, RequestType
    <3>3. \A i \in 1..Len(request) : request[i] \notin KeyLines
      BY <3>1, <3>2, Parsed DEF Parse, ParsedRight
    <3>4. \A line \in RequestLine : line.name = "key" => line \in KeyLines
      BY DEF RequestLine, KeyLines, ProtocolLines, Other, Blank
    <3>5. \A i \in DOMAIN request : request[i].name # "key"
      BY <3>2, <3>3, <3>4, ElementOfSeq
    <3> QED BY <3>5 DEF Keys, Range
  <2>2. host' = "closed"
    BY <1>5 DEF HostReads
  <2>3. OneKey' => heap' = IF out_data' = None THEN {} ELSE {OutBlock}
    BY <1>4, <1>5 DEF HInv
  <2>4. {out_data', sent'} \ {None} = {}
    BY <1>1, <1>5
  <2> QED BY <1>3, <1>4, <1>5, <2>1, <2>2, <2>3, <2>4 DEF HInv
<1>6. CASE /\ Terminated(read) /\ Parse(read).key # None
           /\ \E tokens \in TokensRead(Parse(read)) :
                out_data' = Reply(Parse(read).key, Selected(tokens))
           /\ heap' = heap \cup (Parse(read).keys \ {Parse(read).block}) \cup {OutBlock}
           /\ flags' = {"CONNECTED"}
           /\ result' = 0
  <2>1. read = request
    BY <1>2, <1>6
  <2>2. Answers(out_data')
    BY <1>6, <2>1 DEF Answers
  <2>3. Right(out_data')
    BY <1>1, <2>2, AnswersRight
  <2>4. out_data' # None
    BY <2>3 DEF Right
  <2>5. \A reply \in {out_data', sent'} \ {None} : Answers(reply)'
    <3>1. \A reply : Answers(reply)' <=> Answers(reply)
      BY <1>1 DEF Answers
    <3> QED BY <1>1, <2>2, <3>1
  <2>6. OneKey => heap' = {OutBlock}
    <3> SUFFICES ASSUME OneKey PROVE heap' = {OutBlock}
      OBVIOUS
    <3>1. request \in Seq(RequestLine) /\ Len(request) \in 0..Len(request)
      BY <1>1, RequestType
    <3>2. Parse(request).keys \ {Parse(request).block} = {}
      BY <3>1, Parsed DEF Parse, ParsedRight
    <3>3. heap = {}
      BY <1>1 DEF HInv
    <3> QED BY <1>6, <2>1, <3>2, <3>3
  <2>7. flags' # {"CONNECTING"}
    BY <1>6
  <2> QED BY <1>3, <1>4, <1>6, <2>4, <2>5, <2>6, <2>7 DEF HInv
<1> QED BY <1>5, <1>6 DEF HostReads, PopulateHandshake

LEMMA WriteHInv ==
  ASSUME HInv, HostWrites
  PROVE  HInv'
<1>1. /\ UNCHANGED <<request, unread, flags, result>> /\ out_data' = None /\ heap' = heap \ {OutBlock}
      /\ host = "open" /\ out_data # None
      /\ \/ sent' = out_data /\ UNCHANGED host
         \/ host' = "closed" /\ UNCHANGED sent
  BY DEF HostWrites
<1>2. IInv' /\ flags # {"CONNECTING"}
  BY <1>1, WriteStep DEF HInv, IInv
<1>3. \A reply \in {out_data', sent'} \ {None} : Answers(reply)'
  <2>1. \A reply : Answers(reply)' <=> Answers(reply)
    BY <1>1 DEF Answers
  <2>2. {out_data', sent'} \ {None} \subseteq {out_data, sent} \ {None}
    BY <1>1
  <2> QED BY <2>1, <2>2 DEF HInv
<1>4. OneKey' => heap' = {}
  BY <1>1 DEF HInv, OneKey
<1>5. Keys' = Keys
  BY <1>1 DEF Keys
<1> QED BY <1>1, <1>2, <1>3, <1>4, <1>5 DEF HInv

LEMMA HandshakeInvariant == Spec => []HInv
<1>1. HInv /\ [Next]_vars => HInv'
  <2> SUFFICES ASSUME HInv, [Next]_vars PROVE HInv'
    OBVIOUS
  <2>1. CASE \E n \in 0..Len(unread), inside \in BOOLEAN : HostReads(n, inside)
    BY <2>1, ReadHInv
  <2>2. CASE HostWrites
    BY <2>2, WriteHInv
  <2>3. CASE UNCHANGED vars
    BY <2>3 DEF HInv, IInv, vars, Answers, Keys, OneKey
  <2> QED BY <2>1, <2>2, <2>3 DEF Next
<1> QED BY <1>1, InitHInv, PTL DEF Spec

\* A reply is made from the whole request and nothing else, and chooses the
\* client's first subprotocol of all it named; only a request that was cut or
\* has no key is refused.
THEOREM RepliesAnswer == Spec => []ReplyAnswersRequest
<1>1. HInv => ReplyAnswersRequest
  <2> SUFFICES ASSUME HInv PROVE ReplyAnswersRequest
    OBVIOUS
  <2>1. ASSUME NEW reply \in {out_data, sent} \ {None} PROVE Right(reply)
    BY <2>1, AnswersRight DEF HInv
  <2>2. result = -1 => unread # <<>> \/ Keys = {}
    BY DEF HInv
  <2> QED BY <2>1, <2>2 DEF ReplyAnswersRequest, Right
<1> QED BY <1>1, HandshakeInvariant, PTL

\* The list of subprotocols stays in its array whatever the request holds,
\* and of a request with one key every block is freed.
THEOREM HandshakeMemory == Spec => []MemoryRight
<1>1. HInv => MemoryRight
  <2> SUFFICES ASSUME HInv PROVE MemoryRight
    OBVIOUS
  <2>1. ASSUME NEW reply \in {out_data, sent} \ {None} PROVE Right(reply)
    BY <2>1, AnswersRight DEF HInv
  <2>2. TypeOK
    BY <2>1 DEF HInv, IInv, TypeOK, Right
  <2>3. \A n \in DOMAIN request : Parsing(request)[n].len <= MaxList
    <3>1. request \in Seq(RequestLine) /\ \A n \in DOMAIN request : n \in 0..Len(request)
      BY RequestType DEF HInv
    <3> QED BY <3>1, Parsed DEF ParsedRight
  <2> QED BY <2>2, <2>3 DEF HInv, MemoryRight
<1> QED BY <1>1, HandshakeInvariant, PTL
=============================================================================
