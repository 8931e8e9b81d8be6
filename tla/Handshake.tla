------------------------------ MODULE Handshake ------------------------------
(***************************************************************************)
(* libwebsock_populate_handshake and the part of the echo server that      *)
(* calls it: the upgrade request arrives in reads that end anywhere, each  *)
(* read is parsed on its own, and the reply is put in out_data.            *)
(*                                                                         *)
(* A request is a sequence of lines; a header is named as the code expects *)
(* it ("Sec-WebSocket-Key: " and so on) or it is another line.  A list of  *)
(* subprotocols is a sequence of tokens, " chat" being another token than  *)
(* "chat": the code cuts at the comma and trims nothing.  The accept value *)
(* stands for the Base64 of the SHA-1 of the key (modules Base64, Sha1).   *)
(***************************************************************************)
EXTENDS Integers, Sequences, SequencesExt, FiniteSetsExt

CONSTANTS
  Requests,   \* the requests the client may send
  Width,      \* the tokens and how many characters each has
  Supported,  \* client_state.supported_sub_protocols, "" where nothing is set
  MaxList,    \* MAX_SUB_PROTOCOL_LENGTH: 1024
  None

Token == DOMAIN Width
Other == [name |-> "other", value |-> None]
Blank == [name |-> "blank", value |-> None]
KeyLines == [name : {"key"}, value : Seq(STRING)]
ProtocolLines == [name : {"protocol"}, value : Seq(Token)]
Replies == [accept : {"accept"} \X Seq(STRING), protocol : Token \cup {None}]

ASSUME RequestsAssumption ==
  \A r \in Requests :
    /\ r \in Seq(KeyLines \cup ProtocolLines \cup {Other, Blank})
    /\ Len(r) >= 2 /\ Last(r) = Blank /\ Blank \notin Range(Front(r))
ASSUME TokensAssumption ==
  /\ MaxList \in Nat \ {0}
  /\ \A t \in Token : t # "" /\ Width[t] \in Nat \ {0}
ASSUME NoneAssumption ==
  None \notin Token \cup Seq(STRING) \cup Replies

VARIABLES
  request,   \* what the client sends
  unread,    \* the lines of it the host has not read; the first may be a part of one
  flags,     \* client_state.flags
  out_data,  \* the reply not written yet, or None
  heap,      \* the blocks allocated for this and not freed
  result,    \* what populate_handshake returned last
  host,      \* "open" or "closed"
  sent       \* history: the reply written, or None

vars == <<request, unread, flags, out_data, heap, result, host, sent>>

Init == /\ request \in Requests
        /\ unread = request
        /\ flags = {"CONNECTING"}
        /\ out_data = None
        /\ heap = {}
        /\ result = 0
        /\ host = "open"
        /\ sent = None

-----------------------------------------------------------------------------
(* Parsing one read.                                                       *)

\* strstr for the two ends of a header, either of which includes the end of
\* the line before the blank one.
Terminated(read) == \E i \in DOMAIN read : i > 1 /\ read[i] = Blank

\* The characters of tokens joined by commas.
ListWidth(tokens) ==
  LET width[n \in 0..Len(tokens)] ==
        IF n = 0 THEN 0 ELSE width[n - 1] + Width[tokens[n]] + IF n = 1 THEN 0 ELSE 1
  IN  width[Len(tokens)]

\* key and its block, the blocks of all keys met, and client_sub_protocols
\* with len_subprotocol.
NoHeaders == [key |-> None, block |-> None, keys |-> {}, list |-> <<>>, len |-> 0]

KeyLine(p, k) ==
  LET b == <<"key", Cardinality(p.keys)>>
  IN  [p EXCEPT !.key = k, !.block = b, !.keys = @ \cup {b}]

\* (As in Connection, an operator named after another with a suffix is a
\* plausible error in it.)
\* A list that does not fit behind what there is is left out whole; the test
\* does not count the comma.
ProtocolLine(p, tokens) ==
  LET comma == IF p.len > 0 THEN 1 ELSE 0
  IN  IF p.len + ListWidth(tokens) > MaxList - 1 THEN p
      ELSE [p EXCEPT !.list = @ \o tokens, !.len = @ + comma + ListWidth(tokens)]

ParseLine(p, line) ==
  IF line.name = "key" THEN KeyLine(p, line.value)
  ELSE IF line.name = "protocol" THEN ProtocolLine(p, line.value)
  ELSE p

\* The loop over the lines of the read, after each of them; strtok passes over
\* the blank one.
Parsing(read) ==
  LET p[n \in 0..Len(read)] == IF n = 0 THEN NoHeaders ELSE ParseLine(p[n - 1], read[n])
  IN  p
Parse(read) == Parsing(read)[Len(read)]

-----------------------------------------------------------------------------
(* The reply.                                                              *)

OutBlock == <<"out_data", 0>>

SelectedBySupported(tokens) ==
  LET hits == {j \in DOMAIN Supported : Supported[j] \in Range(tokens)}
  IN  IF hits = {} THEN None ELSE Supported[Min(hits)]

\* get_selected_subprotocol: the client's first choice that is supported.
Selected(tokens) ==
  LET hits == {i \in DOMAIN tokens : tokens[i] \in Range(Supported)}
  IN  IF hits = {} THEN None ELSE tokens[Min(hits)]

\* A list that fills client_sub_protocols to its last byte is not terminated:
\* its last token goes on with whatever lies behind the array, and may be
\* read as itself or as a longer one.
TokensRead(p) == IF p.len < MaxList THEN {p.list} ELSE {p.list, Front(p.list)}

Reply(key, protocol) == [accept |-> <<"accept", key>>, protocol |-> protocol]

\* libwebsock_populate_handshake, all of it.
PopulateHandshakeFlagsFirst(read) ==
  LET p == Parse(read)
  IN  \/ /\ ~ Terminated(read)
         /\ result' = -1
         /\ UNCHANGED <<flags, out_data, heap>>
      \/ /\ Terminated(read) /\ p.key = None
         /\ result' = -1
         /\ flags' = {"CONNECTED"}
         /\ UNCHANGED <<out_data, heap>>
      \/ /\ Terminated(read) /\ p.key # None
         /\ \E tokens \in TokensRead(p) : out_data' = Reply(p.key, Selected(tokens))
         /\ heap' = heap \cup (p.keys \ {p.block}) \cup {OutBlock}
         /\ flags' = {"CONNECTED"}
         /\ result' = 0

PopulateHandshakeKeepingKey(read) ==
  LET p == Parse(read)
  IN  \/ /\ ~ Terminated(read) \/ p.key = None
         /\ result' = -1
         /\ UNCHANGED <<flags, out_data, heap>>
      \/ /\ Terminated(read) /\ p.key # None
         /\ \E tokens \in TokensRead(p) : out_data' = Reply(p.key, Selected(tokens))
         /\ heap' = heap \cup p.keys \cup {OutBlock}
         /\ flags' = {"CONNECTED"}
         /\ result' = 0

\* The copy of the read and the buffer of the accept value are freed before
\* it returns; of the keys only the last is.
PopulateHandshake(read) ==
  LET p == Parse(read)
  IN  \/ /\ ~ Terminated(read) \/ p.key = None
         /\ result' = -1
         /\ UNCHANGED <<flags, out_data, heap>>
      \/ /\ Terminated(read) /\ p.key # None
         /\ \E tokens \in TokensRead(p) : out_data' = Reply(p.key, Selected(tokens))
         /\ heap' = heap \cup (p.keys \ {p.block}) \cup {OutBlock}
         /\ flags' = {"CONNECTED"}
         /\ result' = 0

-----------------------------------------------------------------------------
(* The echo server.                                                        *)

\* What is read when the read ends after n lines or inside the next one, and
\* what is left: a part of a line is no header and no end of one.
Part(n, inside) == SubSeq(unread, 1, n) \o (IF inside THEN <<Other>> ELSE <<>>)
Rest(n, inside) ==
  IF inside THEN <<Other>> \o SubSeq(unread, n + 2, Len(unread))
            ELSE SubSeq(unread, n + 1, Len(unread))

\* read_from_client and do_processing: a handshake that failed closes the
\* connection.
HostReads(n, inside) ==
  /\ host = "open" /\ "CONNECTING" \in flags
  /\ n + (IF inside THEN 1 ELSE 0) \in 1..Len(unread)
  /\ unread' = Rest(n, inside)
  /\ PopulateHandshake(Part(n, inside))
  /\ host' = IF result' = -1 THEN "closed" ELSE "open"
  /\ UNCHANGED <<request, sent>>

\* write_to_client: out_data is freed whether the write succeeds or not.
HostWrites ==
  /\ host = "open" /\ out_data # None
  /\ \/ sent' = out_data /\ UNCHANGED host
     \/ host' = "closed" /\ UNCHANGED sent
  /\ out_data' = None
  /\ heap' = heap \ {OutBlock}
  /\ UNCHANGED <<request, unread, flags, result>>

Next == \/ \E n \in 0..Len(unread), inside \in BOOLEAN : HostReads(n, inside)
        \/ HostWrites

Spec == Init /\ [][Next]_vars

-----------------------------------------------------------------------------
(* The properties.                                                         *)

TypeOK ==
  /\ request \in Requests
  /\ flags \in {{"CONNECTING"}, {"CONNECTED"}}
  /\ {out_data, sent} \subseteq
       {None} \cup {Reply(k, t) : k \in {l.value : l \in Range(request)}, t \in Token \cup {None}}
  /\ result \in {0, -1}
  /\ host \in {"open", "closed"}

\* What the client asked for in the lines of its request, and the characters
\* its lists take with a comma behind each.
Keys == {l.value : l \in {x \in Range(request) : x.name = "key"}}
AskedIn(line) == IF line.name = "protocol" THEN line.value ELSE <<>>
RoomOf(line) == IF line.name = "protocol" THEN ListWidth(line.value) + 1 ELSE 0
Asking ==
  LET asked[n \in 0..Len(request)] ==
        IF n = 0 THEN <<>> ELSE asked[n - 1] \o AskedIn(request[n])
  IN  asked
Taking ==
  LET room[n \in 0..Len(request)] ==
        IF n = 0 THEN 0 ELSE room[n - 1] + RoomOf(request[n])
  IN  room
Asked == Asking[Len(request)]
Room == Taking[Len(request)]

\* A reply answers the request as it was sent and not a part of it, wherever
\* the reads ended: the key is the client's, and the subprotocol is the first
\* of all it asked for that is supported, from however many headers, as long
\* as the lists fit in the buffer together; it is never one that was not asked
\* for.  And only a request that was cut or has no key is refused.
ReplyAnswersRequest ==
  /\ \A reply \in {out_data, sent} \ {None} :
       /\ reply.accept \in {<<"accept", k>> : k \in Keys}
       /\ Room <= MaxList =>
            LET hits == {i \in DOMAIN Asked : Asked[i] \in Range(Supported)}
            IN  /\ reply.protocol = None <=> hits = {}
                /\ hits # {} => \E i \in hits : /\ reply.protocol = Asked[i]
                                                /\ \A j \in hits : i <= j
       /\ reply.protocol # None => reply.protocol \in Range(Asked) \cap Range(Supported)
  /\ result = -1 => unread # <<>> \/ Keys = {}

\* A handshake that failed leaves nothing behind: the connection is as it was
\* and nothing waits to be written.
FailureLeavesNothing ==
  result = -1 => flags = {"CONNECTING"} /\ out_data = None /\ sent = None

\* client_sub_protocols is never written past its end, whatever lists come
\* one after the other, and every block allocated for a request with one key
\* at most has an owner that will free it: "Valgrind clean" (README.md).
OneKey == \A i, j \in DOMAIN request : {request[i], request[j]} \subseteq KeyLines => i = j
MemoryRight ==
  /\ TypeOK
  /\ \A n \in DOMAIN request : Parsing(request)[n].len <= MaxList
  /\ OneKey => heap = IF out_data = None THEN {} ELSE {OutBlock}
=============================================================================
