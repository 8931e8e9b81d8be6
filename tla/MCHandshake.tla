---------------------------- MODULE MCHandshake ----------------------------
(* Requests of up to four headers in any order; lists that fit, that fill  *)
(* the buffer with their comma, and that do not fit.                       *)
EXTENDS Handshake

Line(name, value) == [name |-> name, value |-> value]
Lines == {Line("key", <<"k1">>), Line("key", <<"k2">>), Line("other", None)} \cup
         {Line("protocol", l) : l \in {<<"chat">>, <<"v3", " chat">>, <<"v2">>, <<"v3", "v2">>}}
MCRequests == {Append(r, Line("blank", None)) : r \in SeqOf(Lines, 4) \ {<<>>}}
MCWidth == [t \in {"chat", " chat", "v2", "v3"} |-> IF t = "chat" THEN 2 ELSE IF t = " chat" THEN 3 ELSE 1]
MCSupported == <<"v2", "chat", "", "">>
=============================================================================
