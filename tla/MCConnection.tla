---------------------------- MODULE MCConnection ----------------------------
(* Frames, payloads and calls for the runs of Connection.  The byte C0     *)
(* never appears in UTF-8.                                                 *)
EXTENDS Connection

F(b0, data) == [b0 |-> b0, data |-> data]

\* Every kind of close frame: empty, one byte, legal and illegal codes, a
\* reason in and out of UTF-8, too long; and the data a closing connection
\* may still receive, or be answered with an echo.
Closes ==
  {F(136, <<>>), F(136, <<3>>), F(136, <<3, 232>>), F(136, <<3, 236>>),
   F(136, <<3, 243>>), F(136, <<3, 244>>), F(136, <<11, 183>>), F(136, <<11, 184, 97>>), F(136, <<3, 233, 192>>),
   F(136, <<3, 232, 97, 0, 192>>), F(136, <<3, 232, 97, 97, 97, 97>>)}
ClosingFrames ==
  Closes \cup {F(137, <<97>>), F(129, <<97>>), F(129, <<192>>), F(1, <<97>>), F(128, <<97>>),
                  F(130, <<>>), F(131, <<>>)}

\* A peer that keeps to the protocol.
LegalFrames == {F(129, <<97>>), F(137, <<>>), F(136, <<3, 232>>)}

CloseCalls == {"close", "text"}
AllCalls == ApiCalls
NoData == {}
OneByte == {<<97>>}
AppCloses0 == {[code |-> 1000, reason |-> <<>>], [code |-> 4000, reason |-> <<97, 0, 98>>]}
=============================================================================
