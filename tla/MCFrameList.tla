---------------------------- MODULE MCFrameList ----------------------------
(* Fragments, control frames between them, and every way into              *)
(* libwebsock_error and out of a closing handshake; the application sends, *)
(* and leaves the closing to the library.  C3 A9 is one character, so that *)
(* text is split inside it; C0 never appears in UTF-8.                     *)
EXTENDS FrameList

F(b0, data) == [b0 |-> b0, data |-> data]

MCFrames ==
  {F(1, <<195>>), F(2, <<97>>), F(0, <<>>), F(128, <<169>>), F(128, <<192>>),
   F(129, <<97, 0, 192>>), F(129, <<192>>), F(131, <<>>),
   F(137, <<97>>), F(137, <<1, 2, 3, 4, 5, 6>>), F(138, <<>>),
   F(136, <<>>), F(136, <<3, 232>>), F(136, <<3, 236>>), F(136, <<3, 233, 192>>),
   F(136, <<3, 232, 97, 97, 97, 97>>)}
OneByte == {<<97>>}
NoCloses == {}
=============================================================================
