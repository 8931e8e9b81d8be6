----------------------------- MODULE MCEchoHost -----------------------------
(* Two frames of each kind the server reacts to, cut anywhere.             *)
EXTENDS EchoHost

P(b0, data) == [b0 |-> b0, data |-> data, mask |-> <<129, 7, 255, 64>>, form |-> "short"]

MCFrames == {P(129, <<97>>), P(129, <<192>>), P(1, <<97>>), P(128, <<>>), P(137, <<98>>),
             P(136, <<>>), P(136, <<3, 238>>), P(131, <<>>)}
MCRxFrames == {FrameOf(p) : p \in MCFrames}
NoData == {}
NoCloses == {}
=============================================================================
