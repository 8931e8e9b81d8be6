----------------------------- MODULE MCReceiver -----------------------------
(* Frames with each length form, lengths around the first size of rawdata, *)
(* and masks that differ in every byte.                                    *)
EXTENDS Receiver

P(b0, data, form) == [b0 |-> b0, data |-> data, mask |-> <<129, 7, 255, 64>>, form |-> form]

Long == [i \in 1..12 |-> 96 + i]

MCFrames == {P(1, <<195>>, "short"), P(128, <<169, 97>>, "ext16"), P(129, Long, "short"),
             P(130, <<0>>, "ext64"), P(137, <<98, 99>>, "short"), P(137, <<>>, "short"),
             P(136, <<3, 232>>, "short")}
FewFrames == {P(129, <<97>>, "short"), P(1, <<>>, "short"), P(128, <<97>>, "short"), P(137, <<98>>, "short"),
              P(136, <<3, 232>>, "short")}
MCRxFrames == {FrameOf(p) : p \in MCFrames}
FewRxFrames == {FrameOf(p) : p \in FewFrames}
NoData == {}
NoCloses == {}
Close1000 == {[code |-> 1000, reason |-> <<>>]}
=============================================================================
