--------------------------- MODULE MCUtf8Validator ---------------------------
(* The ends of the byte classes of the table, in strings of up to four    *)
(* bytes (the longest encoding of one character).                          *)
EXTENDS Utf8Validator

MCBytes == {127, 128, 143, 144, 159, 160, 191, 193, 194, 223, 224,
            225, 236, 237, 238, 239, 240, 243, 244, 245}
=============================================================================
