------------------------------ MODULE MCRawKey ------------------------------
(* Model-checking instance of RawKey.  The code's key size of 32 bytes is   *)
(* cut to 2: the loop formats each byte independently, so two bytes show    *)
(* every interaction between neighbouring writes.  The prefix and suffix    *)
(* keep their lengths.  The byte values are the edges of the formatting:    *)
(* 0 and 10 (one hex digit, padded), 127 (largest positive), -1 and -128    *)
(* (negative, printed as eight hex digits).                                 *)
EXTENDS RawKey

MCByteValues == {-128, -1, 0, 10, 127}
=============================================================================
