------------------------------ MODULE MCBase64 ------------------------------
(***************************************************************************)
(* Chars whose lower two or four bits are zero or not, of both signs.      *)
(***************************************************************************)
EXTENDS Base64

MCByte == {-128, -61, -1, 0, 1, 63, 97, 112}
=============================================================================
