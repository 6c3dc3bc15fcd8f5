---------------------------- MODULE MCMailClient ----------------------------
(***************************************************************************)
(* Three receivers with an entry too short to be an address between two,   *)
(* and an EHLO answered in up to two lines.                                *)
(***************************************************************************)
EXTENDS MailClient

MCReceivers == <<"a", "-", "b", "c">>
OneReceiver == <<"a">>
=============================================================================
