------------------------------ MODULE MCConsole ------------------------------
(***************************************************************************)
(* A console for TLC.  One key with a character is enough: a key from '1'  *)
(* to '=' behaves as a letter while shift is up and gives another          *)
(* character while it is down.                                             *)
(***************************************************************************)
EXTENDS Console

Specials(d) == IF d = "1" THEN "!" ELSE d
==============================================================================
