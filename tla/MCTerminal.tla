----------------------------- MODULE MCTerminal -----------------------------
(***************************************************************************)
(* A screen of three columns and three text rows for TLC.                  *)
(***************************************************************************)
EXTENDS Terminal

MCTexts == {<<"a">>, <<"b", NL>>}
MCSpots == {<<0, 0>>, <<Width - 1, Height>>}
=============================================================================
