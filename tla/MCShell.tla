------------------------------ MODULE MCShell -------------------------------
(***************************************************************************)
(* A shell with lines of four characters and a heap of 684 bytes for TLC.  *)
(***************************************************************************)
EXTENDS Shell

MCLines == {<<>>, <<"a">>, <<"a", "b">>, <<"a", "b", "a", "b">>, <<"b", "a", "b">>,
            <<"a", SPACE>>, <<"a", "b", SPACE, "a">>, <<"a", SPACE, "b">>,
            <<"a", SPACE, "b", SPACE>>, <<SPACE, "a">>, <<SPACE, SPACE, "b">>}

MCPrograms  == {<<"a">>}
MCShellName == <<"b", "a", "b">>

MCFileOrder == <<"text", "empty", "large">>
MCLength    == [text |-> 7, empty |-> 0, large |-> 81]

Zero       == [i \in Places |-> NUL]
MCLeftover == {Zero, [i \in Places |-> IF i \in {0, 2} THEN "b" ELSE NUL]}
=============================================================================
