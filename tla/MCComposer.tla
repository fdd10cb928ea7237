---------------------------- MODULE MCComposer ----------------------------
(* Instances of Composer for TLC.                                          *)
EXTENDS Composer

Blanks == {" ", "\n"}
CommandNames == {<<"a">>}
FoundPath == <<"a">>
=============================================================================
