----------------------------- MODULE MCVimInput -----------------------------
(* Instances of VimInput for TLC.                                          *)
EXTENDS VimInput

Blanks == {" ", "\n"}
CommandNames == {<<"a">>}
FoundPath == <<"a">>
=============================================================================
