------------------------------- MODULE MCRmfs -------------------------------
(* Two slots, contents of up to two bytes (three are too many), names of   *)
(* which one lies in the folder of another, and one malformed name of      *)
(* each kind.                                                              *)
EXTENDS RmfsQueries

MCNames    == {<<"a">>, <<"a", "b">>, <<"b">>, <<"a", "">>, <<"c", "c">>}
MCOverlong == {<<"c", "c">>}
MCContents == {<< >>, <<0>>, <<1, 0>>, <<1, 1, 1>>}
MCDirs     == {<<"a">>, <<"a", "", "">>, <<"b">>, <<"">>}
=============================================================================
