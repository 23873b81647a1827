------------------------------ MODULE MCBrowser ------------------------------
(* Four slots, files at three depths, one of them in a folder that bears  *)
(* the name of a file, and a page of two rows.                             *)
EXTENDS Browser

MCNames    == {<<"a">>, <<"b">>, <<"a", "b">>, <<"a", "c">>, <<"a", "b", "c">>}
MCContents == {<< >>, <<1>>}
MCDirs     == {<<"a">>, <<"a", "", "">>, <<"a", "b">>, <<"c">>}
=============================================================================
