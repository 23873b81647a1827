------------------------------- MODULE MCShell -------------------------------
(* Two slots, files of up to two bytes, of which one value ends a string   *)
(* and the other a line; two files from the start, of which one is a       *)
(* program.                                                                *)
EXTENDS Shell

MCNames     == {<<"a">>, <<"a", "b">>, <<"b">>, <<"a", "">>}
MCTexts     == {<<"n">>}
MCBootFiles == <<[name |-> <<"a", "b">>, data |-> <<"n", "0">>],
                 [name |-> <<"a">>, data |-> <<"n", "n">>]>>
MCMagic     == <<"n", "n">>
=============================================================================
