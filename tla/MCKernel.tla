------------------------------ MODULE MCKernel ------------------------------
(* A screen of three rows of three cells, a prompt of one character, lines *)
(* of three characters, outputs of up to two lines; the pointer goes to a  *)
(* cell of the first row or to the last cell; the words and digits         *)
(* are few, so that more words match than are listed.  The addresses are   *)
(* those of the released image; 28 is the code of Enter as a key byte.     *)
EXTENDS Kernel

MCPrompt  == <<">">>
MCLoading == <<"b">>
MCBanner  == <<"h", Newline>>
MCFault   == <<Newline, "!">>
MCOutputs == {<< >>, <<"h", Newline, "b", "h", "b", "h", Newline>>}
MCFaults  == {[vec |-> 6, err |-> << >>], [vec |-> 13, err |-> <<8>>]}
MCWords   == << <<"a", "b">>, <<"b">>, <<"a">>, <<"a", "a">> >>
=============================================================================
