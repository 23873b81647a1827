------------------------------- MODULE MCEditor ------------------------------
(* Texts of up to five bytes, all of them, on a screen of two rows.        *)
EXTENDS Editor

MCFiles == UNION {[1 .. n -> Bytes] : n \in {0, 3, MaxSize}}
=============================================================================
