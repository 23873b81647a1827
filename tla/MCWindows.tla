------------------------------ MODULE MCWindows ------------------------------
(* A window of four by four cells on a screen of five by six.              *)
EXTENDS Windows
=============================================================================
