------------------------------ MODULE ByteRouter ------------------------------
(***************************************************************************)
(* What the readers and the IRQ12 handler promise together about the one   *)
(* buffer they share (kernel.c:249-252, mouse.h): every scan code reaches  *)
(* a keyboard decoder, in the order typed and once; every byte of the      *)
(* mouse reaches the packet machine once; neither ever gets a byte of the  *)
(* other; and nothing stays behind.  The order of the mouse bytes is left  *)
(* open here.  Module Input, the code, is checked to implement this.       *)
(***************************************************************************)
EXTENDS Integers, Sequences

VARIABLES
  typed, moved,  \* what the two devices send
  scanned,       \* the scan codes decoded so far
  fed            \* the mouse bytes fed so far, by their number

vars == <<typed, moved, scanned, fed>>

Init ==
  /\ typed \in Seq(0 .. 255) /\ moved \in Seq(0 .. 255)
  /\ scanned = << >> /\ fed = << >>

Scan ==
  /\ Len(scanned) < Len(typed)
  /\ scanned' = Append(scanned, typed[Len(scanned) + 1])
  /\ UNCHANGED <<typed, moved, fed>>

Unfed == {n \in 1 .. Len(moved) : \A i \in 1 .. Len(fed) : fed[i] # n}

Feed ==
  /\ \E n \in Unfed : fed' = Append(fed, n)
  /\ UNCHANGED <<typed, moved, scanned>>

Next == Scan \/ Feed

Spec == Init /\ [][Next]_vars

FairSpec == Spec /\ WF_vars(Scan) /\ WF_vars(Feed)
=============================================================================
