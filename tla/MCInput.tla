------------------------------- MODULE MCInput -------------------------------
(* A screen of two by two cells, one written symbol besides the blank, and *)
(* streams of a few bytes.  Scan codes: 42 left Shift, 30 `a`, 28 Enter,   *)
(* 1 Esc, 224 72 the arrow up, plus 128 when released.  First bytes of a   *)
(* packet have bit 3 set: 9 with the button, 16 more for a motion to the   *)
(* left, 32 more for one downwards.                                        *)
EXTENDS Input

MCPrintable == {30}

\* For the routing: keys between the bytes of a packet and after it, some
\* under Shift, some that go over to the other reader and back.
RoutedKeys  == {<<224, 72>>, <<42, 170, 30>>, <<54, 30>>, <<28, 1>>}
RoutedMouse == {<<25, 254, 4, 8>>}

\* For the pointer: two packets, of which one has a second byte that looks
\* like a first and one has a motion of more than eight bits; a packet after
\* the end of another.
PointerKeys  == {<<30>>}
PointerMouse == {<<41, 12, 254, 8, 200, 4>>, <<4, 25, 254, 2>>}

\* For Shift: pressed in one reader, released in the other.
ShiftedKeys == {<<42, 1, 170, 28, 30>>}
StillMouse  == {<< >>}
=============================================================================
