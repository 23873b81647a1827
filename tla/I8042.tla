-------------------------------- MODULE I8042 --------------------------------
(***************************************************************************)
(* The hardware under kernel.c and mouse.c, as they use it: the 8042       *)
(* controller, the two devices behind it and the request line of the mouse *)
(* at the interrupt controller.  None of this is code of the kernel.       *)
(*                                                                         *)
(* The controller has one output buffer for both devices; while it is      *)
(* full, the devices hold their bytes back.  Status bit 0 says that it is  *)
(* full, bit 5 that its byte is from the mouse.  Filling it with a mouse   *)
(* byte raises IRQ12, which the interrupt controller latches (the edge     *)
(* stays latched even if the byte is read by polling); IRQ1 is masked.     *)
(***************************************************************************)
EXTENDS Integers, Sequences

CONSTANTS
  KeyStreams,    \* what may be typed: sequences of scan codes
  MouseStreams,  \* what the mouse may send: sequences of packet bytes
  NoByte         \* the empty output buffer

Codes == 0 .. 255               \* what a byte may be

ASSUME StreamAssumption ==
  /\ KeyStreams \subseteq Seq(Codes)
  /\ MouseStreams \subseteq Seq(Codes)
  /\ NoByte \notin [aux : BOOLEAN, n : Nat, v : Codes]

VARIABLES
  typed, moved,  \* the streams of this run (never changed)
  ksent, msent,  \* how many bytes of each the controller has taken
  obf,           \* the output buffer: NoByte or a byte with its origin
  irr            \* IRQ12 is latched at the interrupt controller

hwVars == <<typed, moved, ksent, msent, obf, irr>>

(* n is the position of the byte in its stream, which no code can see.     *)
Byte == [aux : BOOLEAN, n : Nat, v : Codes]

KeyByte(n)   == [aux |-> FALSE, n |-> n, v |-> typed[n]]
MouseByte(n) == [aux |-> TRUE, n |-> n, v |-> moved[n]]

HwTypeOK ==
  /\ typed \in Seq(Codes) /\ ksent \in 0 .. Len(typed)
  /\ moved \in Seq(Codes) /\ msent \in 0 .. Len(moved)
  /\ obf \in Byte \cup {NoByte}
  /\ irr \in BOOLEAN

HwInit ==
  /\ typed \in KeyStreams /\ moved \in MouseStreams
  /\ ksent = 0 /\ msent = 0
  /\ obf = NoByte
  /\ irr = FALSE

Full    == obf # NoByte                \* status bit 0
FullAux == Full /\ obf.aux             \* status bit 5

KeySend ==
  /\ ~Full
  /\ ksent < Len(typed)
  /\ ksent' = ksent + 1
  /\ obf' = KeyByte(ksent + 1)
  /\ UNCHANGED <<typed, moved, msent, irr>>

MouseSend ==
  /\ ~Full
  /\ msent < Len(moved)
  /\ msent' = msent + 1
  /\ obf' = MouseByte(msent + 1)
  /\ irr' = TRUE
  /\ UNCHANGED <<typed, moved, ksent>>

(* in from port 0x60.                                                      *)
ReadData == obf' = NoByte
=============================================================================
