-------------------------------- MODULE Input --------------------------------
(***************************************************************************)
(* The input path of the kernel: the program, which polls the controller   *)
(* for keys in kbd_getchar or div_getkey (kernel.c), and the IRQ12 handler *)
(* (isr.asm, idt.c, mouse.c) share the controller (I8042), the packet      *)
(* machine and the pointer (Mouse).                                        *)
(*                                                                         *)
(* There is one processor: the handler starts between two steps of the     *)
(* program when IRQ12 is latched and interrupts are enabled, and runs to   *)
(* its end (it runs with interrupts off) while the devices go on sending.  *)
(***************************************************************************)
EXTENDS I8042, Mouse, Keyboard, FiniteSets

CONSTANTS
  UsedReaders,   \* the readers the program calls
  MaxWrites      \* bound: the writes of the program to the screen

ASSUME InputAssumption == UsedReaders \subseteq Readers /\ MaxWrites \in Nat

VARIABLES
  ppc,           \* the program: where it is
  byte,          \* st and sc of the reader: the byte of the buffer, or none
  ifl,           \* the interrupt flag
  hpc,           \* the handler: "off", "entry" or "body"
  reader,        \* the reader the program is in
  kst,           \* shift and ext of each reader
  got,           \* the key the last call of a reader returned, or NoKey
  scanned,       \* history: the scan codes decoded
  decoders,      \* history: the readers that have decoded them
  fed,           \* history: the mouse bytes fed, by number
  keys,          \* history: the keys returned
  writes,        \* history: the number of writes to the screen
  raced          \* history: did the handler feed a byte while the program
                 \* held one, or was in mouse.c, or after it wrote over the block

progVars == <<ppc, byte, ifl, hpc, reader, kst, scanned, decoders, fed, keys, got, writes, raced>>
vars     == <<hwVars, mouseVars, progVars>>

Init ==
  /\ HwInit /\ MouseInit
  /\ ppc = "app" /\ byte = NoByte
  /\ ifl \in BOOLEAN               \* clear when mouse_init gave up early
  /\ hpc = "off"
  /\ reader \in UsedReaders
  /\ kst = [r \in Readers |-> Fresh] /\ got = NoKey
  /\ scanned = << >> /\ decoders = {} /\ fed = << >> /\ keys = << >>
  /\ writes = 0 /\ raced = FALSE

ProgramRuns == hpc = "off" /\ ~Busy("program")
ProgramAt(s) == ProgramRuns /\ ppc = s

-----------------------------------------------------------------------------
(* The program outside the readers.  It goes over from the shell's reader  *)
(* to that of div and EWord when Enter has started one of them, and back   *)
(* when a key has closed it: Esc, or the left arrow at the root of div.    *)
Leaves(r, key) ==
  IF r = "kbd_getchar" THEN key.code = EnterKey
  ELSE key.code = EscKey \/ (key.ext /\ key.code = LeftKey)

CallReader(r) ==
  /\ ProgramAt("app")
  /\ r = reader \/ Leaves(reader, got)
  /\ ppc' = "poll"
  /\ reader' = r /\ got' = NoKey
  /\ UNCHANGED <<hwVars, mouseVars, byte, ifl, hpc, kst, scanned, decoders, fed, keys, writes, raced>>

(* The console writes to the screen whether or not the block is on it.     *)
ConsoleWrite(cell, s) ==
  /\ ProgramAt("app")
  /\ writes < MaxWrites
  /\ writes' = writes + 1
  /\ vga' = [vga EXCEPT ![cell] = s]
  /\ text' = [text EXCEPT ![cell] = s]
  /\ raced' = (raced \/ (mouse.shown /\ cell = Here))
  /\ UNCHANGED <<hwVars, mouse, pc, loc, applied,
                 ppc, byte, ifl, hpc, reader, kst, scanned, decoders, fed, keys, got>>

(* win_frame and its like hide the block first.                            *)
WindowPaint(cell, s) ==
  /\ ProgramAt("app")
  /\ writes < MaxWrites
  /\ writes' = writes + 1
  /\ StartPaint("program", cell, s)
  /\ UNCHANGED <<hwVars, mouse, vga, applied, text,
                 ppc, byte, ifl, hpc, reader, kst, scanned, decoders, fed, keys, got, raced>>

-----------------------------------------------------------------------------
(* The readers.  The loop on status bit 0, with interrupts as they are.    *)
Move(from, to) == ProgramAt(from) /\ ppc' = to

Poll ==
  /\ Move("poll", "cli")
  /\ Full
  /\ UNCHANGED <<hwVars, mouseVars, byte, ifl, hpc, reader, kst, scanned, decoders, fed, keys, got, writes, raced>>

Pause ==
  /\ ProgramAt("poll")
  /\ ~Full
  /\ UNCHANGED vars

(* Only div_getkey gives up, with 0 for no key.                            *)
TimeOut ==
  /\ Move("poll", "app")
  /\ ~Full
  /\ reader = "div_getkey"
  /\ UNCHANGED <<hwVars, mouseVars, byte, ifl, hpc, reader, kst, scanned, decoders, fed, keys, got, writes, raced>>

CliForgotten ==   \* the bug of the comment at kernel.c:249-252
  /\ Move("cli", "status")
  /\ UNCHANGED <<hwVars, mouseVars, byte, ifl, hpc, reader, kst, scanned, decoders, fed, keys, got, writes, raced>>

Cli ==
  /\ Move("cli", "status")
  /\ ifl' = FALSE
  /\ UNCHANGED <<hwVars, mouseVars, byte, hpc, reader, kst, scanned, decoders, fed, keys, got, writes, raced>>

(* st = inb(0x64): with the buffer empty the IRQ took the byte.            *)
ReadStatus ==
  /\ Move("status", IF Full THEN "data" ELSE "sti")
  /\ byte' = obf
  /\ UNCHANGED <<hwVars, mouseVars, ifl, hpc, reader, kst, scanned, decoders, fed, keys, got, writes, raced>>

(* sc = inb(0x60), to be taken for what st said.  An IRQ12 latched for the *)
(* byte may or may not stay latched.                                       *)
ReadByte ==
  /\ Move("data", "sti")
  /\ ReadData
  /\ byte' = IF Full THEN [obf EXCEPT !.aux = byte.aux] ELSE byte
  /\ irr' \in (IF FullAux THEN {irr, FALSE} ELSE {irr})
  /\ UNCHANGED <<typed, moved, ksent, msent, mouseVars,
                 ifl, hpc, reader, kst, scanned, decoders, fed, keys, got, writes, raced>>

Sti ==
  /\ Move("sti", IF byte = NoByte THEN "poll" ELSE "sort")
  /\ ifl' = TRUE
  /\ UNCHANGED <<hwVars, mouseVars, byte, hpc, reader, kst, scanned, decoders, fed, keys, got, writes, raced>>

(* A mouse byte goes to mouse_feed, and the reader reads on.               *)
SortMouse ==
  /\ Move("sort", "poll")
  /\ byte.aux
  /\ StartFeed("program", byte.v)
  /\ fed' = Append(fed, byte.n)
  /\ byte' = NoByte
  /\ UNCHANGED <<hwVars, mouse, vga, applied, text,
                 ifl, hpc, reader, kst, scanned, decoders, keys, got, writes, raced>>

(* A scan code is decoded, and the reader returns if it makes a key.       *)
SortKey ==
  /\ ProgramAt("sort")
  /\ ~byte.aux
  /\ LET key == Decoded(reader, kst[reader], byte.v)
     IN  /\ kst' = [kst EXCEPT ![reader] = After(@, byte.v)]
         /\ ppc' = IF key = NoKey THEN "poll" ELSE "app"
         /\ keys' = IF key = NoKey THEN keys ELSE Append(keys, key)
         /\ got' = key
  /\ scanned' = Append(scanned, byte.v)
  /\ decoders' = decoders \cup {reader}
  /\ byte' = NoByte
  /\ UNCHANGED <<hwVars, mouseVars, ifl, hpc, reader, fed, writes, raced>>

ReaderStep ==
  \/ Poll \/ TimeOut \/ Cli \/ ReadStatus \/ ReadByte \/ Sti
  \/ SortMouse \/ SortKey

InMouseCode == hpc = "off" /\ MouseStep("program") /\ UNCHANGED <<hwVars, progVars>>

-----------------------------------------------------------------------------
(* The handler: the stub of IRQ12, irq_handler, mouse_irq and iret.        *)
Interrupt ==
  /\ irr /\ ifl /\ hpc = "off"
  /\ irr' = FALSE
  /\ ifl' = FALSE
  /\ hpc' = "entry"
  /\ UNCHANGED <<typed, moved, ksent, msent, obf, mouseVars,
                 ppc, byte, reader, kst, scanned, decoders, fed, keys, got, writes, raced>>

ProgramHolds == Busy("program") \/ (byte # NoByte /\ byte.aux)

mouse_irq ==
  /\ hpc = "entry"
  /\ hpc' = "body"
  /\ IF FullAux
       THEN /\ ReadData
            /\ StartFeed("irq", obf.v)
            /\ fed' = Append(fed, obf.n)
            /\ raced' = (raced \/ ProgramHolds)
       ELSE UNCHANGED <<obf, pc, loc, fed, raced>>  \* leave it for the keyboard
  /\ UNCHANGED <<typed, moved, ksent, msent, irr, mouse, vga, applied, text,
                 ppc, byte, ifl, reader, kst, scanned, decoders, keys, got, writes>>

InHandler == hpc = "body" /\ MouseStep("irq") /\ UNCHANGED <<hwVars, progVars>>

Iret ==
  /\ hpc = "body"
  /\ ~Busy("irq")
  /\ hpc' = "off"
  /\ ifl' = TRUE
  /\ UNCHANGED <<hwVars, mouseVars, ppc, byte, reader, kst, scanned, decoders, fed, keys, got, writes, raced>>

-----------------------------------------------------------------------------
Hardware == (KeySend \/ MouseSend) /\ UNCHANGED <<mouseVars, progVars>>

Program ==
  \/ \E r \in UsedReaders : CallReader(r)
  \/ \E cell \in Cells, s \in Symbols : ConsoleWrite(cell, s) \/ WindowPaint(cell, s)
  \/ ReaderStep \/ Pause \/ InMouseCode

Handler == Interrupt \/ mouse_irq \/ InHandler \/ Iret

Next == Hardware \/ Program \/ Handler

Spec == Init /\ [][Next]_vars

(* The devices send what they have, the processor goes on with the program *)
(* and takes the interrupts that are pending and enabled.                  *)
FairSpec == Spec /\ WF_vars(Hardware) /\ WF_vars(Program) /\ WF_vars(Handler)
-----------------------------------------------------------------------------
(* The types.                                                              *)
TypeOK ==
  /\ HwTypeOK /\ MouseTypeOK
  /\ byte \in Byte \cup {NoByte}
  /\ ppc \in {"app", "poll", "cli", "status", "data", "sti", "sort"}
  /\ hpc \in {"off", "entry", "body"} /\ (Busy("irq") => hpc = "body")
  /\ ifl \in BOOLEAN /\ raced \in BOOLEAN /\ reader \in Readers
  /\ kst \in [Readers -> [shift : BOOLEAN, ext : BOOLEAN]]
  /\ got \in [code : Int, ext : BOOLEAN, shift : BOOLEAN]

Router == INSTANCE ByteRouter

(* Each scan code is decoded once and in order, each mouse byte is fed     *)
(* once, none takes the path of the other, and all are taken in the end,   *)
(* whatever the moment at which IRQ12 arrives: the status and the data of  *)
(* the readers are read with interrupts off, and the handler leaves the    *)
(* bytes of the keyboard alone.                                            *)
ImplementsRouter == Router!FairSpec

AllIdle == \A c \in Contexts : ~Busy(c)

(* When neither context is in mouse.c, the pointer is on the screen and    *)
(* the packet machine expects one of three bytes, even when the handler    *)
(* has run in the middle of a motion computed by the program.              *)
PointerOnScreen ==
  AllIdle => /\ mouse.mx \in 0 .. Cols - 1
             /\ mouse.my \in 0 .. Rows - 1
             /\ mouse.phase \in 0 .. 2

(* What the mouse sends: three bytes to a packet, from the first byte with *)
(* bit 3 set on (what comes before it is a packet begun earlier).  A motion *)
(* is a number in two's complement of nine bits: the sign is in the first  *)
(* byte, bit 4 for the columns and bit 5 for the rows.                     *)
Lead == CHOOSE i \in 0 .. Len(moved) :
          /\ \A j \in 1 .. i : ~Sync(moved[j])
          /\ i < Len(moved) => Sync(moved[i + 1])
Nth(i)          == moved[Lead + i]
NineBits(sign, b) == IF sign % 2 = 1 THEN b - 256 ELSE b
Packet(k) ==
  LET first == Nth(3 * k - 2)
  IN  <<first, NineBits(first \div 16, Nth(3 * k - 1)), NineBits(first \div 32, Nth(3 * k))>>
Packets == [k \in 1 .. (Len(moved) - Lead) \div 3 |-> Packet(k)]

(* The packets applied are those the mouse sent, in order, with the button *)
(* byte and the motions it sent, as far as these fit in eight bits: the    *)
(* driver does not look at the signs in the first byte (mouse.c:98-101).   *)
PacketsIntact ==
  /\ Len(applied) <= Len(Packets)
  /\ \A k \in DOMAIN applied :
       /\ applied[k][1] = Packets[k][1]
       /\ \A i \in 2 .. 3 : Packets[k][i] \in -128 .. 127 => applied[k][i] = Packets[k][i]

(* It is so as long as the handler feeds no byte between the moment when a *)
(* reader takes a mouse byte and the return of its mouse_feed.             *)
PacketsIntactUnlessRaced == ~raced => PacketsIntact

(* The readers feed the mouse bytes they find "so none are lost"           *)
(* (kernel.c:249-252): when all is quiet, each packet has been applied.    *)
NoneLost ==
  msent = Len(moved) /\ ~Full /\ byte = NoByte /\ AllIdle
    => Len(applied) = Len(Packets)

(* The screen without the block is what the program has written.           *)
OverlayExact ==
  AllIdle => LET block == IF mouse.shown THEN {Here} ELSE {}
             IN  /\ \A c \in Cells \ block : vga[c] = text[c]
                 /\ \A c \in block : vga[c] = Block /\ mouse.under = text[c]

(* The block leaves no trace as long as the program writes to no cell it   *)
(* covers and the handler does not run within mouse.c.                     *)
OverlayExactUnlessRaced == ~raced => OverlayExact

(* A Shift key is down after n codes (without E0 pairs among them).        *)
HeldAfter(n) ==
  \E k \in ShiftKeys : \E i \in 1 .. n :
    typed[i] = k /\ \A j \in i .. n : typed[j] # k + Release

(* div_getkey "sets *shift_state (1 while left/right Shift is held)"        *)
(* (kernel.c:298-302): no key is returned as shifted with no Shift held.   *)
ShiftStateAsHeld ==
  [][\A i \in 1 .. Len(keys') :
       i > Len(keys) /\ reader = "div_getkey" /\ keys'[i].shift
         => HeldAfter(Len(scanned'))]_vars

(* As long as one reader alone has decoded the codes, both readers return  *)
(* each key with the state of Shift as it is held when the key is typed,   *)
(* which the reader keeps over its returns and time-outs.                  *)
ShiftAsHeldByOneReader ==
  [][\A i \in 1 .. Len(keys') : i > Len(keys) /\ Cardinality(decoders') = 1 =>
       keys'[i].shift = HeldAfter(Len(scanned'))]_vars
=============================================================================
