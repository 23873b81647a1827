-------------------------------- MODULE Mouse --------------------------------
(***************************************************************************)
(* kernel/mouse.c: the packet machine and the pointer, a block painted     *)
(* over a cell of the screen whose content is kept in `under`.             *)
(*                                                                         *)
(* mouse_feed, mouse_hide and mouse_draw run in two contexts: in the       *)
(* program (called by the keyboard readers for the mouse bytes they find,  *)
(* with interrupts enabled, and by the window manager around its painting) *)
(* and in the IRQ12 handler, which may start between any two steps of the  *)
(* program.  Nothing guards their shared state.  A step is a statement of  *)
(* the C source, except that pkt[phase++] = b is three: it reads phase,    *)
(* stores the incremented value and then the byte, as it is compiled.      *)
(***************************************************************************)
EXTENDS Integers, Sequences

CONSTANTS
  Cols, Rows,      \* the text screen (80 by 25)
  StartX, StartY,  \* where the pointer starts (40, 12)
  Symbols,         \* what may be written in a cell
  Blank,           \* the content of the cells at the start
  Block            \* the block of the pointer

ASSUME ScreenAssumption ==
  /\ Cols \in Nat \ {0} /\ Rows \in Nat \ {0}
  /\ StartX \in 0 .. Cols - 1 /\ StartY \in 0 .. Rows - 1
  /\ Blank \in Symbols /\ Block \notin Symbols

VARIABLES
  mouse,    \* phase, pkt, mx, my, mleft, shown and under
  vga,      \* the screen
  pc, loc,  \* the call in progress and its locals, one for each context
  applied,  \* history: the packets turned into a motion
  text      \* history: what the program has put on the screen

mouseVars == <<mouse, vga, pc, loc, applied, text>>

Contexts == {"program", "irq"}
Cells    == 0 .. Cols * Rows - 1

Idle == [job |-> "feed", b |-> 0, p |-> 0, dx |-> 0, dy |-> 0,
         pos |-> 0, ch |-> Blank]

Labels == {"idle", "feed", "count", "store", "reset", "read", "hide", "hidden", "button",
           "movex", "movey", "clampx", "clampy", "paint", "draw", "block", "drawn"}

Frame == [job : {"feed", "paint"}, b : 0 .. 255, p : 0 .. 3, dx : Int, dy : Int,
          pos : Int, ch : Symbols]

MouseTypeOK ==
  /\ mouse \in [phase : 0 .. 4, pkt : [0 .. 2 -> 0 .. 255], mx : Int, my : Int,
                mleft : BOOLEAN, shown : BOOLEAN, under : Symbols \cup {Block}]
  /\ vga \in [Cells -> Symbols \cup {Block}] /\ text \in [Cells -> Symbols]
  /\ pc \in [Contexts -> Labels] /\ loc \in [Contexts -> Frame]

MouseInit ==
  /\ mouse = [phase |-> 0, pkt |-> [i \in 0 .. 2 |-> 0], mx |-> StartX,
              my |-> StartY, mleft |-> FALSE, shown |-> FALSE, under |-> Blank]
  /\ vga = [c \in Cells |-> Blank]
  /\ text = vga
  /\ pc = [c \in Contexts |-> "idle"]
  /\ loc = [c \in Contexts |-> Idle]
  /\ applied = << >>

Busy(c) == pc[c] # "idle"

Goto(c, s)   == pc' = [pc EXCEPT ![c] = s]
Return(c)    == Goto(c, "idle") /\ loc' = [loc EXCEPT ![c] = Idle]
Step(c, from, to) == pc[c] = from /\ Goto(c, to)

(* The calls: mouse_feed(b), and the painting of a window, here of one     *)
(* cell, between mouse_hide and mouse_draw.                                *)
StartFeed(c, b) == Goto(c, "feed") /\ loc' = [loc EXCEPT ![c] = [Idle EXCEPT !.b = b]]

StartPaint(c, cell, s) ==
  /\ Goto(c, "hide")
  /\ loc' = [loc EXCEPT ![c] = [Idle EXCEPT !.job = "paint", !.pos = cell, !.ch = s]]

Sync(b)   == (b \div 8) % 2 = 1
Signed(b) == IF b < 128 THEN b ELSE b - 256             \* (signed char) b
Half(d)   == IF d < 0 THEN - ((- d) \div 2) ELSE d \div 2
Clamp(v, last) == IF v < 0 THEN 0 ELSE IF v > last THEN last ELSE v
Here      == mouse.my * Cols + mouse.mx

-----------------------------------------------------------------------------
(* mouse_feed: the byte joins the packet, unless a packet should start     *)
(* with it and its bit 3 is clear.                                         *)
LoadPhaseNoSync(c) ==   \* a bug: any byte starts a packet
  /\ Step(c, "feed", "count")
  /\ loc' = [loc EXCEPT ![c].p = mouse.phase]
  /\ UNCHANGED <<mouse, vga, applied, text>>

LoadPhase(c) ==
  /\ pc[c] = "feed"
  /\ IF mouse.phase = 0 /\ ~Sync(loc[c].b)
       THEN Return(c)
       ELSE Goto(c, "count") /\ loc' = [loc EXCEPT ![c].p = mouse.phase]
  /\ UNCHANGED <<mouse, vga, applied, text>>

CountPhase(c) ==
  /\ Step(c, "count", "store")
  /\ mouse' = [mouse EXCEPT !.phase = loc[c].p + 1]
  /\ UNCHANGED <<vga, loc, applied, text>>

(* With p = 3 the byte goes to the one after the array, which is padding.  *)
StorePkt(c) ==
  /\ pc[c] = "store"
  /\ mouse' = [mouse EXCEPT !.pkt = [i \in 0 .. 2 |-> IF i = loc[c].p
                                                    THEN loc[c].b ELSE @[i]]]
  /\ IF loc[c].p + 1 < 3 THEN Return(c) ELSE Goto(c, "reset") /\ UNCHANGED loc
  /\ UNCHANGED <<vga, applied, text>>

ResetPhaseForgotten(c) ==   \* a bug: phase stays at 3
  Step(c, "reset", "read") /\ UNCHANGED <<mouse, vga, loc, applied, text>>

ResetPhase(c) ==
  /\ Step(c, "reset", "read")
  /\ mouse' = [mouse EXCEPT !.phase = 0]
  /\ UNCHANGED <<vga, loc, applied, text>>

ReadMotionNoHide(c) ==   \* a bug: the pointer moves without mouse_hide
  /\ Step(c, "read", "button")
  /\ loc' = [loc EXCEPT ![c] = [@ EXCEPT !.dx = Signed(mouse.pkt[1]),
                                         !.dy = Signed(mouse.pkt[2])]]
  /\ UNCHANGED <<mouse, vga, applied, text>>

ReadMotion(c) ==
  /\ Step(c, "read", "hide")
  /\ loc' = [loc EXCEPT ![c] = [@ EXCEPT !.dx = Signed(mouse.pkt[1]),
                                         !.dy = Signed(mouse.pkt[2])]]
  /\ UNCHANGED <<mouse, vga, applied, text>>

Button(c) ==
  /\ Step(c, "button", "movex")
  /\ mouse' = [mouse EXCEPT !.mleft = (mouse.pkt[0] % 2 = 1)]
  /\ applied' = Append(applied, <<mouse.pkt[0], loc[c].dx, loc[c].dy>>)
  /\ UNCHANGED <<vga, loc, text>>

(* For a while mx and my hold sums that may lie off the screen; the clamps *)
(* then test the value the context has added up itself.                    *)
MoveX(c) ==
  /\ Step(c, "movex", "movey")
  /\ LET x == mouse.mx + Half(loc[c].dx)
     IN  mouse' = [mouse EXCEPT !.mx = x] /\ loc' = [loc EXCEPT ![c].dx = x]
  /\ UNCHANGED <<vga, applied, text>>

MoveY(c) ==
  /\ Step(c, "movey", "clampx")
  /\ LET y == mouse.my - Half(loc[c].dy)
     IN  mouse' = [mouse EXCEPT !.my = y] /\ loc' = [loc EXCEPT ![c].dy = y]
  /\ UNCHANGED <<vga, applied, text>>

ClampXForgotten(c) ==   \* a bug: the column is not clamped
  Step(c, "clampx", "clampy") /\ UNCHANGED <<mouse, vga, loc, applied, text>>

ClampX(c) ==
  /\ Step(c, "clampx", "clampy")
  /\ LET x == Clamp(loc[c].dx, Cols - 1)
     IN  mouse' = IF x = loc[c].dx THEN mouse ELSE [mouse EXCEPT !.mx = x]
  /\ UNCHANGED <<vga, loc, applied, text>>

ClampY(c) ==
  /\ Step(c, "clampy", "draw")
  /\ LET y == Clamp(loc[c].dy, Rows - 1)
     IN  mouse' = IF y = loc[c].dy THEN mouse ELSE [mouse EXCEPT !.my = y]
  /\ UNCHANGED <<vga, loc, applied, text>>

mouse_feed(c) ==
  \/ LoadPhase(c) \/ CountPhase(c) \/ StorePkt(c) \/ ResetPhase(c)
  \/ ReadMotion(c) \/ Button(c)
  \/ MoveX(c) \/ MoveY(c) \/ ClampX(c) \/ ClampY(c)

-----------------------------------------------------------------------------
(* mouse_hide, then on with the caller's work.  A position off the screen  *)
(* changes no cell of it.                                                  *)
HiddenNext(c) == IF loc[c].job = "feed" THEN "button" ELSE "paint"

RestoreCell(c) ==
  /\ Step(c, "hide", IF mouse.shown THEN "hidden" ELSE HiddenNext(c))
  /\ vga' = IF mouse.shown THEN [vga EXCEPT ![Here] = mouse.under] ELSE vga
  /\ UNCHANGED <<mouse, loc, applied, text>>

ClearShown(c) ==
  /\ Step(c, "hidden", HiddenNext(c))
  /\ mouse' = [mouse EXCEPT !.shown = FALSE]
  /\ UNCHANGED <<vga, loc, applied, text>>

(* mouse_draw: the position is read once.                                  *)
SaveCell(c) ==
  /\ Step(c, "draw", "block")
  /\ loc' = [loc EXCEPT ![c].pos = Here]
  /\ mouse' = IF mouse.shown \/ Here \notin Cells THEN mouse
              ELSE [mouse EXCEPT !.under = vga[Here]]
  /\ UNCHANGED <<vga, applied, text>>

DrawBlock(c) ==
  /\ Step(c, "block", "drawn")
  /\ vga' = [vga EXCEPT ![loc[c].pos] = Block]
  /\ UNCHANGED <<mouse, loc, applied, text>>

SetShown(c) ==
  /\ pc[c] = "drawn"
  /\ Return(c)
  /\ mouse' = [mouse EXCEPT !.shown = TRUE]
  /\ UNCHANGED <<vga, applied, text>>

mouse_hide(c) == RestoreCell(c) \/ ClearShown(c)
mouse_draw(c) == SaveCell(c) \/ DrawBlock(c) \/ SetShown(c)

(* The write of a cell between the two.                                    *)
PaintCell(c) ==
  /\ Step(c, "paint", "draw")
  /\ vga' = [vga EXCEPT ![loc[c].pos] = loc[c].ch]
  /\ text' = [text EXCEPT ![loc[c].pos] = loc[c].ch]
  /\ UNCHANGED <<mouse, loc, applied>>

MouseStep(c) == mouse_feed(c) \/ mouse_hide(c) \/ mouse_draw(c) \/ PaintCell(c)
=============================================================================
