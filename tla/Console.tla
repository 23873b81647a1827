------------------------------- MODULE Console -------------------------------
(***************************************************************************)
(* kernel.c: the text console, as operators on a screen: a record of the   *)
(* video memory and the cursor, [vga, row, col]; and the block of the      *)
(* pointer that mouse.c keeps in the same video memory: a record           *)
(* [shown, pos, under].  A cell is its character or the block; colours and *)
(* the blinking cursor of the adapter are left out.                        *)
(***************************************************************************)
EXTENDS Integers, Sequences, SequencesExt

CONSTANTS
  VGA_ROWS, VGA_COLS,   \* 25 by 80
  Chars,                \* the characters
  Newline, Return,      \* '\n' and '\r'
  Space,                \* ' '
  Block                 \* what mouse_draw writes: a space, black on white

ASSUME ConsoleAssumption ==
  /\ VGA_ROWS \in Nat \ {0} /\ VGA_COLS \in Nat \ {0}
  /\ {Newline, Return, Space} \subseteq Chars
  /\ Newline # Return /\ Space \notin {Newline, Return}
  /\ Block \notin Chars

Cells == 0 .. VGA_ROWS * VGA_COLS - 1

ScreensOf(glyphs) ==
  [vga : [Cells -> glyphs], row : 0 .. VGA_ROWS - 1, col : 0 .. VGA_COLS - 1]

Screens  == ScreensOf(Chars)               \* with nothing of the pointer
Displays == ScreensOf(Chars \cup {Block})
Pointers == [shown : BOOLEAN, pos : Cells, under : Chars \cup {Block}]

CellOf(row, col) == row * VGA_COLS + col
CursorCell(s)    == CellOf(s.row, s.col)

vga_clear == [vga |-> [c \in Cells |-> Space], row |-> 0, col |-> 0]

vga_scroll(s) ==
  [s EXCEPT !.vga = [c \in Cells |-> IF c + VGA_COLS \in Cells
                                       THEN s.vga[c + VGA_COLS] ELSE Space]]

NewlineUnbounded(s) ==   \* a bug: no scrolling
  [s EXCEPT !.col = 0, !.row = @ + 1]

vga_newline(s) ==
  LET t == [s EXCEPT !.col = 0]
  IN  IF s.row + 1 >= VGA_ROWS THEN vga_scroll(t) ELSE [t EXCEPT !.row = @ + 1]

vga_put_at(s, ch, row, col) ==
  IF row < VGA_ROWS /\ col < VGA_COLS THEN [s EXCEPT !.vga[CellOf(row, col)] = ch] ELSE s

vga_putchar(s, ch) ==
  IF ch = Newline THEN vga_newline(s)
  ELSE IF ch = Return THEN [s EXCEPT !.col = 0]
  ELSE LET t == [vga_put_at(s, ch, s.row, s.col) EXCEPT !.col = @ + 1]
       IN  IF t.col >= VGA_COLS THEN vga_newline(t) ELSE t

vga_print(s, str) == FoldLeft(vga_putchar, s, str)

BackspaceInRow(s) ==   \* a bug: the cursor does not go back to the row above
  LET t == IF s.col > 0 THEN [s EXCEPT !.col = @ - 1] ELSE s
  IN  vga_put_at(t, Space, t.row, t.col)

(* The cursor back by one cell, into the row above if need be.             *)
vga_backspace(s) ==
  LET t == IF s.col > 0 THEN [s EXCEPT !.col = @ - 1]
           ELSE [s EXCEPT !.row = @ - 1, !.col = VGA_COLS - 1]
  IN  IF CursorCell(s) = 0 THEN s ELSE vga_put_at(t, Space, t.row, t.col)
-----------------------------------------------------------------------------
(* mouse.c: the block, drawn on a cell and taken off it again.             *)
HideWithoutRestoring(s, p) == s   \* a bug: the cell keeps the block

mouse_hide(s, p)  == IF p.shown THEN [s EXCEPT !.vga[p.pos] = p.under] ELSE s
mouse_draw(s, at) == [s EXCEPT !.vga[at] = Block]

(* The block is where mouse.c has it, and the screen with it lifted.       *)
Covered(s, p) == p.shown /\ s.vga[p.pos] = Block
Bare(s, p)    == IF Covered(s, p) THEN [s.vga EXCEPT ![p.pos] = p.under] ELSE s.vga

(* What is lost on the screen, cell by cell: `spoilt` are the cells whose  *)
(* character the pointer has cost.  A character that is written makes its  *)
(* cell whole; scrolling moves the lost cells up, and the block with them, *)
(* which leaves it behind.                                                 *)
Scrolls(s, ch) ==
  s.row + 1 >= VGA_ROWS /\ (ch = Newline \/ (ch # Return /\ s.col + 1 >= VGA_COLS))

SpoiltByPut(s, p, spoilt, ch) ==
  LET whole == IF ch \in {Newline, Return} THEN {} ELSE {CursorCell(s)}
      old   == spoilt \cup (IF Covered(s, p) THEN {p.pos} ELSE {})
  IN  IF Scrolls(s, ch) THEN {c \in Cells : c + VGA_COLS \in old \ whole}
      ELSE spoilt \ whole

(* The cell that is put back has been written meanwhile, or scrolled.      *)
SpoiltByHide(s, p, spoilt) == spoilt \cup (IF p.shown /\ ~Covered(s, p) THEN {p.pos} ELSE {})

(* A block drawn while one is shown keeps what was under the other.        *)
SpoiltByDraw(s, p, spoilt, at) ==
  spoilt \cup (IF p.shown /\ ~(Covered(s, p) /\ at = p.pos) THEN {p.pos, at} ELSE {})
=============================================================================
