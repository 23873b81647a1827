------------------------------- MODULE Windows -------------------------------
(***************************************************************************)
(* kernel/win.c with its caller, the loop of kernel/eword.c, and the       *)
(* pointer that is drawn on the same screen (mouse.c).                     *)
(*                                                                         *)
(* A call of win.c is one step: no motion arrives inside it (module Input  *)
(* has what happens when one does).  Between the calls one may.  EWord is  *)
(* the only user of windows and opens one at a time, in the first slot.    *)
(***************************************************************************)
EXTENDS Integers, FiniteSets

CONSTANTS
  ROWS, COLS,    \* the screen
  W, H,          \* the size of EWord's window, without the border
  WROW, WCOL     \* where it opens

ASSUME WindowsAssumption ==
  /\ W \in Nat \ {0, 1} /\ H \in Nat \ {0, 1} /\ ROWS \in Nat /\ COLS \in Nat
  /\ H + 2 <= ROWS /\ W + 2 <= COLS
  /\ WROW \in Int /\ WCOL \in Int

VARIABLES
  vga,               \* the cells of the screen
  under, shown,      \* the cell below the pointer, and whether it is drawn
  mx, my, left,      \* the pointer and its button
  used, dragging,    \* the window: open, held at its title bar
  row, col, save,    \* its place and the cells below it
  step,              \* what EWord does next
  base               \* the screen when the window was opened

winVars == <<vga, under, shown, mx, my, left, used, dragging, row, col, save, step, base>>

Cells  == (0 .. ROWS - 1) \X (0 .. COLS - 1)
Area   == (0 .. H + 1) \X (0 .. W + 1)        \* of the window, border included
(* What a cell shows: a number of its own, or one of these.                *)
FRAME == -1
TEXT  == -2
BLOCK == -3
BLANK == -4

At(r, c)     == {<<r + a[1], c + a[2]>> : a \in Area}
Border(r, c) == {p \in At(r, c) : p[1] \in {r, r + H + 1} \/ p[2] \in {c, c + W + 1}}
ContentTooTall(r, c) ==   \* a bug: the rows are counted with the border
  (r + 1 .. r + H + 1) \X (c + 1 .. c + W - 1)

(* eword_open clears and prints all of the content but its last row and    *)
(* column; what it prints is shorter than that.                            *)
Content(r, c) == (r + 1 .. r + H - 1) \X (c + 1 .. c + W - 1)

Filled(cells, S, x) == [p \in Cells |-> IF p \in S THEN x ELSE cells[p]]

-----------------------------------------------------------------------------
(* A screen s has the cells, what is below the pointer, and the pointer.   *)
Screen == [vga |-> vga, under |-> under, shown |-> shown, x |-> mx, y |-> my]

mouse_hide(s) ==
  IF s.shown THEN [s EXCEPT !.vga[<<s.y, s.x>>] = s.under, !.shown = FALSE] ELSE s

mouse_draw(s) ==
  [s EXCEPT !.under = IF s.shown THEN @ ELSE s.vga[<<s.y, s.x>>],
            !.vga[<<s.y, s.x>>] = BLOCK,
            !.shown = TRUE]

Painted(s, S, x) == [s EXCEPT !.vga = Filled(@, S, x)]

Becomes(s) ==
  /\ vga' = s.vga /\ under' = s.under /\ shown' = s.shown /\ mx' = s.x /\ my' = s.y

(* clamp_pos: the last two tests repeat the first two.                     *)
Limited(v, size, limit) ==
  LET low  == IF v < 0 THEN 0 ELSE v
      high == IF low + size + 1 >= limit THEN limit - size - 2 ELSE low
  IN  IF high < 0 THEN 0 ELSE high

win_frame(s, r, c) == mouse_draw(Painted(mouse_hide(s), Border(r, c), FRAME))

(* The cells of the window's area at r, c, and the same put back there.    *)
Saved(s, r, c) == [a \in Area |-> s.vga[<<r + a[1], c + a[2]>>]]
Restored(s, r, c, cells) ==
  [s EXCEPT !.vga = [p \in Cells |-> IF p \in At(r, c) THEN cells[<<p[1] - r, p[2] - c>>]
                                                       ELSE s.vga[p]]]

win_open ==
  LET r == Limited(WROW, H, ROWS)
      c == Limited(WCOL, W, COLS)
      s == mouse_hide(Screen)
  IN  /\ step = "shell" /\ ~used
      /\ save' = Saved(s, r, c)
      /\ used' = TRUE /\ row' = r /\ col' = c /\ dragging' = FALSE
      /\ Becomes(mouse_draw(win_frame(s, r, c)))
      /\ base' = s.vga
      /\ step' = "paint"
      /\ UNCHANGED left

SaveFirst(r, c) ==   \* a bug: the new cells are saved before the old are put back
  LET s == mouse_hide(Screen)
      n == Restored(s, row, col, save)
  IN  /\ save' = Saved(s, r, c)
      /\ row' = r /\ col' = c
      /\ Becomes(mouse_draw(win_frame(n, r, c)))

MoveTo(r, c) ==
  LET s == Restored(mouse_hide(Screen), row, col, save)
  IN  /\ save' = Saved(s, r, c)
      /\ row' = r /\ col' = c
      /\ Becomes(mouse_draw(win_frame(s, r, c)))

MoveUnlimited(r, c) ==   \* a bug: the window takes the place that was asked for
  /\ row' = r /\ col' = c
  /\ UNCHANGED <<vga, under, shown, mx, my, save>>

win_move(r, c) == MoveTo(Limited(r, H, ROWS), Limited(c, W, COLS))

CloseShown ==   \* a bug: the cells are put back while the pointer is drawn
  /\ Becomes(mouse_draw(Restored(Screen, row, col, save)))
  /\ used' = FALSE /\ dragging' = FALSE

win_close ==
  /\ Becomes(mouse_draw(Restored(mouse_hide(Screen), row, col, save)))
  /\ used' = FALSE /\ dragging' = FALSE

-----------------------------------------------------------------------------
(* eword_open.  The content is written without a mouse_hide.               *)
Paint ==
  /\ step = "paint" /\ step' = "drag"
  /\ Becomes(mouse_draw(Painted(Screen, Content(row, col), TEXT)))
  /\ UNCHANGED <<left, used, dragging, row, col, save, base>>

OnTitle == my = row /\ mx \in col .. col + W + 1

win_drag_update ==
  /\ step = "drag" /\ step' = "key"
  /\ \/ /\ left /\ (dragging \/ OnTitle)
        /\ dragging' = TRUE
        /\ win_move(my, mx - 2)
     \/ /\ ~(left /\ (dragging \/ OnTitle))
        /\ dragging' = FALSE
        /\ UNCHANGED <<vga, under, shown, mx, my, row, col, save>>
  /\ UNCHANGED <<left, used, base>>

(* A key other than Esc: the loop starts again.                            *)
Key ==
  /\ step = "key" /\ step' = "paint"
  /\ Becomes(mouse_hide(Screen))
  /\ UNCHANGED <<left, used, dragging, row, col, save, base>>

Esc ==
  /\ step = "key" /\ step' = "close"
  /\ Becomes(mouse_hide(Screen))
  /\ UNCHANGED <<left, used, dragging, row, col, save, base>>

Close ==
  /\ step = "close" /\ step' = "clear"
  /\ win_close
  /\ UNCHANGED <<left, row, col, save, base>>

(* mouse_hide and vga_clear, in eword_open and again in the shell.         *)
Clear ==
  /\ step = "clear" /\ step' = "shell"
  /\ Becomes(Painted(mouse_hide(Screen), Cells, BLANK))
  /\ UNCHANGED <<left, used, dragging, row, col, save, base>>

(* mouse_feed, at the end of a packet: the pointer is moved, or a button   *)
(* changes, between two calls.                                             *)
FeedLeavesBlock ==   \* a bug: the pointer is moved before it is hidden
  \E p \in Cells, b \in BOOLEAN :
    /\ left' = b
    /\ Becomes(mouse_draw(mouse_hide([Screen EXCEPT !.x = p[2], !.y = p[1]])))
    /\ UNCHANGED <<used, dragging, row, col, save, step, base>>

mouse_feed ==
  \E p \in Cells, b \in BOOLEAN :
    /\ left' = b
    /\ Becomes(mouse_draw([mouse_hide(Screen) EXCEPT !.x = p[2], !.y = p[1]]))
    /\ UNCHANGED <<used, dragging, row, col, save, step, base>>

WindowsInit ==
  /\ vga = [p \in Cells |-> p[1] * COLS + p[2]]
  /\ under = 0 /\ shown = FALSE /\ mx = COLS \div 2 /\ my = ROWS \div 2 /\ left = FALSE
  /\ used = FALSE /\ dragging = FALSE /\ row = 0 /\ col = 0
  /\ save = [a \in Area |-> 0]
  /\ step = "shell" /\ base = vga

WindowsNext ==
  win_open \/ Paint \/ win_drag_update \/ Key \/ Esc \/ Close \/ Clear \/ mouse_feed

WindowsSpec == WindowsInit /\ [][WindowsNext]_winVars
-----------------------------------------------------------------------------
(* The types; the window is on the screen, the pointer too.                *)
WindowsTypeOK ==
  LET Value == -4 .. ROWS * COLS - 1
  IN  /\ vga \in [Cells -> Value] /\ base \in [Cells -> Value]
      /\ under \in Value /\ shown \in BOOLEAN /\ left \in BOOLEAN
      /\ <<my, mx>> \in Cells
      /\ used \in BOOLEAN /\ dragging \in BOOLEAN
      /\ save \in [Area -> Value]
      /\ At(row, col) \subseteq Cells
      /\ step \in {"shell", "paint", "drag", "key", "close", "clear"}

(* The screen without the pointer.                                         *)
Below == mouse_hide(Screen).vga

(* The window keeps what it covers and covers nothing but its own area,    *)
(* wherever it has been dragged to and whatever the pointer has done in    *)
(* between: no trace of the window or of the pointer is left behind.       *)
CoveredKept ==
  used => /\ \A a \in Area : save[a] = base[<<row + a[1], col + a[2]>>]
          /\ \A p \in Cells \ At(row, col) : Below[p] = base[p]

(* "closing a window restores every cell"                                  *)
CloseRestores == step = "clear" => Below = base

(* The border is whole whenever the window is open, also under the         *)
(* pointer.                                                                *)
BorderWhole == used => \A p \in Border(row, col) : Below[p] = FRAME
=============================================================================
