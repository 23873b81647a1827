---------------------------- MODULE WindowsProofs ----------------------------
(***************************************************************************)
(* Windows: what is below the window and below the pointer is never lost,  *)
(* on a screen and with a window of any size.                              *)
(*                                                                         *)
(* The argument is about the screen without the pointer, Bare: drawing and *)
(* hiding the block, and moving it once it is hidden, leave Bare as it is; *)
(* putting back the saved cells makes it the screen from before the        *)
(* window; and framing and painting change it inside the window only.      *)
(***************************************************************************)
EXTENDS Windows, TLAPS

Value   == -4 .. ROWS * COLS - 1
Screens == [vga : [Cells -> Value], under : Value, shown : BOOLEAN,
            x : 0 .. COLS - 1, y : 0 .. ROWS - 1]

Bare(s) == mouse_hide(s).vga

-----------------------------------------------------------------------------
(* What is drawn is a value of a cell.                                     *)
LEMMA ValueFacts ==
  /\ ROWS * COLS \in Nat
  /\ FRAME \in Value /\ TEXT \in Value /\ BLOCK \in Value /\ BLANK \in Value
<1>1. ROWS * COLS \in Nat
  BY WindowsAssumption
<1> QED BY <1>1 DEF Value, FRAME, TEXT, BLOCK, BLANK

(* clamp_pos keeps the window with its border on the screen.               *)
LEMMA LimitedOnScreen ==
  ASSUME NEW v \in Int, NEW size \in Nat, NEW limit \in Nat, size + 2 <= limit
  PROVE  Limited(v, size, limit) \in 0 .. limit - size - 2
BY DEF Limited

LEMMA AreaOnScreen ==
  ASSUME NEW r \in 0 .. ROWS - H - 2, NEW c \in 0 .. COLS - W - 2
  PROVE  At(r, c) \subseteq Cells
BY WindowsAssumption DEF At, Area, Cells

(* A cell of the window is its place plus an offset, in one way.           *)
LEMMA CellOfArea ==
  ASSUME NEW r \in Int, NEW c \in Int, NEW p \in At(r, c)
  PROVE  /\ p = <<p[1], p[2]>> /\ p[1] \in Int /\ p[2] \in Int
         /\ <<p[1] - r, p[2] - c>> \in Area
         /\ p = <<r + <<p[1] - r, p[2] - c>>[1], c + <<p[1] - r, p[2] - c>>[2]>>
<1>1. PICK a \in Area : p = <<r + a[1], c + a[2]>>
  BY DEF At
<1>2. a = <<a[1], a[2]>> /\ a[1] \in Int /\ a[2] \in Int
  BY WindowsAssumption DEF Area
<1>3. p[1] - r = a[1] /\ p[2] - c = a[2]
  BY <1>1, <1>2
<1> QED BY <1>1, <1>2, <1>3

LEMMA ContentInside ==
  ASSUME NEW r \in Int, NEW c \in Int
  PROVE  Content(r, c) \subseteq At(r, c) /\ Content(r, c) \cap Border(r, c) = {}
<1>1. ASSUME NEW p \in Content(r, c) PROVE p \in At(r, c) /\ p \notin Border(r, c)
  <2>1. /\ p = <<p[1], p[2]>>
        /\ p[1] \in r + 1 .. r + H - 1 /\ p[2] \in c + 1 .. c + W - 1
    BY <1>1 DEF Content
  <2> DEFINE a == <<p[1] - r, p[2] - c>>
  <2>2. a \in Area
    BY <2>1, WindowsAssumption DEF Area
  <2>3. p = <<r + a[1], c + a[2]>>
    BY <2>1
  <2>4. p \in At(r, c)
    BY <2>2, <2>3 DEF At
  <2>5. p \notin Border(r, c)
    BY <2>1, WindowsAssumption DEF Border
  <2> QED BY <2>4, <2>5
<1> QED BY <1>1

LEMMA BorderInside ==
  ASSUME NEW r, NEW c PROVE Border(r, c) \subseteq At(r, c)
BY DEF Border

-----------------------------------------------------------------------------
(* The pointer is a layer of its own.                                      *)
LEMMA HideScreen ==
  ASSUME NEW s \in Screens
  PROVE  /\ mouse_hide(s) \in Screens /\ Bare(s) \in [Cells -> Value]
         /\ ~mouse_hide(s).shown
         /\ mouse_hide(s).x = s.x /\ mouse_hide(s).y = s.y
         /\ Bare(mouse_hide(s)) = Bare(s)
BY DEF mouse_hide, Screens, Bare, Cells

LEMMA BareShown ==
  ASSUME NEW s \in Screens
  PROVE  /\ ~s.shown => Bare(s) = s.vga
         /\ s.shown => Bare(s) = [s.vga EXCEPT ![<<s.y, s.x>>] = s.under]
BY DEF mouse_hide, Screens, Bare, Cells

LEMMA DrawScreen ==
  ASSUME NEW s \in Screens
  PROVE  mouse_draw(s) \in Screens /\ Bare(mouse_draw(s)) = Bare(s)
<1> DEFINE p == <<s.y, s.x>>
           d == mouse_draw(s)
<1>1. p \in Cells
  BY DEF Screens, Cells
<1>2. /\ d \in Screens /\ d.shown /\ d.x = s.x /\ d.y = s.y
      /\ d.vga = [s.vga EXCEPT ![p] = BLOCK]
      /\ d.under = IF s.shown THEN s.under ELSE s.vga[p]
  BY <1>1, ValueFacts DEF mouse_draw, Screens
<1>3. Bare(d) = [d.vga EXCEPT ![p] = d.under]
  BY <1>2, BareShown
<1>4. [d.vga EXCEPT ![p] = d.under] = [s.vga EXCEPT ![p] = d.under]
  BY <1>1, <1>2 DEF Screens
<1>5. CASE s.shown
  BY <1>2, <1>3, <1>4, <1>5, BareShown
<1>6. CASE ~s.shown
  <2>1. [s.vga EXCEPT ![p] = s.vga[p]] = s.vga
    BY <1>1 DEF Screens
  <2> QED BY <1>2, <1>3, <1>4, <1>6, <2>1, BareShown
<1> QED BY <1>5, <1>6, <1>2 DEF Screens

LEMMA FilledCells ==
  ASSUME NEW f \in [Cells -> Value], NEW S, NEW v \in Value
  PROVE  /\ Filled(f, S, v) \in [Cells -> Value]
         /\ \A p \in Cells : Filled(f, S, v)[p] = IF p \in S THEN v ELSE f[p]
BY DEF Filled

LEMMA PaintedScreen ==
  ASSUME NEW s \in Screens, NEW S, NEW v \in Value
  PROVE  /\ Painted(s, S, v) \in Screens
         /\ Painted(s, S, v).vga = Filled(s.vga, S, v)
         /\ Painted(s, S, v).shown = s.shown /\ Painted(s, S, v).under = s.under
         /\ Painted(s, S, v).x = s.x /\ Painted(s, S, v).y = s.y
BY FilledCells DEF Painted, Screens

(* win_frame: the border and nothing else.                                 *)
LEMMA FrameScreen ==
  ASSUME NEW s \in Screens, NEW r, NEW c
  PROVE  /\ win_frame(s, r, c) \in Screens
         /\ Bare(win_frame(s, r, c)) = Filled(Bare(s), Border(r, c), FRAME)
<1> DEFINE h == mouse_hide(s)
           t == Painted(h, Border(r, c), FRAME)
<1>1. h \in Screens /\ ~h.shown
  BY HideScreen
<1>2. t \in Screens /\ ~t.shown /\ t.vga = Filled(h.vga, Border(r, c), FRAME)
  BY <1>1, PaintedScreen, ValueFacts
<1>3. Bare(t) = Filled(Bare(s), Border(r, c), FRAME)
  BY <1>2, BareShown DEF Bare
<1> QED BY <1>2, <1>3, DrawScreen DEF win_frame

LEMMA SavedCells ==
  ASSUME NEW s \in Screens, NEW r \in 0 .. ROWS - H - 2, NEW c \in 0 .. COLS - W - 2
  PROVE  /\ Saved(s, r, c) \in [Area -> Value]
         /\ \A a \in Area : Saved(s, r, c)[a] = s.vga[<<r + a[1], c + a[2]>>]
<1>1. \A a \in Area : <<r + a[1], c + a[2]>> \in Cells
  BY AreaOnScreen DEF At
<1> QED BY <1>1 DEF Saved, Screens

LEMMA RestoredScreen ==
  ASSUME NEW s \in Screens, NEW r \in Int, NEW c \in Int, NEW f \in [Area -> Value]
  PROVE  /\ Restored(s, r, c, f) \in Screens
         /\ Restored(s, r, c, f).shown = s.shown
         /\ \A p \in Cells : Restored(s, r, c, f).vga[p] =
                               IF p \in At(r, c) THEN f[<<p[1] - r, p[2] - c>>] ELSE s.vga[p]
<1> DEFINE g == [p \in Cells |-> IF p \in At(r, c) THEN f[<<p[1] - r, p[2] - c>>]
                                                   ELSE s.vga[p]]
<1>1. ASSUME NEW p \in Cells PROVE g[p] \in Value
  BY CellOfArea DEF Screens
<1>2. g \in [Cells -> Value]
  BY <1>1
<1> HIDE DEF g
<1>3. Restored(s, r, c, f) = [s EXCEPT !.vga = g]
  BY DEF Restored, g
<1>4. Restored(s, r, c, f) \in Screens /\ Restored(s, r, c, f).vga = g
      /\ Restored(s, r, c, f).shown = s.shown
  BY <1>2, <1>3 DEF Screens
<1> QED BY <1>4 DEF g
-----------------------------------------------------------------------------
(* The inductive invariant: the types, a window that is placed on the      *)
(* screen and open between win_open and win_close, and the three           *)
(* properties of the screen, which hold together.                          *)
Placed   == row \in 0 .. ROWS - H - 2 /\ col \in 0 .. COLS - W - 2
OpenWhen == used <=> step \in {"paint", "drag", "key", "close"}

WindowsInv ==
  WindowsTypeOK /\ Placed /\ OpenWhen /\ CoveredKept /\ CloseRestores /\ BorderWhole

(* What the types say of the screen as a whole.                            *)
Typed ==
  /\ Screen \in Screens /\ base \in [Cells -> Value] /\ save \in [Area -> Value]
  /\ left \in BOOLEAN /\ used \in BOOLEAN /\ dragging \in BOOLEAN
  /\ step \in {"shell", "paint", "drag", "key", "close", "clear"}

LEMMA TypesOfScreen == Placed => (WindowsTypeOK <=> Typed)
<1> SUFFICES ASSUME Placed PROVE WindowsTypeOK <=> Typed
  OBVIOUS
<1>1. At(row, col) \subseteq Cells
  BY AreaOnScreen DEF Placed
<1>2. <<my, mx>> \in Cells <=> mx \in 0 .. COLS - 1 /\ my \in 0 .. ROWS - 1
  BY DEF Cells
<1>3. Screen \in Screens <=> /\ vga \in [Cells -> Value] /\ under \in Value
                            /\ shown \in BOOLEAN
                            /\ mx \in 0 .. COLS - 1 /\ my \in 0 .. ROWS - 1
  BY DEF Screen, Screens
<1> QED BY <1>1, <1>2, <1>3 DEF WindowsTypeOK, Typed, Value

(* A step that leaves the screen t behind.                                 *)
LEMMA ScreenBecomes ==
  ASSUME NEW t \in Screens, Becomes(t)
  PROVE  Screen' = t /\ Below' = Bare(t)
BY DEF Becomes, Screen, Screens, Below, Bare

(* The cells of the window and its border, as the next step has them.      *)
LEMMA PlaceSame ==
  ASSUME UNCHANGED <<row, col>>
  PROVE  At(row, col)' = At(row, col) /\ Border(row, col)' = Border(row, col)
BY DEF At, Border

(* The saved cells put back: the screen from before the window.            *)
LEMMA BaseRestored ==
  ASSUME Typed, Placed, used, CoveredKept
  PROVE  /\ Restored(mouse_hide(Screen), row, col, save) \in Screens
         /\ ~Restored(mouse_hide(Screen), row, col, save).shown
         /\ Restored(mouse_hide(Screen), row, col, save).vga = base
<1> DEFINE h == mouse_hide(Screen)
           t == Restored(h, row, col, save)
<1>1. h \in Screens /\ ~h.shown
  BY HideScreen DEF Typed
<1>2. /\ t \in Screens /\ t.shown = h.shown
      /\ \A p \in Cells : t.vga[p] = IF p \in At(row, col) THEN save[<<p[1] - row, p[2] - col>>]
                                                           ELSE h.vga[p]
  BY <1>1, RestoredScreen DEF Typed, Placed
<1>3. ASSUME NEW p \in Cells PROVE t.vga[p] = base[p]
  <2>1. CASE p \in At(row, col)
    <3>1. /\ <<p[1] - row, p[2] - col>> \in Area
          /\ p = <<row + <<p[1] - row, p[2] - col>>[1], col + <<p[1] - row, p[2] - col>>[2]>>
      BY <2>1, CellOfArea DEF Placed
    <3>2. save[<<p[1] - row, p[2] - col>>] = base[p]
      BY <3>1 DEF CoveredKept
    <3> QED BY <3>2, <1>2, <2>1
  <2>2. CASE p \notin At(row, col)
    BY <2>2, <1>2 DEF CoveredKept, Below
  <2> QED BY <2>1, <2>2
<1>4. t.vga \in [Cells -> Value]
  BY <1>2 DEF Screens
<1>5. t.vga = base
  BY <1>3, <1>4 DEF Typed
<1> QED BY <1>1, <1>2, <1>5

(* Opening a window on a screen without the pointer, at r and c: what      *)
(* win_open and win_move have in common.                                   *)
LEMMA WindowPut ==
  ASSUME NEW s \in Screens, ~s.shown,
         NEW r \in 0 .. ROWS - H - 2, NEW c \in 0 .. COLS - W - 2,
         Becomes(mouse_draw(win_frame(s, r, c))), save' = Saved(s, r, c),
         row' = r, col' = c, base' = s.vga
  PROVE  /\ Screen' \in Screens /\ save' \in [Area -> Value] /\ base' \in [Cells -> Value]
         /\ Placed' /\ CoveredKept' /\ BorderWhole'
<1> DEFINE t == mouse_draw(win_frame(s, r, c))
<1>1. t \in Screens /\ Bare(t) = Filled(s.vga, Border(r, c), FRAME)
  <2>1. Bare(s) = s.vga
    BY BareShown
  <2>2. win_frame(s, r, c) \in Screens /\ Bare(win_frame(s, r, c)) = Filled(s.vga, Border(r, c), FRAME)
    BY <2>1, FrameScreen
  <2> QED BY <2>2, DrawScreen
<1>2. Screen' = t /\ Below' = Bare(t)
  BY <1>1, ScreenBecomes
<1>3. At(row, col)' = At(r, c) /\ Border(row, col)' = Border(r, c)
  BY DEF At, Border
<1>4. At(r, c) \subseteq Cells /\ Border(r, c) \subseteq At(r, c)
  BY AreaOnScreen, BorderInside
<1>5. s.vga \in [Cells -> Value]
  BY DEF Screens
<1>6. \A p \in Cells : Below'[p] = IF p \in Border(r, c) THEN FRAME ELSE s.vga[p]
  BY <1>1, <1>2, <1>5, FilledCells, ValueFacts
<1>7. CoveredKept'
  <2>1. \A a \in Area : save'[a] = base'[<<row' + a[1], col' + a[2]>>]
    BY SavedCells
  <2>2. \A p \in Cells \ At(r, c) : Below'[p] = base'[p]
    BY <1>4, <1>6
  <2> QED BY <1>3, <2>1, <2>2 DEF CoveredKept
<1>8. BorderWhole'
  BY <1>3, <1>4, <1>6 DEF BorderWhole
<1>9. save' \in [Area -> Value]
  BY SavedCells
<1> QED BY <1>1, <1>2, <1>5, <1>7, <1>8, <1>9 DEF Placed

(* A step that leaves the window where it is and the screen below the      *)
(* pointer as it was, except for the content.                              *)
LEMMA WindowStays ==
  ASSUME Placed, CoveredKept, BorderWhole, UNCHANGED <<used, row, col, save, base>>,
         \A p \in Cells \ Content(row, col) : Below'[p] = Below[p]
  PROVE  Placed' /\ CoveredKept' /\ BorderWhole'
<1>1. /\ At(row, col) \subseteq Cells
      /\ Content(row, col) \subseteq At(row, col)
      /\ Content(row, col) \cap Border(row, col) = {}
      /\ Border(row, col) \subseteq At(row, col)
  BY AreaOnScreen, ContentInside, BorderInside DEF Placed
<1>2. At(row, col)' = At(row, col) /\ Border(row, col)' = Border(row, col)
  BY PlaceSame
<1>3. CoveredKept'
  <2>1. ASSUME used PROVE \A a \in Area : save'[a] = base'[<<row' + a[1], col' + a[2]>>]
    BY <2>1 DEF CoveredKept
  <2>2. ASSUME used PROVE \A p \in Cells \ At(row, col) : Below'[p] = base'[p]
    BY <1>1, <2>2 DEF CoveredKept
  <2> QED BY <1>2, <2>1, <2>2 DEF CoveredKept
<1>4. BorderWhole'
  BY <1>1, <1>2 DEF BorderWhole
<1>5. Placed'
  BY DEF Placed
<1> QED BY <1>3, <1>4, <1>5
-----------------------------------------------------------------------------
LEMMA WindowsInvInit == WindowsInit => WindowsInv
<1> SUFFICES ASSUME WindowsInit PROVE WindowsInv
  OBVIOUS
<1>1. Placed /\ OpenWhen /\ CoveredKept /\ CloseRestores /\ BorderWhole
  BY WindowsAssumption DEF WindowsInit, Placed, OpenWhen, CoveredKept, CloseRestores, BorderWhole
<1>2. ASSUME NEW i \in 0 .. ROWS - 1, NEW j \in 0 .. COLS - 1 PROVE i * COLS + j \in Value
  <2>1. i * COLS \in Nat /\ i * COLS <= (ROWS - 1) * COLS
    BY WindowsAssumption
  <2>2. (ROWS - 1) * COLS = ROWS * COLS - COLS
    BY WindowsAssumption
  <2> QED BY <2>1, <2>2, ValueFacts, WindowsAssumption DEF Value
<1>3. vga \in [Cells -> Value]
  BY <1>2 DEF WindowsInit, Cells
<1>4. 0 \in Value /\ mx \in 0 .. COLS - 1 /\ my \in 0 .. ROWS - 1
  BY ValueFacts, WindowsAssumption DEF WindowsInit, Value
<1>5. Screen \in Screens
  BY <1>3, <1>4 DEF WindowsInit, Screen, Screens
<1>6. Typed
  BY <1>3, <1>4, <1>5 DEF WindowsInit, Typed
<1> QED BY <1>1, <1>6, TypesOfScreen DEF WindowsInv

(* What a step has to show once the window and the screen are done.        *)
LEMMA InvFrom ==
  ASSUME Typed', Placed', OpenWhen', CoveredKept', BorderWhole', CloseRestores'
  PROVE  WindowsInv'
<1>1. (Placed => (WindowsTypeOK <=> Typed))'
  BY TypesOfScreen, PTL
<1> QED BY <1>1 DEF WindowsInv

LEMMA OpenStep == WindowsInv /\ win_open => WindowsInv'
<1> SUFFICES ASSUME WindowsInv, win_open PROVE WindowsInv'
  OBVIOUS
<1> DEFINE r == Limited(WROW, H, ROWS)
           c == Limited(WCOL, W, COLS)
           s == mouse_hide(Screen)
<1>1. Typed
  BY TypesOfScreen DEF WindowsInv
<1>2. s \in Screens /\ ~s.shown
  BY <1>1, HideScreen DEF Typed
<1>3. r \in 0 .. ROWS - H - 2 /\ c \in 0 .. COLS - W - 2
  BY LimitedOnScreen, WindowsAssumption
<1>4. /\ save' = Saved(s, r, c) /\ row' = r /\ col' = c /\ base' = s.vga
      /\ used' = TRUE /\ dragging' = FALSE /\ step' = "paint" /\ left' = left
      /\ Becomes(mouse_draw(win_frame(s, r, c)))
  BY DEF win_open
<1>5. /\ Screen' \in Screens /\ save' \in [Area -> Value] /\ base' \in [Cells -> Value]
      /\ Placed' /\ CoveredKept' /\ BorderWhole'
  <2> HIDE DEF r, c, s
  <2> QED BY <1>2, <1>3, <1>4, WindowPut
<1>6. Typed' /\ OpenWhen' /\ CloseRestores'
  BY <1>1, <1>4, <1>5 DEF Typed, OpenWhen, CloseRestores
<1> QED BY <1>5, <1>6, InvFrom

(* A drag: the old place is uncovered, then the new one is covered.        *)
LEMMA DragStep == WindowsInv /\ win_drag_update => WindowsInv'
<1> SUFFICES ASSUME WindowsInv, win_drag_update PROVE WindowsInv'
  OBVIOUS
<1>1. Typed /\ used /\ Placed /\ CoveredKept
  BY TypesOfScreen DEF WindowsInv, win_drag_update, OpenWhen
<1>2. step' = "key" /\ UNCHANGED <<left, used, base>> /\ dragging' \in BOOLEAN
  BY DEF win_drag_update
<1>3. OpenWhen' /\ CloseRestores'
  BY <1>1, <1>2 DEF OpenWhen, CloseRestores
<1>4. CASE win_move(my, mx - 2)
  <2> DEFINE r == Limited(my, H, ROWS)
             c == Limited(mx - 2, W, COLS)
             s == Restored(mouse_hide(Screen), row, col, save)
  <2>1. my \in Int /\ mx - 2 \in Int
    BY <1>1 DEF Typed, Screen, Screens
  <2>2. r \in 0 .. ROWS - H - 2 /\ c \in 0 .. COLS - W - 2
    BY <2>1, LimitedOnScreen, WindowsAssumption
  <2>3. s \in Screens /\ ~s.shown /\ s.vga = base
    BY <1>1, BaseRestored
  <2>4. /\ save' = Saved(s, r, c) /\ row' = r /\ col' = c
        /\ Becomes(mouse_draw(win_frame(s, r, c)))
    BY <1>4 DEF win_move, MoveTo
  <2>5. /\ Screen' \in Screens /\ save' \in [Area -> Value] /\ base' \in [Cells -> Value]
        /\ Placed' /\ CoveredKept' /\ BorderWhole'
    <3> HIDE DEF r, c, s
    <3> QED BY <1>2, <2>2, <2>3, <2>4, WindowPut
  <2>6. Typed'
    BY <1>1, <1>2, <2>5 DEF Typed
  <2> QED BY <1>3, <2>5, <2>6, InvFrom
<1>5. CASE ~win_move(my, mx - 2)
  <2>1. UNCHANGED <<vga, under, shown, mx, my, row, col, save>>
    BY <1>5 DEF win_drag_update
  <2>2. Screen' = Screen /\ Below' = Below
    BY <2>1 DEF Screen, Below
  <2>3. Placed' /\ CoveredKept' /\ BorderWhole'
    BY <1>2, <2>1, <2>2, WindowStays DEF WindowsInv
  <2>4. Typed'
    BY <1>1, <1>2, <2>1, <2>2 DEF Typed
  <2> QED BY <1>3, <2>3, <2>4, InvFrom
<1> QED BY <1>4, <1>5

(* The steps that leave the window alone and the screen t behind, which is *)
(* as before but for the content and the pointer.                          *)
LEMMA SameWindow ==
  ASSUME WindowsInv, NEW t \in Screens, Becomes(t), left' \in BOOLEAN,
         UNCHANGED <<used, dragging, row, col, save, base>>,
         \A p \in Cells \ Content(row, col) : Bare(t)[p] = Below[p],
         step' \in {"shell", "paint", "drag", "key", "close", "clear"},
         OpenWhen', step' = "clear" => step = "clear" /\ Bare(t) = Below
  PROVE  WindowsInv'
<1>1. Typed
  BY TypesOfScreen DEF WindowsInv
<1>2. Screen' = t /\ Below' = Bare(t)
  BY ScreenBecomes
<1>3. Placed' /\ CoveredKept' /\ BorderWhole'
  BY <1>2, WindowStays DEF WindowsInv
<1>4. Typed'
  BY <1>1, <1>2 DEF Typed
<1>5. CloseRestores'
  BY <1>2 DEF WindowsInv, CloseRestores
<1> QED BY <1>3, <1>4, <1>5, InvFrom

LEMMA PaintStep == WindowsInv /\ Paint => WindowsInv'
<1> SUFFICES ASSUME WindowsInv, Paint PROVE WindowsInv'
  OBVIOUS
<1> DEFINE C == Content(row, col)
           q == Painted(Screen, C, TEXT)
           t == mouse_draw(q)
<1>1. Screen \in Screens
  BY TypesOfScreen DEF WindowsInv, Typed
<1>2. /\ q \in Screens /\ q.vga = Filled(Screen.vga, C, TEXT)
      /\ q.shown = Screen.shown /\ q.under = Screen.under
      /\ q.x = Screen.x /\ q.y = Screen.y
  BY <1>1, PaintedScreen, ValueFacts
<1>3. t \in Screens /\ Bare(t) = Bare(q)
  BY <1>2, DrawScreen
<1>4. ASSUME NEW p \in Cells \ C PROVE Bare(q)[p] = Below[p]
  <2> DEFINE b == <<Screen.y, Screen.x>>
  <2>1. b \in Cells /\ Screen.vga \in [Cells -> Value]
    BY <1>1 DEF Screens, Cells
  <2>2. q.vga[p] = Screen.vga[p] /\ q.vga \in [Cells -> Value]
    BY <1>2, <2>1, FilledCells, ValueFacts
  <2>3. Below = Bare(Screen)
    BY DEF Below, Bare
  <2>4. CASE Screen.shown
    <3>1. Bare(q) = [q.vga EXCEPT ![b] = Screen.under] /\ Below = [Screen.vga EXCEPT ![b] = Screen.under]
      BY <1>1, <1>2, <2>3, <2>4, BareShown
    <3> HIDE DEF q, b
    <3> QED BY <2>1, <2>2, <3>1
  <2>5. CASE ~Screen.shown
    BY <1>1, <1>2, <2>2, <2>3, <2>5, BareShown
  <2> QED BY <2>4, <2>5
<1>5. /\ Becomes(t) /\ step' = "drag" /\ step = "paint"
      /\ UNCHANGED <<left, used, dragging, row, col, save, base>>
  BY DEF Paint
<1>6. OpenWhen' /\ left' \in BOOLEAN
  BY <1>5 DEF WindowsInv, OpenWhen, WindowsTypeOK
<1> HIDE DEF C, q, t
<1> QED BY <1>3, <1>4, <1>5, <1>6, SameWindow DEF C

(* Key, Esc: the block is taken away.                                      *)
LEMMA KeyStep == WindowsInv /\ (Key \/ Esc) => WindowsInv'
<1> SUFFICES ASSUME WindowsInv, Key \/ Esc PROVE WindowsInv'
  OBVIOUS
<1>1. Screen \in Screens
  BY TypesOfScreen DEF WindowsInv, Typed
<1>2. mouse_hide(Screen) \in Screens /\ Bare(mouse_hide(Screen)) = Below
  BY <1>1, HideScreen DEF Below, Bare
<1>3. /\ Becomes(mouse_hide(Screen)) /\ step = "key" /\ step' \in {"paint", "close"}
      /\ UNCHANGED <<left, used, dragging, row, col, save, base>>
  BY DEF Key, Esc
<1>4. OpenWhen' /\ left' \in BOOLEAN
  BY <1>3 DEF WindowsInv, OpenWhen, WindowsTypeOK
<1> QED BY <1>2, <1>3, <1>4, SameWindow

(* A packet: hidden, moved, drawn.                                         *)
LEMMA FeedStep == WindowsInv /\ mouse_feed => WindowsInv'
<1> SUFFICES ASSUME WindowsInv, mouse_feed PROVE WindowsInv'
  OBVIOUS
<1>1. Screen \in Screens
  BY TypesOfScreen DEF WindowsInv, Typed
<1>2. PICK p \in Cells, b \in BOOLEAN :
        /\ left' = b
        /\ Becomes(mouse_draw([mouse_hide(Screen) EXCEPT !.x = p[2], !.y = p[1]]))
        /\ UNCHANGED <<used, dragging, row, col, save, step, base>>
  BY DEF mouse_feed
<1> DEFINE h == mouse_hide(Screen)
           q == [h EXCEPT !.x = p[2], !.y = p[1]]
<1>3. h \in Screens /\ ~h.shown
  BY <1>1, HideScreen
<1>4. q \in Screens /\ ~q.shown /\ q.vga = h.vga
  <2> HIDE DEF h
  <2> QED BY <1>3 DEF Screens, Cells
<1>5. Bare(q) = Below
  BY <1>4, BareShown DEF Below
<1>6. mouse_draw(q) \in Screens /\ Bare(mouse_draw(q)) = Below
  BY <1>4, <1>5, DrawScreen
<1>7. OpenWhen' /\ step' \in {"shell", "paint", "drag", "key", "close", "clear"}
  BY <1>2 DEF WindowsInv, OpenWhen, WindowsTypeOK
<1> HIDE DEF q
<1> QED BY <1>2, <1>6, <1>7, SameWindow DEF q

(* The saved cells go back, below the pointer.                             *)
LEMMA CloseStep == WindowsInv /\ Close => WindowsInv'
<1> SUFFICES ASSUME WindowsInv, Close PROVE WindowsInv'
  OBVIOUS
<1> DEFINE s == Restored(mouse_hide(Screen), row, col, save)
           t == mouse_draw(s)
<1>1. Typed /\ Placed /\ used /\ CoveredKept
  BY TypesOfScreen DEF WindowsInv, Close, OpenWhen
<1>2. s \in Screens /\ ~s.shown /\ s.vga = base
  BY <1>1, BaseRestored
<1>3. t \in Screens /\ Bare(t) = base
  BY <1>2, DrawScreen, BareShown
<1>4. /\ Becomes(t) /\ step' = "clear" /\ used' = FALSE /\ dragging' = FALSE
      /\ UNCHANGED <<left, row, col, save, base>>
  BY DEF Close, win_close
<1>5. Screen' = t /\ Below' = base
  <2> HIDE DEF t
  <2> QED BY <1>3, <1>4, ScreenBecomes
<1>6. Typed' /\ Placed' /\ OpenWhen'
  BY <1>1, <1>3, <1>4, <1>5 DEF Typed, Placed, OpenWhen
<1>7. CoveredKept' /\ BorderWhole' /\ CloseRestores'
  BY <1>4, <1>5 DEF CoveredKept, BorderWhole, CloseRestores
<1> QED BY <1>6, <1>7, InvFrom

LEMMA ClearStep == WindowsInv /\ Clear => WindowsInv'
<1> SUFFICES ASSUME WindowsInv, Clear PROVE WindowsInv'
  OBVIOUS
<1> DEFINE h == mouse_hide(Screen)
           t == Painted(h, Cells, BLANK)
<1>1. Typed /\ Placed /\ ~used
  BY TypesOfScreen DEF WindowsInv, Clear, OpenWhen
<1>2. t \in Screens
  BY <1>1, HideScreen, PaintedScreen, ValueFacts DEF Typed
<1>3. /\ Becomes(t) /\ step' = "shell"
      /\ UNCHANGED <<left, used, dragging, row, col, save, base>>
  BY DEF Clear
<1>4. Screen' = t
  <2> HIDE DEF t
  <2> QED BY <1>2, <1>3, ScreenBecomes
<1>5. Typed' /\ Placed' /\ OpenWhen'
  BY <1>1, <1>2, <1>3, <1>4 DEF Typed, Placed, OpenWhen
<1>6. CoveredKept' /\ BorderWhole' /\ CloseRestores'
  BY <1>1, <1>3 DEF CoveredKept, BorderWhole, CloseRestores
<1> QED BY <1>5, <1>6, InvFrom

THEOREM WindowsInvariant == WindowsSpec => []WindowsInv
<1>1. WindowsInv /\ [WindowsNext]_winVars => WindowsInv'
  <2> SUFFICES ASSUME WindowsInv, [WindowsNext]_winVars PROVE WindowsInv'
    OBVIOUS
  <2>1. CASE WindowsNext
    BY <2>1, OpenStep, PaintStep, DragStep, KeyStep, CloseStep, ClearStep, FeedStep DEF WindowsNext
  <2>2. CASE UNCHANGED winVars
    <3>1. Typed
      BY TypesOfScreen DEF WindowsInv
    <3>2. Screen' = Screen /\ Below' = Below
      BY <2>2 DEF winVars, Screen, Below
    <3>3. Typed' /\ OpenWhen' /\ CloseRestores'
      BY <2>2, <3>1, <3>2 DEF winVars, Typed, OpenWhen, CloseRestores, WindowsInv
    <3>4. Placed' /\ CoveredKept' /\ BorderWhole'
      BY <2>2, <3>2, WindowStays DEF winVars, WindowsInv
    <3> QED BY <3>3, <3>4, InvFrom
  <2> QED BY <2>1, <2>2
<1> QED BY <1>1, WindowsInvInit, PTL DEF WindowsSpec

(* The window and the pointer are always on the screen, wherever they are  *)
(* dragged to.                                                             *)
THEOREM WindowsTypeCorrect == WindowsSpec => []WindowsTypeOK
<1>1. WindowsInv => WindowsTypeOK
  BY DEF WindowsInv
<1> QED BY <1>1, WindowsInvariant, PTL

(* What the window covers is kept, and nothing else is touched.            *)
THEOREM WindowsCoveredKept == WindowsSpec => []CoveredKept
<1>1. WindowsInv => CoveredKept
  BY DEF WindowsInv
<1> QED BY <1>1, WindowsInvariant, PTL

(* "closing a window restores every cell"                                  *)
THEOREM WindowsCloseRestores == WindowsSpec => []CloseRestores
<1>1. WindowsInv => CloseRestores
  BY DEF WindowsInv
<1> QED BY <1>1, WindowsInvariant, PTL

(* The border is whole below the pointer while the window is open.         *)
THEOREM WindowsBorderWhole == WindowsSpec => []BorderWhole
<1>1. WindowsInv => BorderWhole
  BY DEF WindowsInv
<1> QED BY <1>1, WindowsInvariant, PTL
=============================================================================
