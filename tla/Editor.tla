-------------------------------- MODULE Editor -------------------------------
(***************************************************************************)
(* kernel/div.c: the editor, editor_open with its helpers.  The text is    *)
(* the first ed_len bytes of ed_buf; what is behind them is left from      *)
(* earlier texts.  Every key that changes something draws the screen       *)
(* again, which may scroll it (ed_top).                                    *)
(*                                                                         *)
(* Places in the text are counted from 0 as in the code: the byte behind   *)
(* place p is ed_buf[p + 1].                                               *)
(***************************************************************************)
EXTENDS Integers, Sequences, FiniteSets, SequencesExt

CONSTANTS
  Bytes,      \* the values of a byte of the buffer
  Keys,       \* the bytes that can be typed, '\n' among them
  NL,         \* '\n'
  Files,      \* the contents of the files that are opened
  MaxSize,    \* RMFS_MAX_SIZE
  ED_ROWS     \* the rows of the text on the screen

ASSUME EditorAssumption ==
  /\ MaxSize \in Nat \ {0} /\ ED_ROWS \in Nat \ {0}
  /\ Keys \subseteq Bytes /\ NL \in Keys
  /\ Files \subseteq Seq(Bytes) /\ \A f \in Files : Len(f) <= MaxSize

VARIABLES
  ed_buf, ed_len, ed_pos, ed_top, ed_goal,
  open,       \* TRUE while editor_open runs
  file        \* the content of the file

edVars == <<ed_buf, ed_len, ed_pos, ed_top, ed_goal, open, file>>
-----------------------------------------------------------------------------
(* ed_move(dst, src, n): n bytes from place src to place dst of buf.       *)
ed_move(buf, dst, src, n) ==
  [k \in DOMAIN buf |-> IF k \in dst + 1 .. dst + n THEN buf[k - dst + src] ELSE buf[k]]

LoopUpwards(buf, dst, src, n) ==   \* a bug: the loop always goes upwards
  FoldLeft(LAMBDA b, i : [b EXCEPT ![dst + i] = b[src + i]], buf, [i \in 1 .. n |-> i])

(* The loop of ed_move, byte by byte, in the direction that it chooses.    *)
MoveLoop(buf, dst, src, n) ==
  FoldLeft(LAMBDA b, i : [b EXCEPT ![dst + i] = b[src + i]], buf,
           [i \in 1 .. n |-> IF dst < src THEN i ELSE n + 1 - i])

ed_line_start(buf, pos) ==
  CHOOSE k \in 0 .. pos : /\ k = 0 \/ buf[k] = NL
                          /\ \A j \in k + 1 .. pos : buf[j] # NL
ed_col(buf, pos)     == pos - ed_line_start(buf, pos)
ed_line_no(buf, pos) == Cardinality({k \in 1 .. pos : buf[k] = NL})

(* ed_pos_of: the first loop stops at the start of the line or at the end  *)
(* of the text, the second at the column or at the end of the line.        *)
LineFrom(buf, len, line) ==
  CHOOSE p \in 0 .. len :
    /\ p = len \/ ed_line_no(buf, p) = line
    /\ \A q \in 0 .. p - 1 : ed_line_no(buf, q) # line

PosIgnoresEnd(buf, len, line, col) ==   \* a bug: the second loop runs over a '\n'
  LET start == LineFrom(buf, len, line)
  IN  IF start + col < len THEN start + col ELSE len

ed_pos_of(buf, len, line, col) ==
  LET start == LineFrom(buf, len, line)
  IN  CHOOSE p \in start .. len :
        /\ p = len \/ p = start + col \/ buf[p + 1] = NL
        /\ \A q \in start .. p - 1 : q # start + col /\ buf[q + 1] # NL

ScrolledLate(top, line) ==   \* a bug: > for >=
  IF line < top THEN line
  ELSE IF line > top + ED_ROWS THEN line - ED_ROWS + 1 ELSE top

Scrolled(top, line) ==
  IF line < top THEN line
  ELSE IF line >= top + ED_ROWS THEN line - ED_ROWS + 1 ELSE top

ed_draw(buf, pos, top) == ed_top' = Scrolled(top, ed_line_no(buf, pos))
-----------------------------------------------------------------------------
editor_open(f) ==
  /\ open = FALSE /\ open' = TRUE
  /\ file' = f
  /\ ed_buf' = [k \in DOMAIN ed_buf |-> IF k <= Len(f) THEN f[k] ELSE ed_buf[k]]
  /\ ed_len' = Len(f) /\ ed_pos' = Len(f) /\ ed_goal' = 0
  /\ ed_draw(ed_buf', ed_pos', 0)

Esc == open /\ open' = FALSE /\ UNCHANGED <<ed_buf, ed_len, ed_pos, ed_top, ed_goal, file>>

Content == SubSeq(ed_buf, 1, ed_len)

(* F2: a save that fails is shown and the editor goes on.                  *)
Save ==
  /\ open
  /\ \/ open' = FALSE /\ file' = Content /\ UNCHANGED ed_top
     \/ ed_draw(ed_buf, ed_pos, ed_top) /\ UNCHANGED <<open, file>>
  /\ UNCHANGED <<ed_buf, ed_len, ed_pos, ed_goal>>

(* The rest of a key that leaves the cursor at pos.                        *)
Put(buf, len, pos) ==
  /\ ed_buf' = buf /\ ed_len' = len /\ ed_pos' = pos
  /\ ed_draw(buf, pos, ed_top)
  /\ UNCHANGED <<open, file>>

Backspace ==
  /\ open /\ ed_pos > 0
  /\ LET buf == ed_move(ed_buf, ed_pos - 1, ed_pos, ed_len - ed_pos)
     IN  Put(buf, ed_len - 1, ed_pos - 1) /\ ed_goal' = ed_col(buf, ed_pos - 1)

Left ==
  /\ open /\ ed_pos > 0
  /\ Put(ed_buf, ed_len, ed_pos - 1) /\ ed_goal' = ed_col(ed_buf, ed_pos - 1)

Right ==
  /\ open /\ ed_pos < ed_len
  /\ Put(ed_buf, ed_len, ed_pos + 1) /\ ed_goal' = ed_col(ed_buf, ed_pos + 1)

Up ==
  /\ open
  /\ LET line == ed_line_no(ed_buf, ed_pos)
     IN  line > 0 /\ Put(ed_buf, ed_len, ed_pos_of(ed_buf, ed_len, line - 1, ed_goal))
  /\ UNCHANGED ed_goal

Down ==
  /\ open
  /\ LET line == ed_line_no(ed_buf, ed_pos)
     IN  Put(ed_buf, ed_len, ed_pos_of(ed_buf, ed_len, line + 1, ed_goal))
  /\ UNCHANGED ed_goal

InsertUnguarded(c) ==   \* a bug: no look at the room that is left
  /\ open
  /\ LET buf == [ed_move(ed_buf, ed_pos + 1, ed_pos, ed_len - ed_pos) EXCEPT ![ed_pos + 1] = c]
     IN  Put(buf, ed_len + 1, ed_pos + 1) /\ ed_goal' = ed_col(buf, ed_pos + 1)

Insert(c) ==
  /\ open /\ ed_len < MaxSize - 1
  /\ LET buf == [ed_move(ed_buf, ed_pos + 1, ed_pos, ed_len - ed_pos) EXCEPT ![ed_pos + 1] = c]
     IN  Put(buf, ed_len + 1, ed_pos + 1) /\ ed_goal' = ed_col(buf, ed_pos + 1)

EditorInit ==
  /\ ed_buf \in [1 .. MaxSize + 1 -> Bytes]
  /\ ed_len = 0 /\ ed_pos = 0 /\ ed_top = 0 /\ ed_goal = 0
  /\ open = FALSE /\ file = << >>

EditorNext ==
  \/ \E f \in Files : editor_open(f)
  \/ Esc \/ Save \/ Backspace \/ Left \/ Right \/ Up \/ Down
  \/ \E c \in Keys : Insert(c)

EditorSpec == EditorInit /\ [][EditorNext]_edVars
-----------------------------------------------------------------------------
(* The types; the text never fills the buffer over a file's size.          *)
EditorTypeOK ==
  /\ ed_buf \in [1 .. MaxSize + 1 -> Bytes]
  /\ ed_len \in 0 .. MaxSize /\ ed_pos \in 0 .. ed_len
  /\ ed_top \in Nat /\ ed_goal \in 0 .. MaxSize
  /\ open \in BOOLEAN /\ file \in Seq(Bytes)

(* The line of the cursor is on the screen after every key, also when      *)
(* lines are joined or a file is opened at its end.                        *)
CursorVisible ==
  open => ed_line_no(ed_buf, ed_pos) \in ed_top .. ed_top + ED_ROWS - 1

(* The loop of ed_move moves the bytes as if they did not overlap, in both *)
(* directions, wherever the cursor is.                                     *)
MoveExact ==
  open => /\ \A dst \in 0 .. ed_len - 1 :
               MoveLoop(ed_buf, dst, dst + 1, ed_len - dst - 1)
                 = ed_move(ed_buf, dst, dst + 1, ed_len - dst - 1)
          /\ ed_len <= MaxSize - 1 =>
               MoveLoop(ed_buf, ed_pos + 1, ed_pos, ed_len - ed_pos)
                 = ed_move(ed_buf, ed_pos + 1, ed_pos, ed_len - ed_pos)

TB == INSTANCE TextBuffer WITH
        Chars <- Keys, Limit <- MaxSize,
        before <- SubSeq(ed_buf, 1, ed_pos), after <- SubSeq(ed_buf, ed_pos + 1, ed_len),
        goal <- ed_goal

(* The editor is a text with a cursor: no key loses, doubles or moves a    *)
(* character, bytes behind the text never come back into it, and what is   *)
(* saved is what was typed.                                                *)
ImplementsTextBuffer == TB!Spec
=============================================================================
