------------------------------ MODULE ToolProofs -----------------------------
(***************************************************************************)
(* The theorems of the two tools whose models stand alone, the text editor *)
(* of div (module Editor) and the assembler (module Cwa).                  *)
(*                                                                         *)
(* Editor, for buffers and screens of any size, any files and any keys:    *)
(*   - the types, with the cursor inside the text and the text inside the  *)
(*     buffer, and the line of the cursor on the screen are invariant      *)
(*     (EditorInv is inductive as it stands);                              *)
(*   - the loop of ed_move is the move that the model makes in one go;     *)
(*   - the editor refines the text with a cursor of module TextBuffer.     *)
(*     What takes work is that the counts and searches of the code         *)
(*     (ed_line_no, ed_line_start, ed_pos_of) find the rows and columns of *)
(*     the text.                                                           *)
(*                                                                         *)
(* Cwa, for every program: the layout that is used is one layout, what is  *)
(* emitted has its places and its sizes, and the passes end after as many  *)
(* as there are branches, and two.                                         *)
(***************************************************************************)
EXTENDS Editor, Cwa, LoopLemmas, FiniteSetTheorems, SequenceTheorems, TLAPS

EditorInv == EditorTypeOK /\ CursorVisible

Buffer == [1 .. MaxSize + 1 -> Bytes]
-----------------------------------------------------------------------------
(* The helpers.  A line number is a number of line ends in front.          *)
LEMMA LineNoNat ==
  ASSUME NEW buf, NEW p \in Nat
  PROVE  /\ ed_line_no(buf, p) \in Nat
         /\ IsFiniteSet({k \in 1 .. p : buf[k] = NL})
<1>1. IsFiniteSet(1 .. p)
  BY FS_Interval
<1>2. IsFiniteSet({k \in 1 .. p : buf[k] = NL})
  BY <1>1, FS_Subset
<1> QED BY <1>2, FS_CardinalityType DEF ed_line_no

(* ed_draw leaves the line on the screen.                                  *)
LEMMA ScrolledShows ==
  ASSUME NEW top \in Nat, NEW line \in Nat
  PROVE  /\ Scrolled(top, line) \in Nat
         /\ line \in Scrolled(top, line) .. Scrolled(top, line) + ED_ROWS - 1
BY EditorAssumption DEF Scrolled

(* The loop of ed_line_start ends at the start of the line.                *)
LEMMA LineStart ==
  ASSUME NEW buf, NEW p \in Nat
  PROVE  LET s == ed_line_start(buf, p)
         IN  /\ s \in 0 .. p
             /\ s = 0 \/ buf[s] = NL
             /\ \A j \in s + 1 .. p : buf[j] # NL
<1> DEFINE Stops == {d \in 0 .. p : p - d = 0 \/ buf[p - d] = NL}
<1>1. Stops \in SUBSET Nat /\ p \in Stops
  OBVIOUS
<1>2. PICK d \in Stops : \A e \in Stops : d <= e
  BY <1>1, LeastNat
<1>3. d \in 0 .. p /\ (p - d = 0 \/ buf[p - d] = NL)
  OBVIOUS
<1>4. ASSUME NEW j \in p - d + 1 .. p, buf[j] = NL PROVE FALSE
  <2>1. p - j \in 0 .. p /\ p - (p - j) = j /\ ~(d <= p - j)
    BY <1>3
  <2>2. p - j \in Stops
    BY <2>1, <1>4
  <2> QED BY <2>1, <2>2, <1>2
<1>5. \E s \in 0 .. p : /\ s = 0 \/ buf[s] = NL
                        /\ \A j \in s + 1 .. p : buf[j] # NL
  <2>1. p - d \in 0 .. p
    BY <1>3
  <2> HIDE DEF Stops
  <2> QED BY <2>1, <1>3, <1>4
<1> HIDE DEF Stops
<1> QED BY <1>5 DEF ed_line_start

(* A column is no further right than the place.                            *)
LEMMA ColRange ==
  ASSUME NEW buf, NEW p \in Nat
  PROVE  ed_col(buf, p) \in 0 .. p
BY LineStart DEF ed_col

(* The first loop of ed_pos_of ends at the first place of the line, or at  *)
(* the end of the text.                                                    *)
LEMMA LineFromFirst ==
  ASSUME NEW buf, NEW len \in Nat, NEW line
  PROVE  LET s == LineFrom(buf, len, line)
         IN  /\ s \in 0 .. len
             /\ s = len \/ ed_line_no(buf, s) = line
             /\ \A q \in 0 .. s - 1 : ed_line_no(buf, q) # line
<1> DEFINE Stops == {p \in 0 .. len : p = len \/ ed_line_no(buf, p) = line}
<1>1. Stops \in SUBSET Nat /\ len \in Stops
  OBVIOUS
<1>2. PICK s \in Stops : \A e \in Stops : s <= e
  BY <1>1, LeastNat
<1>3. s \in 0 .. len /\ (s = len \/ ed_line_no(buf, s) = line)
  OBVIOUS
<1>4. ASSUME NEW q \in 0 .. s - 1 PROVE ed_line_no(buf, q) # line
  <2>1. q \in 0 .. len /\ ~(s <= q)
    BY <1>3
  <2> QED BY <2>1, <1>2
<1> HIDE DEF Stops
<1> QED BY <1>3, <1>4 DEF LineFrom

(* The second loop ends at the column or at the end of the line.           *)
LEMMA PosOfStops ==
  ASSUME NEW buf, NEW len \in Nat, NEW line, NEW col \in Nat
  PROVE  LET s == LineFrom(buf, len, line)
             p == ed_pos_of(buf, len, line, col)
         IN  /\ s \in 0 .. len /\ p \in s .. len
             /\ p = len \/ p = s + col \/ buf[p + 1] = NL
             /\ \A q \in s .. p - 1 : q # s + col /\ buf[q + 1] # NL
<1> DEFINE s == LineFrom(buf, len, line)
           Stops == {p \in s .. len : p = len \/ p = s + col \/ buf[p + 1] = NL}
<1>1. s \in 0 .. len
  BY LineFromFirst
<1> HIDE DEF s
<1>2. Stops \in SUBSET Nat /\ len \in Stops
  BY <1>1
<1>3. PICK p \in Stops : \A e \in Stops : p <= e
  BY <1>2, LeastNat
<1>4. p \in s .. len /\ (p = len \/ p = s + col \/ buf[p + 1] = NL)
  OBVIOUS
<1>5. ASSUME NEW q \in s .. p - 1 PROVE q # s + col /\ buf[q + 1] # NL
  <2>1. q \in s .. len /\ ~(p <= q)
    BY <1>1, <1>4
  <2> QED BY <2>1, <1>3
<1> HIDE DEF Stops
<1>6. \E x \in s .. len : /\ x = len \/ x = s + col \/ buf[x + 1] = NL
                          /\ \A q \in s .. x - 1 : q # s + col /\ buf[q + 1] # NL
  BY <1>4, <1>5
<1> QED BY <1>1, <1>6 DEF ed_pos_of, s

(* ed_pos_of stays inside the text, whatever line is asked for.            *)
LEMMA PosOfRange ==
  ASSUME NEW buf, NEW len \in Nat, NEW line, NEW col \in Nat
  PROVE  ed_pos_of(buf, len, line, col) \in 0 .. len
<1>1. LineFrom(buf, len, line) \in 0 .. len
      /\ ed_pos_of(buf, len, line, col) \in LineFrom(buf, len, line) .. len
  BY PosOfStops
<1> QED BY <1>1

(* ed_move stays inside the buffer.                                        *)
LEMMA MoveBuffer ==
  ASSUME NEW buf \in Buffer, NEW dst \in Nat, NEW src \in Nat, NEW n \in Nat,
         src + n <= MaxSize + 1
  PROVE  ed_move(buf, dst, src, n) \in Buffer
BY EditorAssumption DEF ed_move, Buffer
-----------------------------------------------------------------------------
(* Every key that moves or changes text ends in Put, and ed_draw makes the *)
(* invariant true again wherever the cursor has gone.                      *)
LEMMA PutKeepsInv ==
  ASSUME EditorInv, open,
         NEW buf \in Buffer, NEW len \in 0 .. MaxSize, NEW pos \in 0 .. len,
         NEW goal \in 0 .. MaxSize,
         Put(buf, len, pos), ed_goal' = goal
  PROVE  EditorInv'
<1> DEFINE line == ed_line_no(buf, pos)
<1>1. MaxSize \in Nat /\ pos \in Nat /\ ed_top \in Nat
  BY EditorAssumption DEF EditorInv, EditorTypeOK
<1>2. line \in Nat
  BY <1>1, LineNoNat
<1>3. ed_top' = Scrolled(ed_top, line) /\ ed_line_no(ed_buf', ed_pos') = line
  BY DEF Put, ed_draw
<1> HIDE DEF line
<1>4. ed_top' \in Nat /\ line \in ed_top' .. ed_top' + ED_ROWS - 1
  BY <1>1, <1>2, <1>3, ScrolledShows
<1>5. EditorTypeOK'
  BY <1>4 DEF EditorInv, EditorTypeOK, Put, Buffer
<1>6. CursorVisible'
  BY <1>3, <1>4 DEF CursorVisible
<1> QED BY <1>5, <1>6 DEF EditorInv

(* The text in front of a place of the buffer is a sequence of bytes.      *)
LEMMA Piece ==
  ASSUME NEW buf \in Buffer, NEW m \in 1 .. MaxSize + 1, NEW n \in 0 .. MaxSize + 1,
         m <= n + 1
  PROVE  /\ SubSeq(buf, m, n) \in Seq(Bytes)
         /\ Len(SubSeq(buf, m, n)) = n - m + 1
         /\ \A i \in 1 .. n - m + 1 : SubSeq(buf, m, n)[i] = buf[m + i - 1]
<1>1. MaxSize \in Nat
  BY EditorAssumption
<1>2. buf \in Seq(Bytes) /\ Len(buf) = MaxSize + 1
  BY <1>1 DEF Buffer
<1> QED BY <1>1, <1>2, SubSeqProperties DEF Buffer

(* The buffer with a character put in at the cursor.                       *)
Opened(c) ==
  [ed_move(ed_buf, ed_pos + 1, ed_pos, ed_len - ed_pos) EXCEPT ![ed_pos + 1] = c]

Closed == ed_move(ed_buf, ed_pos - 1, ed_pos, ed_len - ed_pos)

(* Every key keeps the invariant.                                          *)
LEMMA EditorStep ==
  ASSUME EditorInv, [EditorNext]_edVars
  PROVE  EditorInv'
<1>0. /\ MaxSize \in Nat \ {0} /\ ed_buf \in Buffer
      /\ ed_len \in 0 .. MaxSize /\ ed_pos \in 0 .. ed_len
      /\ ed_len \in Nat /\ ed_pos \in Nat /\ ed_len - ed_pos \in Nat
      /\ ed_goal \in 0 .. MaxSize /\ ed_goal \in Nat
  BY EditorAssumption DEF EditorInv, EditorTypeOK, Buffer
<1>1. ASSUME NEW f \in Files, editor_open(f) PROVE EditorInv'
  <2>1. f \in Seq(Bytes) /\ Len(f) \in 0 .. MaxSize
    BY EditorAssumption
  <2>2. ed_buf' \in Buffer
    BY <1>0, <1>1, <2>1 DEF editor_open, Buffer
  <2>3. ed_line_no(ed_buf', ed_pos') \in Nat
    <3>1. ed_pos' \in Nat
      BY <1>1, <2>1 DEF editor_open
    <3> QED BY <3>1, LineNoNat
  <2>4. ed_top' = Scrolled(0, ed_line_no(ed_buf', ed_pos'))
    BY <1>1 DEF editor_open, ed_draw
  <2>5. /\ ed_top' \in Nat
        /\ ed_line_no(ed_buf', ed_pos') \in ed_top' .. ed_top' + ED_ROWS - 1
    BY <2>3, <2>4, ScrolledShows
  <2>6. /\ open' = TRUE /\ file' = f /\ ed_len' = Len(f) /\ ed_pos' = Len(f)
        /\ ed_goal' = 0
    BY <1>1 DEF editor_open
  <2>7. EditorTypeOK'
    BY <1>0, <2>1, <2>2, <2>5, <2>6 DEF EditorTypeOK, Buffer
  <2> QED BY <2>5, <2>7 DEF EditorInv, CursorVisible
<1>2. CASE Esc
  BY <1>2 DEF Esc, EditorInv, EditorTypeOK, CursorVisible
<1>3. CASE Save
  <2>1. Content \in Seq(Bytes)
    <3>1. 1 \in 1 .. MaxSize + 1 /\ ed_len \in 0 .. MaxSize + 1 /\ 1 <= ed_len + 1
      BY <1>0
    <3> QED BY <1>0, <3>1, Piece DEF Content
  <2>2. CASE open' = FALSE /\ file' = Content /\ UNCHANGED ed_top
    BY <1>3, <2>1, <2>2 DEF Save, EditorInv, EditorTypeOK, CursorVisible
  <2>3. CASE ed_draw(ed_buf, ed_pos, ed_top) /\ UNCHANGED <<open, file>>
    <3>1. open /\ Put(ed_buf, ed_len, ed_pos) /\ ed_goal' = ed_goal
      BY <1>3, <2>3 DEF Save, Put
    <3> QED BY <1>0, <3>1, PutKeepsInv
  <2> QED BY <1>3, <2>2, <2>3 DEF Save
<1>4. CASE Backspace
  <2>1. /\ open /\ ed_pos > 0 /\ Put(Closed, ed_len - 1, ed_pos - 1)
        /\ ed_goal' = ed_col(Closed, ed_pos - 1)
    BY <1>4 DEF Backspace, Closed
  <2>2. ed_pos - 1 \in Nat /\ ed_pos - 1 \in 0 .. ed_len - 1 /\ ed_len - 1 \in 0 .. MaxSize
    BY <1>0, <2>1
  <2>3. Closed \in Buffer
    BY <1>0, <2>2, MoveBuffer DEF Closed
  <2>4. ed_col(Closed, ed_pos - 1) \in 0 .. ed_pos - 1
    BY <2>2, ColRange
  <2>5. ed_col(Closed, ed_pos - 1) \in 0 .. MaxSize
    BY <1>0, <2>2, <2>4
  <2> QED BY <2>1, <2>2, <2>3, <2>5, PutKeepsInv
<1>5. CASE Left
  <2>1. /\ open /\ ed_pos > 0 /\ Put(ed_buf, ed_len, ed_pos - 1)
        /\ ed_goal' = ed_col(ed_buf, ed_pos - 1)
    BY <1>5 DEF Left
  <2>2. ed_pos - 1 \in Nat /\ ed_pos - 1 \in 0 .. ed_len
    BY <1>0, <2>1
  <2>3. ed_col(ed_buf, ed_pos - 1) \in 0 .. ed_pos - 1
    BY <2>2, ColRange
  <2>4. ed_col(ed_buf, ed_pos - 1) \in 0 .. MaxSize
    BY <1>0, <2>2, <2>3
  <2> QED BY <1>0, <2>1, <2>2, <2>4, PutKeepsInv
<1>6. CASE Right
  <2>1. /\ open /\ ed_pos < ed_len /\ Put(ed_buf, ed_len, ed_pos + 1)
        /\ ed_goal' = ed_col(ed_buf, ed_pos + 1)
    BY <1>6 DEF Right
  <2>2. ed_pos + 1 \in Nat /\ ed_pos + 1 \in 0 .. ed_len
    BY <1>0, <2>1
  <2>3. ed_col(ed_buf, ed_pos + 1) \in 0 .. ed_pos + 1
    BY <2>2, ColRange
  <2>4. ed_col(ed_buf, ed_pos + 1) \in 0 .. MaxSize
    BY <1>0, <2>2, <2>3
  <2> QED BY <1>0, <2>1, <2>2, <2>4, PutKeepsInv
<1>7. CASE Up
  <2> DEFINE pos == ed_pos_of(ed_buf, ed_len, ed_line_no(ed_buf, ed_pos) - 1, ed_goal)
  <2>1. open /\ Put(ed_buf, ed_len, pos) /\ ed_goal' = ed_goal
    BY <1>7 DEF Up
  <2>2. pos \in 0 .. ed_len
    BY <1>0, PosOfRange
  <2> HIDE DEF pos
  <2> QED BY <1>0, <2>1, <2>2, PutKeepsInv
<1>8. CASE Down
  <2> DEFINE pos == ed_pos_of(ed_buf, ed_len, ed_line_no(ed_buf, ed_pos) + 1, ed_goal)
  <2>1. open /\ Put(ed_buf, ed_len, pos) /\ ed_goal' = ed_goal
    BY <1>8 DEF Down
  <2>2. pos \in 0 .. ed_len
    BY <1>0, PosOfRange
  <2> HIDE DEF pos
  <2> QED BY <1>0, <2>1, <2>2, PutKeepsInv
<1>9. ASSUME NEW c \in Keys, Insert(c) PROVE EditorInv'
  <2>1. /\ open /\ ed_len < MaxSize - 1 /\ Put(Opened(c), ed_len + 1, ed_pos + 1)
        /\ ed_goal' = ed_col(Opened(c), ed_pos + 1)
    BY <1>9 DEF Insert, Opened
  <2>2. /\ ed_pos + 1 \in Nat /\ ed_pos + 1 \in 0 .. ed_len + 1
        /\ ed_len + 1 \in 0 .. MaxSize
    BY <1>0, <2>1
  <2>3. Opened(c) \in Buffer
    <3>1. ed_move(ed_buf, ed_pos + 1, ed_pos, ed_len - ed_pos) \in Buffer
      BY <1>0, <2>2, MoveBuffer
    <3>2. c \in Bytes
      BY EditorAssumption
    <3> QED BY <3>1, <3>2 DEF Opened, Buffer
  <2>4. ed_col(Opened(c), ed_pos + 1) \in 0 .. ed_pos + 1
    BY <2>2, ColRange
  <2>5. ed_col(Opened(c), ed_pos + 1) \in 0 .. MaxSize
    BY <1>0, <2>2, <2>4
  <2> QED BY <2>1, <2>2, <2>3, <2>5, PutKeepsInv
<1>10. CASE UNCHANGED edVars
  BY <1>10 DEF edVars, EditorInv, EditorTypeOK, CursorVisible
<1> QED BY <1>1, <1>2, <1>3, <1>4, <1>5, <1>6, <1>7, <1>8, <1>9, <1>10 DEF EditorNext

(* The invariant of the editor, for every size of buffer and screen.       *)
THEOREM EditorInvariant == EditorSpec => []EditorInv
<1>1. EditorInit => EditorInv
  <2> SUFFICES ASSUME EditorInit PROVE EditorInv
    OBVIOUS
  <2>1. ~open
    BY DEF EditorInit
  <2>2. file \in Seq(Bytes)
    BY DEF EditorInit
  <2>3. EditorTypeOK
    <3>1. open \in BOOLEAN /\ ed_buf \in [1 .. MaxSize + 1 -> Bytes]
      BY DEF EditorInit
    <3>2. /\ ed_len \in 0 .. MaxSize /\ ed_pos \in 0 .. ed_len
          /\ ed_top \in Nat /\ ed_goal \in 0 .. MaxSize
      BY EditorAssumption DEF EditorInit
    <3> QED BY <2>2, <3>1, <3>2 DEF EditorTypeOK
  <2> QED BY <2>1, <2>3 DEF EditorInv, CursorVisible
<1>2. EditorInv /\ [EditorNext]_edVars => EditorInv'
  BY EditorStep
<1> QED BY <1>1, <1>2, PTL DEF EditorSpec

(* The cursor stays inside the text and the text inside the buffer.        *)
THEOREM EditorTypeCorrect == EditorSpec => []EditorTypeOK
BY EditorInvariant, PTL DEF EditorInv

(* The line of the cursor is on the screen after every key.                *)
THEOREM EditorCursorVisible == EditorSpec => []CursorVisible
BY EditorInvariant, PTL DEF EditorInv

-----------------------------------------------------------------------------
(* ed_move.  The loop over n bytes, upwards if they move down and else     *)
(* downwards, has moved the bytes of Reached(k) after k of its steps, and  *)
(* never reads a byte that it has overwritten.                             *)
Reached(dst, src, n, k) ==
  IF dst < src THEN dst + 1 .. dst + k ELSE dst + n + 1 - k .. dst + n

Moved(buf, dst, src, s) ==
  [x \in 1 .. MaxSize + 1 |-> IF x \in s THEN buf[x - dst + src] ELSE buf[x]]

LEMMA MoveStep ==
  ASSUME NEW buf \in Buffer, NEW dst \in Nat, NEW src \in Nat, NEW n \in Nat,
         dst + n <= MaxSize + 1, src + n <= MaxSize + 1,
         NEW k \in 1 .. n, NEW i, i = IF dst < src THEN k ELSE n + 1 - k,
         NEW b, b = Moved(buf, dst, src, Reached(dst, src, n, k - 1))
  PROVE  [b EXCEPT ![dst + i] = b[src + i]] = Moved(buf, dst, src, Reached(dst, src, n, k))
<1> USE EditorAssumption
<1> DEFINE s == Reached(dst, src, n, k - 1)
           t == Reached(dst, src, n, k)
<1>1. i \in 1 .. n /\ dst + i \in 1 .. MaxSize + 1 /\ src + i \in 1 .. MaxSize + 1
  OBVIOUS
<1>2. src + i \notin s
  BY DEF Reached
<1>3. \A x \in Int : x \in t <=> x \in s \/ x = dst + i
  BY DEF Reached
<1>4. (dst + i) - dst + src = src + i
  BY <1>1
<1> HIDE DEF s, t
<1>5. b[src + i] = buf[src + i]
  BY <1>1, <1>2 DEF Moved, s
<1>6. b = [x \in 1 .. MaxSize + 1 |-> IF x \in s THEN buf[x - dst + src] ELSE buf[x]]
  BY DEF Moved, s
<1>7. \A x \in 1 .. MaxSize + 1 :
        [b EXCEPT ![dst + i] = b[src + i]][x] = IF x \in t THEN buf[x - dst + src] ELSE buf[x]
  BY <1>1, <1>3, <1>4, <1>5, <1>6
<1>8. [b EXCEPT ![dst + i] = b[src + i]]
        = [x \in 1 .. MaxSize + 1 |-> [b EXCEPT ![dst + i] = b[src + i]][x]]
  BY <1>6
<1> QED BY <1>7, <1>8 DEF Moved, t

LEMMA MoveLoopMoves ==
  ASSUME NEW buf \in Buffer, NEW dst \in Nat, NEW src \in Nat, NEW n \in Nat,
         dst + n <= MaxSize + 1, src + n <= MaxSize + 1
  PROVE  MoveLoop(buf, dst, src, n) = ed_move(buf, dst, src, n)
<1> USE EditorAssumption
<1> DEFINE seq   == [i \in 1 .. n |-> IF dst < src THEN i ELSE n + 1 - i]
           A     == Buffer
           G     == [p \in A \X (1 .. n) |-> [p[1] EXCEPT ![dst + seq[p[2]]] = p[1][src + seq[p[2]]]]]
           Eq(h) == h = [s \in SUBSET (1 .. n) |->
                           IF s = {} THEN buf
                           ELSE [h[s \ {Max(s)}] EXCEPT
                                   ![dst + seq[Max(s)]] = h[s \ {Max(s)}][src + seq[Max(s)]]]]
           H     == CHOOSE h : Eq(h)
<1>1. MoveLoop(buf, dst, src, n) = H[1 .. n]
  BY DEF MoveLoop, FoldLeft, MapThenFoldSet
<1>2. \A k \in 1 .. n : /\ seq[k] = IF dst < src THEN k ELSE n + 1 - k
                        /\ dst + seq[k] \in 1 .. MaxSize + 1 /\ src + seq[k] \in 1 .. MaxSize + 1
  OBVIOUS
<1> HIDE DEF seq
<1>3. \A a \in A, k \in 1 .. n : [a EXCEPT ![dst + seq[k]] = a[src + seq[k]]] \in A
  BY <1>2 DEF Buffer
<1>4. \A a \in A, k \in 1 .. n : G[<<a, k>>] = [a EXCEPT ![dst + seq[k]] = a[src + seq[k]]]
  OBVIOUS
<1>5. G \in Steps(n, A)
  BY <1>3 DEF Steps
<1>6. buf \in A
  OBVIOUS
<1> HIDE DEF A, G
<1>7. PICK g \in Values(n, A) : IsFold(g, n, buf, G)
  BY <1>5, <1>6, FoldExists
<1>8. Eq(g)
  BY <1>4, <1>7, HighestIn DEF Values, IsFold
<1>9. Eq(H)
  <2> HIDE DEF Eq
  <2> QED BY <1>8
<1> HIDE DEF H
<1>10. Follows(H, n, A, buf, G)
  BY <1>4, <1>9, HighestIn DEF Follows
<1> HIDE DEF Eq
<1>11. PICK r \in Trace(n, A) : IsTrace(r, n, buf, G) /\ r[n] = H[1 .. n]
  BY <1>5, <1>6, <1>10, FoldTrace
<1> DEFINE S == {k \in Nat : k <= n => r[k] = Moved(buf, dst, src, Reached(dst, src, n, k))}
<1>12. 0 \in S
  <2>1. Reached(dst, src, n, 0) = {}
    BY DEF Reached
  <2>2. Moved(buf, dst, src, {}) = buf
    BY DEF Moved, Buffer
  <2> QED BY <1>11, <2>1, <2>2 DEF IsTrace
<1>13. ASSUME NEW k \in Nat, k \in S PROVE k + 1 \in S
  <2> SUFFICES ASSUME k + 1 <= n
               PROVE  r[k + 1] = Moved(buf, dst, src, Reached(dst, src, n, k + 1))
    OBVIOUS
  <2>1. k + 1 \in 1 .. n /\ (k + 1) - 1 = k /\ k \in 0 .. n
    OBVIOUS
  <2>2. r[k] = Moved(buf, dst, src, Reached(dst, src, n, k)) /\ r[k] \in A
    BY <1>13, <2>1 DEF Trace
  <2>3. r[k + 1] = [r[k] EXCEPT ![dst + seq[k + 1]] = r[k][src + seq[k + 1]]]
    BY <1>4, <1>11, <2>1, <2>2 DEF IsTrace
  <2>4. PICK b : b = r[k]
    OBVIOUS
  <2>5. PICK i : i = seq[k + 1]
    OBVIOUS
  <2>6. PICK m \in 1 .. n : m = k + 1
    BY <2>1
  <2>7. i = IF dst < src THEN m ELSE n + 1 - m
    BY <1>2, <2>5, <2>6
  <2>8. b = Moved(buf, dst, src, Reached(dst, src, n, m - 1))
    BY <2>1, <2>2, <2>4, <2>6
  <2>9. [b EXCEPT ![dst + i] = b[src + i]] = Moved(buf, dst, src, Reached(dst, src, n, m))
    BY <2>7, <2>8, MoveStep
  <2> QED BY <2>3, <2>4, <2>5, <2>6, <2>9
<1> HIDE DEF S
<1>14. n \in S
  BY <1>12, <1>13, AllNumbers
<1>15. H[1 .. n] = Moved(buf, dst, src, Reached(dst, src, n, n))
  BY <1>11, <1>14 DEF S
<1>16. Moved(buf, dst, src, Reached(dst, src, n, n)) = ed_move(buf, dst, src, n)
  <2>1. Reached(dst, src, n, n) = dst + 1 .. dst + n
    BY DEF Reached
  <2>2. DOMAIN buf = 1 .. MaxSize + 1
    BY DEF Buffer
  <2> QED BY <2>1, <2>2 DEF Moved, ed_move
<1> QED BY <1>1, <1>15, <1>16

(* The bytes that a key moves are moved as if they did not overlap.        *)
THEOREM EditorMoveExact == EditorSpec => []MoveExact
<1>1. EditorInv => MoveExact
  <2> SUFFICES ASSUME EditorInv PROVE MoveExact
    OBVIOUS
  <2>1. ed_buf \in Buffer /\ ed_len \in 0 .. MaxSize /\ ed_pos \in 0 .. ed_len /\ MaxSize \in Nat
    BY EditorAssumption DEF EditorInv, EditorTypeOK, Buffer
  <2>2. ASSUME NEW dst \in 0 .. ed_len - 1
        PROVE  MoveLoop(ed_buf, dst, dst + 1, ed_len - dst - 1) = ed_move(ed_buf, dst, dst + 1, ed_len - dst - 1)
    <3>1. /\ dst \in Nat /\ dst + 1 \in Nat /\ ed_len - dst - 1 \in Nat
          /\ dst + (ed_len - dst - 1) <= MaxSize + 1 /\ (dst + 1) + (ed_len - dst - 1) <= MaxSize + 1
      BY <2>1
    <3> QED BY <2>1, <3>1, MoveLoopMoves
  <2>3. ASSUME ed_len <= MaxSize - 1
        PROVE  MoveLoop(ed_buf, ed_pos + 1, ed_pos, ed_len - ed_pos) = ed_move(ed_buf, ed_pos + 1, ed_pos, ed_len - ed_pos)
    <3>1. /\ ed_pos \in Nat /\ ed_pos + 1 \in Nat /\ ed_len - ed_pos \in Nat
          /\ (ed_pos + 1) + (ed_len - ed_pos) <= MaxSize + 1 /\ ed_pos + (ed_len - ed_pos) <= MaxSize + 1
      BY <2>1, <2>3
    <3> QED BY <2>1, <3>1, MoveLoopMoves
  <2> QED BY <2>2, <2>3 DEF MoveExact
<1> QED BY <1>1, EditorInvariant, PTL

-----------------------------------------------------------------------------
(* Lines.  No line end stands in front of place 0.                         *)
LEMMA FirstLine ==
  ASSUME NEW buf
  PROVE  ed_line_no(buf, 0) = 0
<1>1. {k \in 1 .. 0 : buf[k] = NL} = {}
  OBVIOUS
<1> QED BY <1>1, FS_EmptySet DEF ed_line_no

(* One place further is on the next line exactly behind a line end.        *)
LEMMA NextLine ==
  ASSUME NEW buf, NEW p \in Nat
  PROVE  ed_line_no(buf, p + 1)
           = IF buf[p + 1] = NL THEN ed_line_no(buf, p) + 1 ELSE ed_line_no(buf, p)
<1> DEFINE Ends(q) == {k \in 1 .. q : buf[k] = NL}
<1>1. IsFiniteSet(Ends(p))
  BY LineNoNat
<1>2. CASE buf[p + 1] = NL
  <2>1. Ends(p + 1) = Ends(p) \cup {p + 1} /\ p + 1 \notin Ends(p)
    BY <1>2
  <2> HIDE DEF Ends
  <2>2. Cardinality(Ends(p + 1)) = Cardinality(Ends(p)) + 1
    BY <1>1, <2>1, FS_AddElement
  <2> QED BY <1>2, <2>2 DEF ed_line_no, Ends
<1>3. CASE buf[p + 1] # NL
  <2>1. Ends(p + 1) = Ends(p)
    BY <1>3
  <2> QED BY <1>3, <2>1 DEF ed_line_no
<1> QED BY <1>2, <1>3

(* Places further on are on the same line or a later one, and on a later   *)
(* one if a line end is between.                                           *)
LEMMA LinesGrow ==
  ASSUME NEW buf, NEW p \in Nat, NEW q \in Nat, p <= q
  PROVE  /\ ed_line_no(buf, p) <= ed_line_no(buf, q)
         /\ (\E j \in p + 1 .. q : buf[j] = NL) => ed_line_no(buf, p) < ed_line_no(buf, q)
         /\ (\A j \in p + 1 .. q : buf[j] # NL) => ed_line_no(buf, p) = ed_line_no(buf, q)
<1> DEFINE Ends(n) == {k \in 1 .. n : buf[k] = NL}
<1>1. /\ IsFiniteSet(Ends(q)) /\ Ends(p) \in SUBSET Ends(q)
      /\ Cardinality(Ends(p)) \in Nat /\ Cardinality(Ends(q)) \in Nat
  BY LineNoNat DEF ed_line_no
<1>2. (\E j \in p + 1 .. q : buf[j] = NL) => Ends(p) # Ends(q)
  <2> SUFFICES ASSUME NEW j \in p + 1 .. q, buf[j] = NL PROVE Ends(p) # Ends(q)
    OBVIOUS
  <2>1. j \in Ends(q) /\ j \notin Ends(p)
    OBVIOUS
  <2> QED BY <2>1
<1>3. (\A j \in p + 1 .. q : buf[j] # NL) => Ends(p) = Ends(q)
  <2> SUFFICES ASSUME \A j \in p + 1 .. q : buf[j] # NL PROVE Ends(q) \subseteq Ends(p)
    BY <1>1
  <2>1. \A j \in 1 .. q : j \in 1 .. p \/ j \in p + 1 .. q
    OBVIOUS
  <2> QED BY <2>1
<1> HIDE DEF Ends
<1>4. Cardinality(Ends(p)) <= Cardinality(Ends(q))
      /\ (Cardinality(Ends(q)) = Cardinality(Ends(p)) => Ends(q) = Ends(p))
  BY <1>1, FS_Subset
<1>5. \A n : ed_line_no(buf, n) = Cardinality(Ends(n))
  BY DEF ed_line_no, Ends
<1> QED BY <1>1, <1>2, <1>3, <1>4, <1>5

(* A line ends where it is left: its start is the only place that starts   *)
(* it.                                                                     *)
LEMMA StartUnique ==
  ASSUME NEW buf, NEW p \in Nat, NEW s \in 0 .. p,
         s = 0 \/ buf[s] = NL, \A j \in s + 1 .. p : buf[j] # NL
  PROVE  ed_line_start(buf, p) = s
<1> DEFINE t == ed_line_start(buf, p)
<1>1. t \in 0 .. p /\ (t = 0 \/ buf[t] = NL) /\ \A j \in t + 1 .. p : buf[j] # NL
  BY LineStart
<1> HIDE DEF t
<1>2. ~ s < t
  <2> SUFFICES ASSUME s < t PROVE FALSE
    OBVIOUS
  <2>1. t \in s + 1 .. p /\ t # 0
    BY <1>1
  <2> QED BY <1>1, <2>1
<1>3. ~ t < s
  <2> SUFFICES ASSUME t < s PROVE FALSE
    OBVIOUS
  <2>1. s \in t + 1 .. p /\ s # 0
    BY <1>1
  <2> QED BY <1>1, <2>1
<1> QED BY <1>1, <1>2, <1>3 DEF t

(* The first loop of ed_pos_of finds the start of a line that the text     *)
(* has.                                                                    *)
LEMMA LineFromStart ==
  ASSUME NEW buf, NEW len \in Nat, NEW line \in Nat, line <= ed_line_no(buf, len)
  PROVE  LET s == LineFrom(buf, len, line)
         IN  /\ s \in 0 .. len /\ ed_line_no(buf, s) = line
             /\ s = 0 \/ buf[s] = NL
<1> DEFINE Late == {p \in 0 .. len : line <= ed_line_no(buf, p)}
           s == LineFrom(buf, len, line)
<1>1. Late \in SUBSET Nat /\ len \in Late
  OBVIOUS
<1>2. PICK p \in Late : \A e \in Late : p <= e
  BY <1>1, LeastNat
<1>3. p \in 0 .. len /\ line <= ed_line_no(buf, p)
  OBVIOUS
<1>4. ed_line_no(buf, p) = line
  <2>1. CASE p = 0
    BY <1>3, <2>1, FirstLine
  <2>2. CASE p # 0
    <3>1. p - 1 \in Nat /\ p - 1 \in 0 .. len /\ ~(p <= p - 1)
      BY <1>3, <2>2
    <3>2. p - 1 \notin Late
      BY <3>1, <1>2
    <3>3. ed_line_no(buf, p - 1) \in Nat /\ ed_line_no(buf, p) \in Nat
      <4>1. p \in Nat
        BY <1>3
      <4> HIDE DEF Late
      <4> QED BY <3>1, <4>1, LineNoNat
    <3>4. ed_line_no(buf, p - 1) < line
      BY <3>1, <3>2, <3>3
    <3>5. ed_line_no(buf, (p - 1) + 1) <= ed_line_no(buf, p - 1) + 1
      BY <3>1, <3>3, NextLine
    <3>6. (p - 1) + 1 = p
      BY <1>3
    <3> QED BY <1>3, <3>3, <3>4, <3>5, <3>6
  <2> QED BY <2>1, <2>2
<1>5. /\ s \in 0 .. len
      /\ s = len \/ ed_line_no(buf, s) = line
      /\ \A q \in 0 .. s - 1 : ed_line_no(buf, q) # line
  BY LineFromFirst
<1> HIDE DEF Late, s
<1>6. ed_line_no(buf, s) = line
  <2>1. p \notin 0 .. s - 1
    BY <1>4, <1>5
  <2>2. s <= p
    BY <1>3, <1>5, <2>1
  <2> QED BY <1>3, <1>4, <1>5, <2>2
<1>7. ASSUME s # 0, buf[s] # NL PROVE FALSE
  <2>1. s - 1 \in Nat /\ s - 1 \in 0 .. s - 1 /\ (s - 1) + 1 = s
    BY <1>5, <1>7
  <2>2. ed_line_no(buf, s) = ed_line_no(buf, s - 1)
    BY <1>7, <2>1, NextLine
  <2> QED BY <1>5, <1>6, <2>1, <2>2
<1> QED BY <1>5, <1>6, <1>7 DEF s

(* Up and down: ed_pos_of finds the column wanted on a line that the text  *)
(* has, or the end of that line.                                           *)
LEMMA PosOfPlace ==
  ASSUME NEW buf, NEW len \in Nat, NEW line \in Nat, NEW col \in Nat,
         line <= ed_line_no(buf, len)
  PROVE  LET p == ed_pos_of(buf, len, line, col)
         IN  /\ p \in 0 .. len
             /\ ed_line_no(buf, p) = line
             /\ ed_col(buf, p) <= col
             /\ ed_col(buf, p) = col \/ p = len \/ buf[p + 1] = NL
<1> DEFINE s == LineFrom(buf, len, line)
           p == ed_pos_of(buf, len, line, col)
<1>1. s \in 0 .. len /\ ed_line_no(buf, s) = line /\ (s = 0 \/ buf[s] = NL)
  BY LineFromStart
<1>2. /\ p \in s .. len
      /\ p = len \/ p = s + col \/ buf[p + 1] = NL
      /\ \A q \in s .. p - 1 : q # s + col /\ buf[q + 1] # NL
  BY PosOfStops
<1> HIDE DEF s, p
<1>3. s \in Nat /\ p \in Nat /\ s <= p /\ p \in 0 .. len /\ s \in 0 .. p
  BY <1>1, <1>2
<1>4. ASSUME NEW j \in s + 1 .. p PROVE buf[j] # NL
  <2>1. j - 1 \in s .. p - 1 /\ (j - 1) + 1 = j
    BY <1>3
  <2> QED BY <1>2, <2>1
<1>5. ed_line_no(buf, p) = line
  BY <1>1, <1>3, <1>4, LinesGrow
<1>6. ed_line_start(buf, p) = s
  BY <1>1, <1>3, <1>4, StartUnique
<1>7. ed_col(buf, p) = p - s
  BY <1>6 DEF ed_col
<1>8. p - s <= col
  <2> SUFFICES ASSUME s + col < p PROVE FALSE
    BY <1>3
  <2>1. s + col \in s .. p - 1
    BY <1>3
  <2> QED BY <1>2, <2>1
<1>9. p - s = col \/ p = len \/ buf[p + 1] = NL
  BY <1>2, <1>3
<1> QED BY <1>3, <1>5, <1>7, <1>8, <1>9 DEF p

(* A line that the text does not have is looked for to the end of it.      *)
LEMMA PosOfBeyond ==
  ASSUME NEW buf, NEW len \in Nat, NEW line \in Nat, NEW col \in Nat,
         ed_line_no(buf, len) < line
  PROVE  ed_pos_of(buf, len, line, col) = len
<1> DEFINE s == LineFrom(buf, len, line)
           p == ed_pos_of(buf, len, line, col)
<1>1. s \in 0 .. len /\ (s = len \/ ed_line_no(buf, s) = line)
  BY LineFromFirst
<1>2. p \in s .. len
  BY PosOfStops
<1> HIDE DEF s, p
<1>3. s \in Nat /\ s <= len
  BY <1>1
<1>4. ed_line_no(buf, s) \in Nat /\ ed_line_no(buf, len) \in Nat
  BY <1>3, LineNoNat
<1>5. ed_line_no(buf, s) <= ed_line_no(buf, len)
  BY <1>3, LinesGrow
<1>6. s = len
  BY <1>1, <1>4, <1>5
<1> QED BY <1>2, <1>6 DEF p
-----------------------------------------------------------------------------
(* The text.  The characters from place m to place n of the buffer.        *)
Span(buf, m, n) == SubSeq(buf, m + 1, n)

(* Its length and its characters.                                          *)
LEMMA SpanIs ==
  ASSUME NEW buf \in Buffer, NEW n \in 0 .. MaxSize + 1, NEW m \in 0 .. n
  PROVE  /\ Span(buf, m, n) \in Seq(Bytes)
         /\ Len(Span(buf, m, n)) = n - m
         /\ \A i \in 1 .. n - m : Span(buf, m, n)[i] = buf[m + i]
<1>1. MaxSize \in Nat
  BY EditorAssumption
<1>2. CASE m + 1 \in 1 .. MaxSize + 1
  <2>1. m + 1 <= n + 1 /\ n - (m + 1) + 1 = n - m
    BY <1>1
  <2>2. /\ Span(buf, m, n) \in Seq(Bytes)
        /\ Len(Span(buf, m, n)) = n - (m + 1) + 1
        /\ \A i \in 1 .. n - (m + 1) + 1 : Span(buf, m, n)[i] = buf[(m + 1) + i - 1]
    BY <1>2, <2>1, Piece DEF Span
  <2>3. \A i \in 1 .. n - m : (m + 1) + i - 1 = m + i
    BY <1>1
  <2> QED BY <2>1, <2>2, <2>3
<1>3. CASE m + 1 \notin 1 .. MaxSize + 1
  <2>1. m = n /\ n = MaxSize + 1
    BY <1>1, <1>3
  <2>2. n < m + 1 /\ m + 1 \in Int /\ n \in Int
    BY <1>1, <2>1
  <2>3. Span(buf, m, n) = << >>
    BY <2>2, SubSeqEmpty DEF Span
  <2>4. n - m = 0
    BY <1>1, <2>1
  <2> QED BY <2>3, <2>4, EmptySeq
<1> QED BY <1>2, <1>3

(* The same for a stretch from the start of the text.                      *)
LEMMA PrefixIs ==
  ASSUME NEW buf \in Buffer, NEW k \in 0 .. MaxSize + 1
  PROVE  /\ Span(buf, 0, k) \in Seq(Bytes)
         /\ Len(Span(buf, 0, k)) = k
         /\ \A i \in 1 .. k : Span(buf, 0, k)[i] = buf[i]
<1>1. 0 \in 0 .. k /\ k - 0 = k /\ \A i \in 1 .. k : 0 + i = i
  BY EditorAssumption
<1>2. /\ Span(buf, 0, k) \in Seq(Bytes)
      /\ Len(Span(buf, 0, k)) = k - 0
      /\ \A i \in 1 .. k - 0 : Span(buf, 0, k)[i] = buf[0 + i]
  BY <1>1, SpanIs
<1> QED BY <1>1, <1>2

(* Two stretches of the text that hang together are one.                   *)
LEMMA SpanConcat ==
  ASSUME NEW buf \in Buffer, NEW n \in 0 .. MaxSize + 1, NEW k \in 0 .. n
  PROVE  Span(buf, 0, k) \o Span(buf, k, n) = Span(buf, 0, n)
<1> DEFINE a == Span(buf, 0, k)
           b == Span(buf, k, n)
           t == Span(buf, 0, n)
<1>1. k \in 0 .. MaxSize + 1 /\ k \in Nat /\ n \in Nat
  BY EditorAssumption
<1>2. a \in Seq(Bytes) /\ Len(a) = k /\ \A i \in 1 .. k : a[i] = buf[i]
  BY <1>1, PrefixIs
<1>3. b \in Seq(Bytes) /\ Len(b) = n - k /\ \A i \in 1 .. n - k : b[i] = buf[k + i]
  BY <1>1, SpanIs
<1>4. t \in Seq(Bytes) /\ Len(t) = n /\ \A i \in 1 .. n : t[i] = buf[i]
  BY PrefixIs
<1> HIDE DEF a, b, t
<1>5. /\ a \o b \in Seq(Bytes) /\ Len(a \o b) = Len(a) + Len(b)
      /\ \A i \in 1 .. Len(a) + Len(b) :
           (a \o b)[i] = IF i <= Len(a) THEN a[i] ELSE b[i - Len(a)]
  BY <1>2, <1>3, ConcatProperties
<1>6. Len(a) + Len(b) = n
  BY <1>1, <1>2, <1>3
<1>7. ASSUME NEW i \in 1 .. n PROVE (a \o b)[i] = t[i]
  <2>1. CASE i <= k
    <3>1. i \in 1 .. k
      BY <1>1, <2>1
    <3> QED BY <1>2, <1>4, <1>5, <1>6, <3>1, <2>1
  <2>2. CASE ~(i <= k)
    <3>1. i - k \in 1 .. n - k /\ k + (i - k) = i
      BY <1>1, <2>2
    <3> QED BY <1>2, <1>3, <1>4, <1>5, <1>6, <2>2, <3>1
  <2> QED BY <2>1, <2>2
<1>8. a \o b = t
  BY <1>4, <1>5, <1>6, <1>7, SeqEqual
<1> QED BY <1>8 DEF a, b, t

(* A stretch of a stretch from the start.                                  *)
LEMMA SpanSpan ==
  ASSUME NEW buf \in Buffer, NEW len \in 0 .. MaxSize + 1,
         NEW n \in 0 .. len, NEW m \in 0 .. n
  PROVE  SubSeq(Span(buf, 0, len), m + 1, n) = Span(buf, m, n)
<1> DEFINE t == Span(buf, 0, len)
           u == SubSeq(t, m + 1, n)
           v == Span(buf, m, n)
<1>1. /\ n \in 0 .. MaxSize + 1 /\ 0 \in 0 .. len /\ MaxSize \in Nat
      /\ m + 1 \in Int /\ n \in Int
  BY EditorAssumption
<1>2. t \in Seq(Bytes) /\ Len(t) = len /\ \A i \in 1 .. len : t[i] = buf[i]
  BY PrefixIs
<1>3. v \in Seq(Bytes) /\ Len(v) = n - m /\ \A i \in 1 .. n - m : v[i] = buf[m + i]
  BY <1>1, SpanIs
<1>4. \A i \in m + 1 .. n : t[i] \in Bytes
  <2>1. \A i \in m + 1 .. n : i \in 1 .. len
    OBVIOUS
  <2> HIDE DEF t
  <2> QED BY <1>2, <2>1, ElementOfSeq
<1> HIDE DEF t, v
<1>5. /\ u \in Seq(Bytes) /\ Len(u) = IF m + 1 <= n THEN n - (m + 1) + 1 ELSE 0
      /\ \A i \in 1 .. n - (m + 1) + 1 : u[i] = t[(m + 1) + i - 1]
  BY <1>1, <1>4, SubSeqProperties
<1> HIDE DEF u
<1>6. Len(u) = n - m
  BY <1>1, <1>5
<1>7. ASSUME NEW i \in 1 .. n - m PROVE u[i] = v[i]
  <2>1. /\ i \in 1 .. n - (m + 1) + 1 /\ (m + 1) + i - 1 = m + i
        /\ m + i \in 1 .. len
    BY <1>1
  <2> QED BY <1>2, <1>3, <1>5, <2>1
<1>8. u = v
  BY <1>3, <1>5, <1>6, <1>7, SeqEqual
<1> QED BY <1>8 DEF t, u, v

(* Rows and columns.  TextBuffer counts with its own instance of           *)
(* FiniteSets.                                                             *)
LEMMA SameCount == \A S : TB!Cardinality(S) = Cardinality(S)
  BY DEF Cardinality, TB!Cardinality, IsFiniteSet, TB!IsFiniteSet

(* The row of the end of a text is what ed_line_no counts.                 *)
LEMMA RowIs ==
  ASSUME NEW buf \in Buffer, NEW k \in 0 .. MaxSize + 1
  PROVE  TB!Row(Span(buf, 0, k)) = ed_line_no(buf, k)
<1> DEFINE t == Span(buf, 0, k)
<1>1. Len(t) = k /\ \A i \in 1 .. k : t[i] = buf[i]
  BY PrefixIs, EditorAssumption
<1> HIDE DEF t
<1>2. {i \in 1 .. Len(t) : t[i] = NL} = {i \in 1 .. k : buf[i] = NL}
  BY <1>1
<1> QED BY <1>2, SameCount DEF TB!Row, ed_line_no, t

(* The column of the end of a text is what ed_col computes.                *)
LEMMA ColumnIs ==
  ASSUME NEW buf \in Buffer, NEW k \in 0 .. MaxSize + 1
  PROVE  TB!Column(Span(buf, 0, k)) = ed_col(buf, k)
<1> DEFINE t == Span(buf, 0, k)
           c == CHOOSE i \in 0 .. Len(t) : /\ i = 0 \/ t[i] = NL
                                           /\ \A j \in i + 1 .. Len(t) : t[j] # NL
<1>1. k \in Nat /\ Len(t) = k /\ \A i \in 1 .. k : t[i] = buf[i]
  BY PrefixIs, EditorAssumption
<1> HIDE DEF t
<1>2. PICK s \in 0 .. k : (s = 0 \/ buf[s] = NL) /\ \A j \in s + 1 .. k : buf[j] # NL
  BY <1>1, LineStart
<1>3. \E i \in 0 .. Len(t) : /\ i = 0 \/ t[i] = NL
                             /\ \A j \in i + 1 .. Len(t) : t[j] # NL
  <2>1. s \in 0 .. Len(t) /\ (s = 0 \/ t[s] = NL)
    BY <1>1, <1>2
  <2>2. ASSUME NEW j \in s + 1 .. Len(t) PROVE t[j] # NL
    <3>1. j \in 1 .. k /\ j \in s + 1 .. k
      BY <1>1, <1>2
    <3> QED BY <1>1, <1>2, <3>1
  <2> HIDE DEF c
  <2> QED BY <2>1, <2>2
<1>4. c \in 0 .. Len(t) /\ (c = 0 \/ t[c] = NL) /\ \A j \in c + 1 .. Len(t) : t[j] # NL
  BY <1>3
<1>5. TB!Column(t) = Len(t) - c
  BY DEF TB!Column
<1> HIDE DEF c
<1>6. c \in 0 .. k /\ (c = 0 \/ buf[c] = NL) /\ \A j \in c + 1 .. k : buf[j] # NL
  BY <1>1, <1>4
<1>7. ed_line_start(buf, k) = c
  BY <1>1, <1>6, StartUnique
<1> QED BY <1>1, <1>5, <1>7 DEF ed_col, t
-----------------------------------------------------------------------------
(* The mapping: what is before the cursor, what is after it, and the text. *)
LEMMA Mapping ==
  /\ SubSeq(ed_buf, 1, ed_pos) = Span(ed_buf, 0, ed_pos)
  /\ SubSeq(ed_buf, ed_pos + 1, ed_len) = Span(ed_buf, ed_pos, ed_len)
<1>1. 0 + 1 = 1
  OBVIOUS
<1> QED BY <1>1 DEF Span

(* The ranges of the editor's fields, in the forms the proofs use.         *)
LEMMA Ranges ==
  ASSUME EditorInv
  PROVE  /\ ed_buf \in Buffer /\ MaxSize \in Nat \ {0}
         /\ ed_len \in Nat /\ ed_pos \in Nat /\ ed_goal \in Nat
         /\ ed_len \in 0 .. MaxSize /\ ed_len \in 0 .. MaxSize + 1
         /\ ed_pos \in 0 .. ed_len /\ ed_pos \in 0 .. MaxSize + 1
BY EditorAssumption DEF EditorInv, EditorTypeOK, Buffer

(* The text of the mapping is the first ed_len bytes of the buffer.        *)
LEMMA TextIs ==
  ASSUME EditorInv
  PROVE  TB!Text = Span(ed_buf, 0, ed_len)
<1>1. TB!Text = Span(ed_buf, 0, ed_pos) \o Span(ed_buf, ed_pos, ed_len)
  BY Mapping DEF TB!Text
<1> QED BY <1>1, Ranges, SpanConcat

(* Its length, and those of its two parts.                                 *)
LEMMA LenText ==
  ASSUME EditorInv
  PROVE  Len(TB!Text) = ed_len
BY TextIs, Ranges, PrefixIs

(* The cursor is behind ed_pos characters.                                 *)
LEMMA LenBefore ==
  ASSUME EditorInv
  PROVE  Len(SubSeq(ed_buf, 1, ed_pos)) = ed_pos
BY Mapping, Ranges, PrefixIs

(* Nothing is in front of the cursor only at place 0.                      *)
LEMMA BeforeEmpty ==
  ASSUME EditorInv, ed_pos > 0
  PROVE  SubSeq(ed_buf, 1, ed_pos) # << >>
<1> DEFINE b == SubSeq(ed_buf, 1, ed_pos)
<1>1. Len(b) = ed_pos /\ ed_pos # 0
  BY LenBefore, Ranges
<1>2. Len(<< >>) = 0
  OBVIOUS
<1> HIDE DEF b
<1>3. b # << >>
  BY <1>1, <1>2
<1> QED BY <1>3 DEF b

(* ed_len - ed_pos characters are left.                                    *)
LEMMA LenAfter ==
  ASSUME EditorInv
  PROVE  Len(SubSeq(ed_buf, ed_pos + 1, ed_len)) = ed_len - ed_pos
BY Mapping, Ranges, SpanIs

(* Setting ed_pos cuts the text there.                                     *)
LEMMA CutIs ==
  ASSUME EditorInv, NEW k \in 0 .. ed_len,
         ed_buf' = ed_buf, ed_len' = ed_len, ed_pos' = k
  PROVE  TB!Cut(k)
<1> DEFINE t == Span(ed_buf, 0, ed_len)
<1>1. TB!Text = t /\ Len(t) = ed_len
  BY TextIs, LenText
<1>2. 0 \in 0 .. k /\ 0 + 1 = 1 /\ k \in 0 .. ed_len /\ ed_len \in 0 .. ed_len
  BY Ranges
<1>3. SubSeq(t, 0 + 1, k) = Span(ed_buf, 0, k)
  BY <1>2, Ranges, SpanSpan
<1>4. SubSeq(t, k + 1, ed_len) = Span(ed_buf, k, ed_len)
  BY <1>2, Ranges, SpanSpan
<1> HIDE DEF t
<1>5. SubSeq(ed_buf, 1, ed_pos)' = SubSeq(t, 1, k)
  BY <1>2, <1>3 DEF Span
<1>6. SubSeq(ed_buf, ed_pos + 1, ed_len)' = SubSeq(t, k + 1, ed_len)
  BY <1>4 DEF Span
<1> QED BY <1>1, <1>5, <1>6 DEF TB!Cut

(* Whether there is a row below the cursor.                                *)
LEMMA RowsBelow ==
  ASSUME EditorInv
  PROVE  TB!Row(SubSeq(ed_buf, ed_pos + 1, ed_len)) > 0
           <=> \E j \in ed_pos + 1 .. ed_len : ed_buf[j] = NL
<1> DEFINE t == Span(ed_buf, ed_pos, ed_len)
           S == {i \in 1 .. Len(t) : t[i] = NL}
<1>0. ed_len \in Nat /\ ed_pos \in Nat /\ ed_pos <= ed_len
  BY Ranges
<1>1. Len(t) = ed_len - ed_pos /\ \A i \in 1 .. ed_len - ed_pos : t[i] = ed_buf[ed_pos + i]
  BY Ranges, SpanIs
<1>2. TB!Row(SubSeq(ed_buf, ed_pos + 1, ed_len)) = Cardinality(S)
  BY Mapping, SameCount DEF TB!Row
<1> HIDE DEF t
<1>3. IsFiniteSet(S)
  <2>1. IsFiniteSet(1 .. Len(t))
    BY <1>0, <1>1, FS_Interval
  <2> QED BY <2>1, FS_Subset
<1>4. S # {} <=> \E j \in ed_pos + 1 .. ed_len : ed_buf[j] = NL
  <2>1. ASSUME NEW i \in S PROVE \E j \in ed_pos + 1 .. ed_len : ed_buf[j] = NL
    <3>1. ed_pos + i \in ed_pos + 1 .. ed_len /\ ed_buf[ed_pos + i] = NL
      BY <1>0, <1>1
    <3> QED BY <3>1
  <2>2. ASSUME NEW j \in ed_pos + 1 .. ed_len, ed_buf[j] = NL PROVE S # {}
    <3>1. j - ed_pos \in 1 .. Len(t) /\ ed_pos + (j - ed_pos) = j
      BY <1>0, <1>1
    <3>2. j - ed_pos \in S
      BY <1>1, <2>2, <3>1
    <3> QED BY <3>2
  <2> QED BY <2>1, <2>2
<1> HIDE DEF S
<1>5. Cardinality(S) \in Nat /\ (Cardinality(S) = 0 <=> S = {})
  BY <1>3, FS_CardinalityType, FS_EmptySet
<1> QED BY <1>2, <1>4, <1>5

(* The place that ed_pos_of finds is the one that TextBuffer asks for.     *)
LEMMA ToRowIs ==
  ASSUME EditorInv, NEW line \in Nat, line <= ed_line_no(ed_buf, ed_len),
         ed_buf' = ed_buf, ed_len' = ed_len,
         ed_pos' = ed_pos_of(ed_buf, ed_len, line, ed_goal)
  PROVE  TB!ToRow(line)
<1> DEFINE k == ed_pos_of(ed_buf, ed_len, line, ed_goal)
           t == Span(ed_buf, 0, ed_len)
<1>1. /\ k \in 0 .. ed_len
      /\ ed_line_no(ed_buf, k) = line
      /\ ed_col(ed_buf, k) <= ed_goal
      /\ ed_col(ed_buf, k) = ed_goal \/ k = ed_len \/ ed_buf[k + 1] = NL
  BY Ranges, PosOfPlace
<1>2. TB!Cut(k)
  BY <1>1, CutIs
<1>3. TB!Text = t /\ Len(t) = ed_len /\ \A i \in 1 .. ed_len : t[i] = ed_buf[i]
  BY TextIs, Ranges, PrefixIs
<1> HIDE DEF k, t
<1>4. k \in 0 .. MaxSize + 1 /\ 0 \in 0 .. k /\ 0 + 1 = 1
  BY <1>1, Ranges
<1>5. SubSeq(t, 0 + 1, k) = Span(ed_buf, 0, k)
  BY <1>1, <1>4, Ranges, SpanSpan DEF t
<1>6. SubSeq(t, 1, k) = Span(ed_buf, 0, k)
  BY <1>4, <1>5
<1>7. /\ TB!Row(SubSeq(t, 1, k)) = line
      /\ TB!Column(SubSeq(t, 1, k)) = ed_col(ed_buf, k)
  BY <1>1, <1>4, <1>6, Ranges, RowIs, ColumnIs
<1>8. k = ed_len \/ (k + 1 \in 1 .. ed_len /\ t[k + 1] = ed_buf[k + 1])
  BY <1>1, <1>3, Ranges
<1>9. /\ TB!Column(SubSeq(t, 1, k)) <= ed_goal
      /\ TB!Column(SubSeq(t, 1, k)) = ed_goal \/ k = Len(t) \/ t[k + 1] = NL
  BY <1>1, <1>3, <1>7, <1>8
<1> QED BY <1>1, <1>2, <1>3, <1>7, <1>9 DEF TB!ToRow
-----------------------------------------------------------------------------
(* One lemma per key.  Opening a file shows its content with the cursor at *)
(* the end, whatever the buffer held.                                      *)
LEMMA OpenRefines ==
  ASSUME EditorInv, NEW f \in Files, editor_open(f)
  PROVE  TB!Open(f)
<1> DEFINE b == ed_buf'
<1>1. f \in Seq(Bytes) /\ Len(f) \in 0 .. MaxSize /\ Len(f) \in 0 .. MaxSize + 1
      /\ Len(f) \in Nat
  BY EditorAssumption
<1>2. b \in Buffer /\ \A i \in 1 .. Len(f) : b[i] = f[i]
  BY <1>1, Ranges DEF editor_open, Buffer
<1>3. ed_pos' = Len(f) /\ ed_len' = Len(f)
  BY DEF editor_open
<1>4. Span(b, 0, Len(f)) = f
  <2>1. /\ Span(b, 0, Len(f)) \in Seq(Bytes) /\ Len(Span(b, 0, Len(f))) = Len(f)
        /\ \A i \in 1 .. Len(f) : Span(b, 0, Len(f))[i] = b[i]
    BY <1>1, <1>2, PrefixIs
  <2> HIDE DEF b
  <2> QED BY <1>1, <1>2, <2>1, SeqEqual
<1>5. SubSeq(ed_buf, 1, ed_pos)' = f
  BY <1>3, <1>4 DEF Span
<1>6. SubSeq(ed_buf, ed_pos + 1, ed_len)' = << >>
  <2>1. Len(f) + 1 \in Int /\ Len(f) \in Int /\ Len(f) < Len(f) + 1
    BY <1>1
  <2>2. SubSeq(b, Len(f) + 1, Len(f)) = << >>
    BY <2>1, SubSeqEmpty
  <2> QED BY <1>3, <2>2
<1> QED BY <1>5, <1>6 DEF editor_open, TB!Open

(* The column that is remembered after a change is that of the cursor.     *)
LEMMA GoalRefines ==
  ASSUME EditorInv', ed_goal' = ed_col(ed_buf', ed_pos')
  PROVE  ed_goal' = TB!Column(SubSeq(ed_buf', 1, ed_pos'))
<1>1. ed_buf' \in Buffer /\ ed_pos' \in 0 .. MaxSize + 1
  BY EditorAssumption DEF EditorInv, EditorTypeOK, Buffer
<1>2. SubSeq(ed_buf', 1, ed_pos') = Span(ed_buf', 0, ed_pos')
  <2>1. 0 + 1 = 1
    OBVIOUS
  <2> QED BY <2>1 DEF Span
<1> QED BY <1>1, <1>2, ColumnIs

(* F2: what is written is the text, and a failed save changes nothing.     *)
LEMMA SaveRefines ==
  ASSUME EditorInv, Save
  PROVE  TB!Save
<1>1. Content = TB!Text
  <2>1. 0 + 1 = 1
    OBVIOUS
  <2> QED BY <2>1, TextIs DEF Content, Span
<1>2. UNCHANGED <<SubSeq(ed_buf, 1, ed_pos), SubSeq(ed_buf, ed_pos + 1, ed_len), ed_goal>>
  BY DEF Save
<1> QED BY <1>1, <1>2 DEF Save, TB!Save

(* Left and right cut the text one place from where it was cut.            *)
LEMMA LeftRefines ==
  ASSUME EditorInv, EditorInv', Left
  PROVE  TB!Left
<1>1. /\ open /\ ed_pos > 0 /\ ed_buf' = ed_buf /\ ed_len' = ed_len /\ ed_pos' = ed_pos - 1
      /\ ed_goal' = ed_col(ed_buf', ed_pos') /\ UNCHANGED <<open, file>>
  BY DEF Left, Put
<1>2. ed_pos - 1 \in 0 .. ed_len
  BY <1>1, Ranges
<1>3. TB!Cut(ed_pos - 1)
  BY <1>1, <1>2, CutIs
<1>4. SubSeq(ed_buf, 1, ed_pos) # << >>
  BY <1>1, BeforeEmpty
<1>5. ed_goal' = TB!Column(SubSeq(ed_buf', 1, ed_pos'))
  BY <1>1, GoalRefines
<1> QED BY <1>1, <1>3, <1>4, <1>5, LenBefore DEF TB!Left

(* The same to the right.                                                  *)
LEMMA RightRefines ==
  ASSUME EditorInv, EditorInv', Right
  PROVE  TB!Right
<1>1. /\ open /\ ed_pos < ed_len /\ ed_buf' = ed_buf /\ ed_len' = ed_len /\ ed_pos' = ed_pos + 1
      /\ ed_goal' = ed_col(ed_buf', ed_pos') /\ UNCHANGED <<open, file>>
  BY DEF Right, Put
<1>2. ed_pos + 1 \in 0 .. ed_len /\ ed_len - ed_pos # 0
  BY <1>1, Ranges
<1>3. TB!Cut(ed_pos + 1)
  BY <1>1, <1>2, CutIs
<1>4. SubSeq(ed_buf, ed_pos + 1, ed_len) # << >>
  BY <1>2, LenAfter, EmptySeq
<1>5. ed_goal' = TB!Column(SubSeq(ed_buf', 1, ed_pos'))
  BY <1>1, GoalRefines
<1> QED BY <1>1, <1>3, <1>4, <1>5, LenBefore DEF TB!Right

(* Up: the row above, at the goal column or the end of that row.           *)
LEMMA UpRefines ==
  ASSUME EditorInv, Up
  PROVE  TB!Up
<1> DEFINE line == ed_line_no(ed_buf, ed_pos)
<1>1. /\ open /\ line > 0 /\ ed_buf' = ed_buf /\ ed_len' = ed_len
      /\ ed_pos' = ed_pos_of(ed_buf, ed_len, line - 1, ed_goal)
      /\ UNCHANGED <<open, file, ed_goal>>
  BY DEF Up, Put
<1>2. line \in Nat /\ ed_line_no(ed_buf, ed_len) \in Nat
  BY Ranges, LineNoNat
<1>3. line <= ed_line_no(ed_buf, ed_len)
  BY Ranges, LinesGrow
<1>4. TB!Row(SubSeq(ed_buf, 1, ed_pos)) = line
  BY Mapping, Ranges, RowIs
<1> HIDE DEF line
<1>5. line - 1 \in Nat /\ line - 1 <= ed_line_no(ed_buf, ed_len)
  BY <1>1, <1>2, <1>3
<1>6. TB!ToRow(line - 1)
  BY <1>1, <1>5, ToRowIs
<1> QED BY <1>1, <1>4, <1>6 DEF TB!Up

(* Down: the row below if there is one, else the end of the text.          *)
LEMMA DownRefines ==
  ASSUME EditorInv, Down
  PROVE  TB!Down
<1> DEFINE line == ed_line_no(ed_buf, ed_pos)
           last == ed_line_no(ed_buf, ed_len)
           below == TB!Row(SubSeq(ed_buf, ed_pos + 1, ed_len)) > 0
<1>1. /\ open /\ ed_buf' = ed_buf /\ ed_len' = ed_len
      /\ ed_pos' = ed_pos_of(ed_buf, ed_len, line + 1, ed_goal)
      /\ UNCHANGED <<open, file, ed_goal>>
  BY DEF Down, Put
<1>2. line \in Nat /\ last \in Nat
  BY Ranges, LineNoNat
<1>3. /\ (\E j \in ed_pos + 1 .. ed_len : ed_buf[j] = NL) => line < last
      /\ (\A j \in ed_pos + 1 .. ed_len : ed_buf[j] # NL) => line = last
  BY Ranges, LinesGrow
<1>4. below <=> \E j \in ed_pos + 1 .. ed_len : ed_buf[j] = NL
  BY RowsBelow
<1>5. TB!Row(SubSeq(ed_buf, 1, ed_pos)) = line
  BY Mapping, Ranges, RowIs
<1>6. CASE below
  <2>1. line + 1 \in Nat /\ line + 1 <= last
    BY <1>2, <1>3, <1>4, <1>6
  <2> HIDE DEF line, below
  <2>2. TB!ToRow(line + 1)
    BY <1>1, <2>1, ToRowIs
  <2> QED BY <1>1, <1>5, <1>6, <2>2 DEF TB!Down, below
<1>7. CASE ~below
  <2>1. line + 1 \in Nat /\ last < line + 1
    BY <1>2, <1>3, <1>4, <1>7
  <2> HIDE DEF line, below
  <2>2. ed_pos' = ed_len
    BY <1>1, <2>1, Ranges, PosOfBeyond
  <2>3. ed_len \in 0 .. ed_len
    BY Ranges
  <2>4. TB!Cut(ed_len)
    BY <1>1, <2>2, <2>3, CutIs
  <2> QED BY <1>1, <1>7, <2>4, LenText DEF TB!Down, below
<1> QED BY <1>6, <1>7
(* Backspace: the bytes behind the cursor move down one place, and the     *)
(* character in front of it is gone.                                       *)
LEMMA BackspaceRefines ==
  ASSUME EditorInv, EditorInv', Backspace
  PROVE  TB!Delete
<1> DEFINE p == ed_pos - 1
           b == ed_buf'
           before == SubSeq(ed_buf, 1, ed_pos)
<1>1. /\ open /\ ed_pos > 0
      /\ b = ed_move(ed_buf, p, ed_pos, ed_len - ed_pos)
      /\ ed_len' = ed_len - 1 /\ ed_pos' = p
      /\ ed_goal' = ed_col(ed_buf', ed_pos') /\ UNCHANGED <<open, file>>
  BY DEF Backspace, Put
<1>2. /\ p \in Nat /\ p \in 0 .. ed_len - 1 /\ p + 1 = ed_pos
      /\ p \in 0 .. MaxSize + 1 /\ ed_len - 1 \in 0 .. MaxSize + 1
      /\ p \in 0 .. ed_pos /\ ed_pos \in 0 .. ed_pos /\ (ed_len - 1) - p = ed_len - ed_pos
      /\ 0 \in 0 .. p /\ 0 + 1 = 1
  BY <1>1, Ranges
<1>3. b \in Buffer
  BY DEF EditorInv, EditorTypeOK, Buffer
<1>4. \A i \in 1 .. MaxSize + 1 :
        b[i] = IF i \in p + 1 .. p + (ed_len - ed_pos) THEN ed_buf[i - p + ed_pos]
               ELSE ed_buf[i]
  BY <1>1, Ranges DEF ed_move, Buffer
<1> HIDE DEF b
<1>5. Span(b, 0, p) = Span(ed_buf, 0, p)
  <2>1. /\ Span(b, 0, p) \in Seq(Bytes) /\ Len(Span(b, 0, p)) = p
        /\ \A i \in 1 .. p : Span(b, 0, p)[i] = b[i]
    BY <1>2, <1>3, PrefixIs
  <2>2. /\ Span(ed_buf, 0, p) \in Seq(Bytes) /\ Len(Span(ed_buf, 0, p)) = p
        /\ \A i \in 1 .. p : Span(ed_buf, 0, p)[i] = ed_buf[i]
    BY <1>2, Ranges, PrefixIs
  <2>3. ASSUME NEW i \in 1 .. p PROVE b[i] = ed_buf[i]
    <3>1. i \in 1 .. MaxSize + 1 /\ i \notin p + 1 .. p + (ed_len - ed_pos)
      BY <1>2, Ranges
    <3> QED BY <1>4, <3>1
  <2> HIDE DEF p
  <2> QED BY <2>1, <2>2, <2>3, SeqEqual
<1>6. Span(b, p, ed_len - 1) = Span(ed_buf, ed_pos, ed_len)
  <2> DEFINE u == Span(b, p, ed_len - 1)
             v == Span(ed_buf, ed_pos, ed_len)
             n == ed_len - ed_pos
  <2>1. u \in Seq(Bytes) /\ Len(u) = n /\ \A i \in 1 .. n : u[i] = b[p + i]
    BY <1>2, <1>3, SpanIs
  <2>2. v \in Seq(Bytes) /\ Len(v) = n /\ \A i \in 1 .. n : v[i] = ed_buf[ed_pos + i]
    BY Ranges, SpanIs
  <2> HIDE DEF u, v
  <2>3. ASSUME NEW i \in 1 .. n PROVE u[i] = v[i]
    <3>1. /\ p + i \in 1 .. MaxSize + 1 /\ p + i \in p + 1 .. p + (ed_len - ed_pos)
          /\ (p + i) - p + ed_pos = ed_pos + i
      BY <1>2, Ranges
    <3> QED BY <1>4, <2>1, <2>2, <3>1
  <2>4. u = v
    BY <2>1, <2>2, <2>3, SeqEqual
  <2> QED BY <2>4 DEF u, v
<1>7. SubSeq(before, 0 + 1, p) = Span(ed_buf, 0, p)
  <2>1. SubSeq(Span(ed_buf, 0, ed_pos), 0 + 1, p) = Span(ed_buf, 0, p)
    BY <1>2, Ranges, SpanSpan
  <2> QED BY <2>1, Mapping
<1>8. Len(before) = ed_pos /\ before # << >>
  BY <1>1, LenBefore, BeforeEmpty
<1>9. SubSeq(ed_buf, 1, ed_pos)' = SubSeq(before, 1, Len(before) - 1)
  BY <1>1, <1>2, <1>5, <1>7, <1>8 DEF Span, b
<1>10. SubSeq(ed_buf, ed_pos + 1, ed_len)' = SubSeq(ed_buf, ed_pos + 1, ed_len)
  BY <1>1, <1>2, <1>6 DEF Span, b
<1>11. ed_goal' = TB!Column(SubSeq(ed_buf', 1, ed_pos'))
  BY <1>1, GoalRefines
<1> QED BY <1>1, <1>8, <1>9, <1>10, <1>11 DEF TB!Delete

(* A character: the bytes behind the cursor move up one place.             *)
LEMMA InsertRefines ==
  ASSUME EditorInv, EditorInv', NEW c \in Keys, Insert(c)
  PROVE  TB!Insert(c)
<1> DEFINE p == ed_pos + 1
           b == ed_buf'
           before == SubSeq(ed_buf, 1, ed_pos)
<1>1. /\ open /\ ed_len < MaxSize - 1
      /\ b = [ed_move(ed_buf, p, ed_pos, ed_len - ed_pos) EXCEPT ![p] = c]
      /\ ed_len' = ed_len + 1 /\ ed_pos' = p
      /\ ed_goal' = ed_col(ed_buf', ed_pos') /\ UNCHANGED <<open, file>>
  BY DEF Insert, Put
<1>2. /\ p \in Nat /\ p \in 0 .. ed_len + 1 /\ p - 1 = ed_pos /\ c \in Bytes
      /\ p \in 0 .. MaxSize + 1 /\ ed_len + 1 \in 0 .. MaxSize + 1
      /\ (ed_len + 1) - p = ed_len - ed_pos
      /\ 0 + 1 = 1
  BY <1>1, Ranges, EditorAssumption
<1>3. b \in Buffer
  BY DEF EditorInv, EditorTypeOK, Buffer
<1>4. \A i \in 1 .. MaxSize + 1 :
        b[i] = IF i = p THEN c
               ELSE IF i \in p + 1 .. p + (ed_len - ed_pos) THEN ed_buf[i - p + ed_pos]
               ELSE ed_buf[i]
  BY <1>1, Ranges DEF ed_move, Buffer
<1> HIDE DEF b
<1>5. Span(b, 0, p) = Append(before, c)
  <2>1. /\ Span(b, 0, p) \in Seq(Bytes) /\ Len(Span(b, 0, p)) = p
        /\ \A i \in 1 .. p : Span(b, 0, p)[i] = b[i]
    BY <1>2, <1>3, PrefixIs
  <2>2. /\ before \in Seq(Bytes) /\ Len(before) = ed_pos
        /\ \A i \in 1 .. ed_pos : before[i] = ed_buf[i]
    BY Mapping, Ranges, PrefixIs
  <2> HIDE DEF before
  <2>3. /\ Append(before, c) \in Seq(Bytes) /\ Len(Append(before, c)) = p
        /\ \A i \in 1 .. ed_pos : Append(before, c)[i] = before[i]
        /\ Append(before, c)[p] = c
    BY <1>2, <2>2, AppendProperties
  <2>4. ASSUME NEW i \in 1 .. p PROVE Span(b, 0, p)[i] = Append(before, c)[i]
    <3>1. i \in 1 .. MaxSize + 1 /\ (i = p \/ (i \in 1 .. ed_pos /\ i < p))
      BY <1>2, Ranges
    <3>2. CASE i = p
      BY <1>4, <2>1, <2>3, <3>1, <3>2
    <3>3. CASE i \in 1 .. ed_pos /\ i < p
      <4>1. i # p /\ i \notin p + 1 .. p + (ed_len - ed_pos)
        BY <1>2, <3>3, Ranges
      <4>2. b[i] = ed_buf[i]
        BY <1>4, <3>1, <4>1
      <4> QED BY <2>1, <2>2, <2>3, <3>3, <4>2
    <3> QED BY <3>1, <3>2, <3>3
  <2> HIDE DEF p
  <2> QED BY <2>1, <2>3, <2>4, SeqEqual
<1>6. Span(b, p, ed_len + 1) = Span(ed_buf, ed_pos, ed_len)
  <2> DEFINE u == Span(b, p, ed_len + 1)
             v == Span(ed_buf, ed_pos, ed_len)
             n == ed_len - ed_pos
  <2>1. u \in Seq(Bytes) /\ Len(u) = n /\ \A i \in 1 .. n : u[i] = b[p + i]
    BY <1>2, <1>3, SpanIs
  <2>2. v \in Seq(Bytes) /\ Len(v) = n /\ \A i \in 1 .. n : v[i] = ed_buf[ed_pos + i]
    BY Ranges, SpanIs
  <2> HIDE DEF u, v
  <2>3. ASSUME NEW i \in 1 .. n PROVE u[i] = v[i]
    <3>1. /\ p + i \in 1 .. MaxSize + 1 /\ p + i \in p + 1 .. p + (ed_len - ed_pos)
          /\ (p + i) - p + ed_pos = ed_pos + i /\ p + i # p
      BY <1>1, <1>2, Ranges
    <3> QED BY <1>4, <2>1, <2>2, <3>1
  <2>4. u = v
    BY <2>1, <2>2, <2>3, SeqEqual
  <2> QED BY <2>4 DEF u, v
<1>7. SubSeq(ed_buf, 1, ed_pos)' = Append(before, c)
  BY <1>1, <1>2, <1>5 DEF Span, b
<1>8. SubSeq(ed_buf, ed_pos + 1, ed_len)' = SubSeq(ed_buf, ed_pos + 1, ed_len)
  BY <1>1, <1>2, <1>6 DEF Span, b
<1>9. ed_goal' = TB!Column(SubSeq(ed_buf', 1, ed_pos'))
  BY <1>1, GoalRefines
<1>10. Len(TB!Text) < MaxSize - 1
  BY <1>1, LenText
<1> QED BY <1>1, <1>7, <1>8, <1>9, <1>10 DEF TB!Insert

-----------------------------------------------------------------------------
(* Every history of the editor is one of a text with a cursor: no key      *)
(* loses, doubles or moves a character, nothing behind the text comes back *)
(* into it, moves up and down come back to the column they started from,   *)
(* and the file holds what was saved last.                                 *)
THEOREM EditorImplementsTextBuffer == EditorSpec => ImplementsTextBuffer
<1>1. EditorInit => TB!Init
  <2> SUFFICES ASSUME EditorInit PROVE TB!Init
    OBVIOUS
  <2>1. SubSeq(ed_buf, 1, 0) = << >>
    BY SubSeqEmpty
  <2>2. ed_pos = 0 /\ ed_len = 0 /\ ed_pos + 1 = 1
    BY DEF EditorInit
  <2> QED BY <2>1, <2>2 DEF EditorInit, TB!Init
<1>2. EditorInv /\ EditorInv' /\ [EditorNext]_edVars => [TB!Next]_TB!bufferVars
  <2> SUFFICES ASSUME EditorInv, EditorInv', [EditorNext]_edVars
               PROVE  TB!Next \/ UNCHANGED TB!bufferVars
    OBVIOUS
  <2>1. ASSUME NEW f \in Files, editor_open(f) PROVE TB!Next
    BY <2>1, OpenRefines DEF TB!Next
  <2>2. CASE Esc
    BY <2>2 DEF Esc, TB!Quit, TB!Next
  <2>3. CASE Save
    BY <2>3, SaveRefines DEF TB!Next
  <2>4. CASE Backspace
    BY <2>4, BackspaceRefines DEF TB!Next
  <2>5. CASE Left
    BY <2>5, LeftRefines DEF TB!Next
  <2>6. CASE Right
    BY <2>6, RightRefines DEF TB!Next
  <2>7. CASE Up
    BY <2>7, UpRefines DEF TB!Next
  <2>8. CASE Down
    BY <2>8, DownRefines DEF TB!Next
  <2>9. ASSUME NEW c \in Keys, Insert(c) PROVE TB!Next
    BY <2>9, InsertRefines DEF TB!Next
  <2>10. CASE UNCHANGED edVars
    BY <2>10 DEF edVars, TB!bufferVars
  <2> QED BY <2>1, <2>2, <2>3, <2>4, <2>5, <2>6, <2>7, <2>8, <2>9, <2>10 DEF EditorNext
<1> QED BY <1>1, <1>2, EditorInvariant, PTL DEF EditorSpec, ImplementsTextBuffer, TB!Spec
-----------------------------------------------------------------------------
(* The assembler.                                                          *)

IsLabel(k)  == items[k].kind = "label"
IsBranch(k) == items[k].kind \in {"jmp", "jcc"}
IsData(k)   == items[k].kind \in {"bytes", "align", "pad"}

(* Where the item k begins if those before it are in their places.         *)
Offset(k) == IF k = 1 THEN 0 ELSE addr[k - 1] + size[k - 1]

(* The item k has its place, and the size that goes with it.               *)
InPlace(k) ==
  /\ addr[k] = Offset(k)
  /\ IsLabel(k)  => size[k] = 0
  /\ IsBranch(k) => size[k] = IF rel8[k] THEN 2 ELSE LongSize(items[k])
  /\ IsData(k)   => size[k] = DataSize(items[k], addr[k])

(* The labels agree with the place of the item k.                          *)
Settled(k) ==
  /\ IsLabel(k) => syms[items[k].name] = addr[k] + ORG
  /\ IsBranch(k) /\ rel8[k] => StaysShort(items[k], addr[k], syms)

CwaTypes ==
  /\ items \in Programs /\ passes \in Nat /\ at \in 1 .. Len(items) + 1 /\ off \in Nat
  /\ syms \in [Labels -> Nat \cup {Unknown}]
  /\ addr \in [DOMAIN items -> Nat] /\ size \in [DOMAIN items -> Nat]
  /\ rel8 \in [DOMAIN items -> BOOLEAN]

(* The items seen in the last pass.                                        *)
Seen == IF phase = "layout" THEN at - 1 ELSE Len(items)

InLayout ==
  phase = "layout" => /\ off = Offset(at) /\ code = 0
                      /\ stable => syms = self_syms /\ \A k \in 1 .. at - 1 : Settled(k)

InEmission ==
  /\ Emitted => total = Offset(Len(items) + 1) /\ \A k \in 1 .. Len(items) : Settled(k)
  /\ phase = "emit" => off = Offset(at) /\ code = off

CwaInv ==
  /\ CwaTypes
  /\ \A l \in Labels : Labelled(l) = {} => syms[l] = Unknown
  /\ \A k \in 1 .. Seen : InPlace(k)
  /\ InLayout /\ InEmission
  /\ phase \notin {"rel8 out of range", "total"}

-----------------------------------------------------------------------------
LEMMA ProgramFacts ==
  ASSUME NEW p \in Programs
  PROVE  /\ Len(p) \in Nat /\ DOMAIN p = 1 .. Len(p)
         /\ \A k \in 1 .. Len(p) : p[k] \in Item
         /\ \A k \in 1 .. Len(p) : p[k].kind = "align" => p[k].n > 0
BY CwaAssumption

LEMMA ItemFacts ==
  ASSUME NEW x \in Item
  PROVE  /\ x.kind \in {"label", "jmp", "jcc", "bytes", "align", "pad"}
         /\ x.kind = "label" => x.name \in Labels
         /\ x.kind \in {"jmp", "jcc"} => x.to \in Labels /\ x.bits \in {16, 32}
         /\ x.kind \in {"bytes", "align", "pad"} => x.n \in Nat
BY DEF Item

LEMMA SizeFacts ==
  ASSUME NEW x \in Item, x.kind = "align" => x.n > 0, NEW o \in Nat
  PROVE  /\ x.kind \in {"bytes", "align", "pad"} => DataSize(x, o) \in Nat
         /\ x.kind \in {"jmp", "jcc"} => LongSize(x) \in Nat
<1>1. CASE x.kind = "bytes"
  BY <1>1, ItemFacts DEF DataSize
<1>2. CASE x.kind = "align"
  <2>1. x.n \in Nat \ {0} /\ o % x.n \in 0 .. x.n - 1
    BY <1>2, ItemFacts
  <2>2. DataSize(x, o) = IF o % x.n = 0 THEN 0 ELSE x.n - (o % x.n)
    BY <1>2 DEF DataSize
  <2> QED BY <1>2, <2>1, <2>2
<1>3. CASE x.kind = "pad"
  BY <1>3, ItemFacts DEF DataSize
<1>4. CASE x.kind \in {"jmp", "jcc"}
  BY <1>4 DEF LongSize
<1> QED BY <1>1, <1>2, <1>3, <1>4

LEMMA CwaInvInit == CwaInit => CwaInv
<1> SUFFICES ASSUME CwaInit PROVE CwaInv
  OBVIOUS
<1>1. CwaTypes
  BY ProgramFacts DEF CwaInit, CwaTypes
<1>2. \A l \in Labels : syms[l] = Unknown
  BY DEF CwaInit
<1>3. phase = "layout" /\ at = 1 /\ off = 0 /\ code = 0 /\ syms = self_syms
  BY DEF CwaInit
<1> QED BY <1>1, <1>2, <1>3 DEF CwaInv, Seen, InLayout, InEmission, Emitted, Offset

(* Giving an item its place leaves those before it where they are.         *)
LEMMA PlacedStep ==
  ASSUME CwaInv, phase = "layout", ~AtEnd, NEW n \in Nat, Placed(n)
  PROVE  /\ at \in DOMAIN items /\ at \in 1 .. Len(items) /\ it = items[at] /\ it \in Item
         /\ it.kind = "align" => it.n > 0
         /\ at' = at + 1 /\ off' = off + n /\ off' \in Nat /\ off = Offset(at)
         /\ items' = items /\ passes' = passes /\ phase' = "layout"
         /\ addr' \in [DOMAIN items -> Nat] /\ size' \in [DOMAIN items -> Nat]
         /\ addr'[at] = off /\ size'[at] = n
         /\ \A k \in 1 .. at - 1 : addr'[k] = addr[k] /\ size'[k] = size[k]
         /\ \A k \in 1 .. at : Offset(k)' = Offset(k)
         /\ \A k \in 1 .. at + 1 : k = at + 1 => Offset(k)' = off'
<1>1. /\ items \in Programs /\ off \in Nat /\ at \in 1 .. Len(items) + 1
      /\ addr \in [DOMAIN items -> Nat] /\ size \in [DOMAIN items -> Nat]
  BY DEF CwaInv, CwaTypes
<1>2. /\ at \in DOMAIN items /\ at \in 1 .. Len(items) /\ it = items[at] /\ it \in Item
      /\ it.kind = "align" => it.n > 0
  BY <1>1, ProgramFacts DEF AtEnd, it
<1>3. /\ addr' = [addr EXCEPT ![at] = off] /\ size' = [size EXCEPT ![at] = n]
      /\ off' = off + n /\ at' = at + 1
      /\ items' = items /\ passes' = passes /\ phase' = "layout"
  BY DEF Placed
<1>4. /\ addr' \in [DOMAIN items -> Nat] /\ size' \in [DOMAIN items -> Nat]
      /\ addr'[at] = off /\ size'[at] = n
      /\ \A k \in 1 .. at - 1 : addr'[k] = addr[k] /\ size'[k] = size[k]
  BY <1>1, <1>2, <1>3
<1>5. \A k \in 1 .. at : Offset(k)' = Offset(k)
  BY <1>1, <1>4 DEF Offset
<1>6. \A k \in 1 .. at + 1 : k = at + 1 => Offset(k)' = off'
  BY <1>1, <1>3, <1>4 DEF Offset
<1>7. off = Offset(at)
  BY DEF CwaInv, InLayout
<1> QED BY <1>1, <1>2, <1>3, <1>4, <1>5, <1>6, <1>7

(* What a visit has to show of the item that it visits.                    *)
LEMMA VisitPreserves ==
  ASSUME CwaInv, phase = "layout", ~AtEnd, NEW n \in Nat, Placed(n),
         syms' \in [Labels -> Nat \cup {Unknown}],
         \A l \in Labels : Labelled(l) = {} => syms'[l] = Unknown,
         rel8' \in [DOMAIN items -> BOOLEAN],
         \A k \in 1 .. at - 1 : rel8'[k] = rel8[k],
         stable' => stable /\ syms' = syms,
         \A k \in {at} : addr'[k] = Offset(k)' => InPlace(k)',
         \A k \in {at} : stable' => Settled(k)'
  PROVE  CwaInv'
<1>1. /\ items \in Programs /\ Len(items) \in Nat /\ at \in 1 .. Len(items) + 1
      /\ addr \in [DOMAIN items -> Nat] /\ size \in [DOMAIN items -> Nat]
      /\ passes \in Nat
  BY ProgramFacts DEF CwaInv, CwaTypes
<1>2. /\ at \in 1 .. Len(items) /\ at' = at + 1 /\ off' = off + n /\ off' \in Nat
      /\ off = Offset(at) /\ items' = items /\ passes' = passes /\ phase' = "layout"
      /\ addr' \in [DOMAIN items -> Nat] /\ size' \in [DOMAIN items -> Nat]
      /\ addr'[at] = off
  BY PlacedStep
<1>3. \A k \in 1 .. at - 1 : addr'[k] = addr[k] /\ size'[k] = size[k]
  BY PlacedStep
<1>4. \A k \in 1 .. at : Offset(k)' = Offset(k)
  BY PlacedStep
<1>5. \A k \in 1 .. at + 1 : k = at + 1 => Offset(k)' = off'
  BY PlacedStep
<1>6. CwaTypes'
  BY <1>1, <1>2 DEF CwaTypes
<1>7. (\A l \in Labels : Labelled(l) = {} => syms[l] = Unknown)'
  BY <1>2 DEF Labelled
<1>8. \A k \in 1 .. at : InPlace(k)'
  <2>1. ASSUME NEW k \in 1 .. at - 1 PROVE InPlace(k)'
    <3>1. InPlace(k)
      BY <2>1, <1>1 DEF CwaInv, Seen
    <3>2. Offset(k)' = Offset(k)
      BY <1>1, <1>4
    <3> QED BY <3>1, <3>2, <1>2, <1>3 DEF InPlace, IsLabel, IsBranch, IsData
  <2>3. \A k \in {at} : InPlace(k)'
    BY <1>1, <1>2, <1>4
  <2> QED BY <1>1, <2>1, <2>3
<1>9. Seen' = at
  BY <1>1, <1>2 DEF Seen
<1>10. ASSUME stable' PROVE syms' = self_syms' /\ \A k \in 1 .. at : Settled(k)'
  <2>1. stable /\ syms' = syms
    BY <1>10
  <2>2. self_syms' = self_syms /\ syms = self_syms /\ \A k \in 1 .. at - 1 : Settled(k)
    BY <2>1 DEF Placed, CwaInv, InLayout
  <2>3. ASSUME NEW k \in 1 .. at - 1 PROVE Settled(k)'
    BY <2>1, <2>2, <1>2, <1>3 DEF Settled, IsLabel, IsBranch, StaysShort, InReach, Distance
  <2>4. \A k \in {at} : Settled(k)'
    BY <1>10
  <2> QED BY <1>1, <2>1, <2>2, <2>3, <2>4
<1>11. InLayout'
  <2>1. off' = Offset(at)' /\ code' = 0
    <3>1. code' = 0
      BY DEF Placed, CwaInv, InLayout
    <3>2. Offset(at)' = IF at' = 1 THEN 0 ELSE addr'[at' - 1] + size'[at' - 1]
      BY DEF Offset
    <3>3. off' = addr'[at] + size'[at]
      BY <1>2, PlacedStep
    <3> QED BY <3>1, <3>2, <3>3, <1>1, <1>2
  <2>2. (at - 1)' = at
    BY <1>1, <1>2
  <2> QED BY <2>1, <2>2, <1>10 DEF InLayout
<1>12. InEmission' /\ phase' \notin {"rel8 out of range", "total"}
  BY <1>2 DEF InEmission, Emitted
<1> QED BY <1>6, <1>7, <1>8, <1>9, <1>11, <1>12 DEF CwaInv

LEMMA VisitLabelStep == CwaInv /\ VisitLabel => CwaInv'
<1> SUFFICES ASSUME CwaInv, VisitLabel PROVE CwaInv'
  OBVIOUS
<1>1. phase = "layout" /\ ~AtEnd /\ it.kind = "label" /\ Placed(0)
  BY DEF VisitLabel, Visiting
<1>2. /\ syms' = [syms EXCEPT ![it.name] = off + ORG] /\ rel8' = rel8
      /\ stable' = (stable /\ syms[it.name] = off + ORG)
  BY DEF VisitLabel
<1>3. /\ items' = items /\ it = items[at] /\ at \in DOMAIN items /\ it.name \in Labels
      /\ addr'[at] = off /\ size'[at] = 0
  BY <1>1, PlacedStep, ItemFacts
<1>4. /\ off + ORG \in Nat /\ syms \in [Labels -> Nat \cup {Unknown}]
      /\ rel8 \in [DOMAIN items -> BOOLEAN]
  <2>1. /\ off \in Nat /\ syms \in [Labels -> Nat \cup {Unknown}]
        /\ rel8 \in [DOMAIN items -> BOOLEAN]
    BY DEF CwaInv, CwaTypes
  <2>2. off + ORG \in Nat
    BY <2>1, CwaAssumption
  <2> QED BY <2>1, <2>2
<1>5. stable' => stable /\ syms' = syms
  BY <1>2, <1>4
<1>6. \A l \in Labels : Labelled(l) = {} => syms'[l] = Unknown
  BY <1>2, <1>3, <1>4, <1>1 DEF CwaInv, Labelled
<1>7. \A k \in {at} : addr'[k] = Offset(k)' => InPlace(k)'
  BY <1>1, <1>3 DEF InPlace, IsLabel, IsBranch, IsData
<1>8. \A k \in {at} : stable' => Settled(k)'
  BY <1>1, <1>2, <1>3, <1>4 DEF Settled, IsLabel, IsBranch
<1> QED BY <1>1, <1>2, <1>4, <1>5, <1>6, <1>7, <1>8, VisitPreserves

LEMMA VisitDataStep == CwaInv /\ VisitData => CwaInv'
<1> SUFFICES ASSUME CwaInv, VisitData PROVE CwaInv'
  OBVIOUS
<1> DEFINE n == DataSize(it, off)
<1>1. /\ phase = "layout" /\ ~AtEnd /\ it.kind \in {"bytes", "align", "pad"}
      /\ Placed(n) /\ syms' = syms /\ stable' = stable /\ rel8' = rel8
  BY DEF VisitData, Visiting
<1>2. /\ off \in Nat /\ syms \in [Labels -> Nat \cup {Unknown}]
      /\ rel8 \in [DOMAIN items -> BOOLEAN]
  BY DEF CwaInv, CwaTypes
<1>3. n \in Nat
  <2>1. it \in Item /\ (it.kind = "align" => it.n > 0)
    BY <1>1, ProgramFacts DEF CwaInv, CwaTypes, it, AtEnd
  <2> QED BY <2>1, <1>1, <1>2, SizeFacts
<1>4. items' = items /\ it = items[at] /\ addr'[at] = off /\ size'[at] = n
  <2> HIDE DEF n
  <2> QED BY <1>1, <1>3, PlacedStep
<1>5. \A l \in Labels : Labelled(l) = {} => syms'[l] = Unknown
  BY <1>1 DEF CwaInv
<1>6. \A k \in {at} : addr'[k] = Offset(k)' => InPlace(k)'
  BY <1>1, <1>4 DEF InPlace, IsLabel, IsBranch, IsData
<1>7. \A k \in {at} : stable' => Settled(k)'
  BY <1>1, <1>4 DEF Settled, IsLabel, IsBranch
<1> HIDE DEF n
<1> QED BY <1>1, <1>2, <1>3, <1>5, <1>6, <1>7, VisitPreserves

LEMMA VisitBranchStep == CwaInv /\ VisitBranch => CwaInv'
<1> SUFFICES ASSUME CwaInv, VisitBranch PROVE CwaInv'
  OBVIOUS
<1> DEFINE n == IF rel8'[at] THEN 2 ELSE LongSize(it)
<1>1. /\ phase = "layout" /\ ~AtEnd /\ it.kind \in {"jmp", "jcc"}
      /\ Placed(n) /\ syms' = syms /\ stable' = stable
      /\ rel8' = [rel8 EXCEPT ![at] = @ /\ StaysShort(it, off, syms)]
  BY DEF VisitBranch, Visiting
<1>2. /\ off \in Nat /\ syms \in [Labels -> Nat \cup {Unknown}] /\ at \in 1 .. Len(items) + 1
      /\ rel8 \in [DOMAIN items -> BOOLEAN] /\ items \in Programs
  BY DEF CwaInv, CwaTypes
<1>3. at \in DOMAIN items /\ it \in Item /\ (it.kind = "align" => it.n > 0)
  BY <1>1, <1>2, ProgramFacts DEF it, AtEnd
<1>4. n \in Nat
  BY <1>1, <1>2, <1>3, SizeFacts
<1>5. items' = items /\ it = items[at] /\ addr'[at] = off /\ size'[at] = n
  <2> HIDE DEF n
  <2> QED BY <1>1, <1>4, PlacedStep
<1>6. /\ rel8' \in [DOMAIN items -> BOOLEAN]
      /\ \A k \in 1 .. at - 1 : rel8'[k] = rel8[k]
      /\ rel8'[at] => StaysShort(it, off, syms)
  <2>1. StaysShort(it, off, syms) \in BOOLEAN
    BY DEF StaysShort, InReach
  <2>2. \A k \in 1 .. at - 1 : k \in DOMAIN items /\ k # at
    BY <1>2, ProgramFacts
  <2> HIDE DEF n
  <2> QED BY <2>1, <2>2, <1>1, <1>2, <1>3, Zenon
<1>7. \A l \in Labels : Labelled(l) = {} => syms'[l] = Unknown
  BY <1>1 DEF CwaInv
<1>8. \A k \in {at} : addr'[k] = Offset(k)' => InPlace(k)'
  BY <1>1, <1>5 DEF InPlace, IsLabel, IsBranch, IsData
<1>9. \A k \in {at} : stable' => Settled(k)'
  BY <1>1, <1>5, <1>6 DEF Settled, IsLabel, IsBranch, StaysShort, InReach, Distance
<1> HIDE DEF n
<1> QED BY <1>1, <1>2, <1>4, <1>6, <1>7, <1>8, <1>9, VisitPreserves

LEMMA EndPassStep == CwaInv /\ EndPass => CwaInv'
<1> SUFFICES ASSUME CwaInv, EndPass PROVE CwaInv'
  OBVIOUS
<1>1. /\ phase = "layout" /\ at = Len(items) + 1 /\ self_syms' = syms /\ total' = off
      /\ passes' = passes + 1 /\ stable' = TRUE
      /\ items' = items /\ syms' = syms /\ addr' = addr /\ size' = size /\ rel8' = rel8
      /\ code' = code
  BY DEF EndPass, AtEnd
<1>2. \/ stable /\ syms = self_syms /\ phase' = "emit" /\ at' = 1 /\ off' = 0
      \/ phase' = "layout" /\ at' = 1 /\ off' = 0
      \/ phase' = "layout did not converge" /\ at' = at /\ off' = off
  BY DEF EndPass, Rewind
<1>3. items \in Programs /\ Len(items) \in Nat /\ passes \in Nat
  BY ProgramFacts DEF CwaInv, CwaTypes
<1>4. CwaTypes'
  <2>1. CwaTypes
    BY DEF CwaInv
  <2>2. at' \in {1, at} /\ off' \in {0, off}
    BY <1>2
  <2>3. at' \in 1 .. Len(items) + 1 /\ off' \in Nat /\ passes' \in Nat
    BY <2>1, <2>2, <1>1, <1>3 DEF CwaTypes
  <2> QED BY <2>1, <2>3, <1>1 DEF CwaTypes
<1>5. (\A l \in Labels : Labelled(l) = {} => syms[l] = Unknown)'
  BY <1>1 DEF CwaInv, Labelled
<1>6. \A k \in 1 .. Len(items) : InPlace(k)'
  <2>1. \A k \in 1 .. Len(items) : InPlace(k)
    BY <1>1, <1>3 DEF CwaInv, Seen
  <2> QED BY <2>1, <1>1 DEF InPlace, Offset, IsLabel, IsBranch, IsData
<1>7. (\A k \in 1 .. Seen : InPlace(k))'
  <2>1. Seen' = IF phase' = "layout" THEN at' - 1 ELSE Len(items)
    BY <1>1 DEF Seen
  <2>2. phase' = "layout" => at' = 1
    BY <1>2
  <2>3. Seen' \in 0 .. Len(items)
    BY <2>1, <2>2, <1>3
  <2>4. \A k \in 1 .. Seen' : InPlace(k)'
    BY <2>3, <1>3, <1>6
  <2> QED BY <2>4
<1>8. InLayout'
  <2>1. phase' = "layout" => at' = 1 /\ off' = 0
    BY <1>2
  <2>2. code = 0
    BY <1>1 DEF CwaInv, InLayout
  <2> QED BY <2>1, <2>2, <1>1 DEF InLayout, Offset
<1>9. InEmission'
  <2>1. Emitted' => phase' = "emit" /\ stable /\ at' = 1 /\ off' = 0
    BY <1>2 DEF Emitted
  <2>2. off = Offset(Len(items) + 1) /\ code = 0
    BY <1>1 DEF CwaInv, InLayout
  <2>3. Offset(Len(items) + 1)' = Offset(Len(items) + 1)
    BY <1>1 DEF Offset
  <2>4. stable => \A k \in 1 .. Len(items) : Settled(k)'
    <3>1. stable => \A k \in 1 .. Len(items) : Settled(k)
      BY <1>1, <1>3 DEF CwaInv, InLayout
    <3> QED BY <3>1, <1>1 DEF Settled, IsLabel, IsBranch, StaysShort, InReach, Distance
  <2> QED BY <2>1, <2>2, <2>3, <2>4, <1>1, <1>2 DEF InEmission, Offset
<1>10. phase' \notin {"rel8 out of range", "total"}
  BY <1>2
<1> QED BY <1>4, <1>5, <1>7, <1>8, <1>9, <1>10 DEF CwaInv

(* The item to be emitted is where the layout has it.                      *)
LEMMA EmitFacts ==
  ASSUME CwaInv, phase = "emit", ~AtEnd
  PROVE  /\ at \in 1 .. Len(items) /\ at \in DOMAIN items /\ it = items[at] /\ it \in Item
         /\ off \in Nat /\ off = addr[at] /\ code = off /\ size[at] \in Nat
         /\ InPlace(at) /\ Settled(at)
<1>1. /\ items \in Programs /\ off \in Nat /\ at \in 1 .. Len(items) + 1
      /\ size \in [DOMAIN items -> Nat]
  BY DEF CwaInv, CwaTypes
<1>2. at \in 1 .. Len(items) /\ at \in DOMAIN items /\ it = items[at] /\ it \in Item
  BY <1>1, ProgramFacts DEF AtEnd, it
<1>3. \A k \in 1 .. Len(items) : InPlace(k)
  BY DEF CwaInv, Seen
<1>4. /\ off = Offset(at) /\ code = off
      /\ \A k \in 1 .. Len(items) : Settled(k)
  BY DEF CwaInv, InEmission, Emitted
<1>5. addr[at] = Offset(at)
  BY <1>2, <1>3 DEF InPlace
<1> QED BY <1>1, <1>2, <1>3, <1>4, <1>5

(* What a step of the emission has to show.                                *)
LEMMA EmitPreserves ==
  ASSUME CwaInv, phase = "emit",
         UNCHANGED <<items, passes, syms, self_syms, stable, total, addr, size, rel8>>,
         phase' \notin {"layout", "layout did not converge", "rel8 out of range", "total"},
         \/ at' = at /\ off' = off /\ phase' # "emit"
         \/ ~AtEnd /\ at' = at + 1 /\ off' = off + size[at] /\ code' = off'
  PROVE  CwaInv'
<1>1. /\ items' = items /\ passes' = passes /\ syms' = syms /\ total' = total
      /\ addr' = addr /\ size' = size /\ rel8' = rel8
  OBVIOUS
<1>2. CwaTypes /\ items \in Programs /\ Len(items) \in Nat
  BY ProgramFacts DEF CwaInv, CwaTypes
<1>3. /\ at' \in 1 .. Len(items) + 1 /\ off' \in Nat
      /\ phase' = "emit" => off' = Offset(at') /\ code' = off'
  <2>1. CASE at' = at /\ off' = off /\ phase' # "emit"
    BY <2>1, <1>2 DEF CwaTypes
  <2>2. CASE ~AtEnd /\ at' = at + 1 /\ off' = off + size[at] /\ code' = off'
    <3>1. /\ at \in 1 .. Len(items) /\ off \in Nat /\ off = addr[at] /\ size[at] \in Nat
      BY <2>2, EmitFacts
    <3>2. at' \in 1 .. Len(items) + 1 /\ at' # 1 /\ at' - 1 = at /\ off' \in Nat
      <4>1. Len(items) \in Nat /\ at' = at + 1 /\ off' = off + size[at]
        BY <1>2, <2>2
      <4> QED BY ONLY <3>1, <4>1
    <3>3. Offset(at') = addr[at] + size[at]
      BY <3>2 DEF Offset
    <3> QED BY <2>2, <3>1, <3>2, <3>3
  <2> QED BY <2>1, <2>2
<1>4. CwaTypes'
  BY <1>1, <1>2, <1>3 DEF CwaTypes
<1>5. (\A l \in Labels : Labelled(l) = {} => syms[l] = Unknown)'
  BY <1>1 DEF CwaInv, Labelled
<1>6. Seen' = Len(items) /\ Seen = Len(items)
  BY <1>1 DEF Seen
<1>7. \A k \in 1 .. Len(items) : InPlace(k)'
  <2>1. \A k \in 1 .. Len(items) : InPlace(k)
    BY <1>6 DEF CwaInv
  <2> QED BY <2>1, <1>1 DEF InPlace, Offset, IsLabel, IsBranch, IsData
<1>8. InLayout'
  BY DEF InLayout
<1>9. InEmission'
  <2>1. total = Offset(Len(items) + 1) /\ \A k \in 1 .. Len(items) : Settled(k)
    BY DEF CwaInv, InEmission, Emitted
  <2>2. \A k \in 1 .. Len(items) : Settled(k)'
    BY <2>1, <1>1 DEF Settled, IsLabel, IsBranch, StaysShort, InReach, Distance
  <2>3. Offset(Len(items) + 1)' = Offset(Len(items) + 1) /\ Offset(at)' = Offset(at')
    BY <1>1 DEF Offset
  <2> QED BY <2>1, <2>2, <2>3, <1>1, <1>3 DEF InEmission
<1> QED BY <1>4, <1>5, <1>6, <1>7, <1>8, <1>9 DEF CwaInv

LEMMA EmitStepPreserves == CwaInv /\ EmitStep => CwaInv'
<1> SUFFICES ASSUME CwaInv, EmitStep PROVE CwaInv'
  OBVIOUS
<1>1. UNCHANGED <<items, passes, syms, self_syms, stable, total, addr, size, rel8>>
  BY DEF EmitStep
<1>2. CASE EmitLabel
  <2>1. /\ phase = "emit" /\ ~AtEnd /\ it.kind = "label" /\ at' = at + 1
        /\ phase' = phase /\ off' = off /\ code' = code
    BY <1>2 DEF EmitLabel, Emitting
  <2>2. size[at] = 0 /\ off \in Nat /\ code = off
    BY <2>1, EmitFacts DEF InPlace, IsLabel
  <2> QED BY <1>1, <2>1, <2>2, EmitPreserves
<1>3. CASE emit_data
  <2>1. phase = "emit" /\ ~AtEnd /\ it.kind \in {"bytes", "align", "pad"}
    BY <1>3 DEF emit_data, Emitting
  <2>2. size[at] = DataSize(it, off) /\ code = off
    BY <2>1, EmitFacts DEF InPlace, IsData
  <2>3. \/ phase' = "negative times" /\ at' = at /\ off' = off
        \/ phase' = "emit" /\ at' = at + 1 /\ off' = off + size[at] /\ code' = off + size[at]
    BY <1>3, <2>1, <2>2 DEF emit_data, Raise, Emit
  <2> QED BY <1>1, <2>1, <2>3, EmitPreserves
<1>4. CASE encode
  <2>1. phase = "emit" /\ ~AtEnd /\ it.kind \in {"jmp", "jcc"}
    BY <1>4 DEF encode, Emitting
  <2>2. ~(rel8[at] /\ syms[it.to] # Unknown /\ ~InReach(it, off, syms))
    BY <2>1, EmitFacts DEF Settled, IsBranch, StaysShort
  <2>3. code = off
    BY <2>1, EmitFacts
  <2>4. \/ /\ phase' \in {"undefined symbol", "external jcc not supported", "size drift"}
           /\ at' = at /\ off' = off
        \/ phase' = "emit" /\ at' = at + 1 /\ off' = off + size[at] /\ code' = off + size[at]
    <3> DEFINE ext == syms[it.to] = Unknown /\ it.to \in Externs
               n   == IF rel8[at] /\ ~ext THEN 2 ELSE EncodedLong(it)
    <3>1. \/ Raise("undefined symbol") \/ Raise("external jcc not supported")
          \/ n # size[at] /\ Raise("size drift")
          \/ n = size[at] /\ Emit(n)
      BY <1>4, <2>2 DEF encode
    <3> HIDE DEF n
    <3> QED BY <3>1, <2>1, <2>3 DEF Raise, Emit
  <2> QED BY <1>1, <2>1, <2>4, EmitPreserves
<1>5. CASE EmitEnd
  <2>1. phase = "emit" /\ at = Len(items) + 1 /\ at' = at /\ off' = off
        /\ phase' = IF off = total THEN "done" ELSE "total"
    BY <1>5 DEF EmitEnd, AtEnd, Raise
  <2>2. off = total
    BY <2>1 DEF CwaInv, InEmission, Emitted
  <2> QED BY <1>1, <2>1, <2>2, EmitPreserves
<1> QED BY <1>2, <1>3, <1>4, <1>5 DEF EmitStep

-----------------------------------------------------------------------------
(* For every set of programs, origin and reach of a short branch: items    *)
(* keep the place a pass gave them, and while no label has moved in a pass *)
(* the labels agree with the places (layout).                              *)
THEOREM CwaInvariant == CwaSpec => []CwaInv
<1>1. CwaInv /\ [CwaNext]_cwaVars => CwaInv'
  <2> SUFFICES ASSUME CwaInv, [CwaNext]_cwaVars PROVE CwaInv'
    OBVIOUS
  <2>1. CASE CwaNext
    BY <2>1, VisitLabelStep, VisitDataStep, VisitBranchStep, EndPassStep, EmitStepPreserves
       DEF CwaNext
  <2>2. CASE UNCHANGED cwaVars
    BY <2>2 DEF cwaVars, CwaInv, CwaTypes, Labelled, Seen, InPlace, Offset, IsLabel, IsBranch,
                IsData, InLayout, InEmission, Settled, StaysShort, InReach, Distance, Emitted
  <2> QED BY <2>1, <2>2
<1> QED BY CwaInvInit, <1>1, PTL DEF CwaSpec

(* The layout that is used is one layout: every item starts where the one  *)
(* before ends, labels are at their addresses and short branches reach     *)
(* their targets (layout, _layout_once).                                   *)
THEOREM CwaLayoutConsistent == CwaSpec => []LayoutConsistent
<1>1. CwaInv => LayoutConsistent
  <2> SUFFICES ASSUME CwaInv, Emitted PROVE LayoutConsistent
    BY DEF LayoutConsistent
  <2>1. DOMAIN items = 1 .. Len(items)
    BY ProgramFacts DEF CwaInv, CwaTypes
  <2>2. \A k \in DOMAIN items : InPlace(k) /\ Settled(k)
    BY <2>1 DEF CwaInv, Seen, InEmission, Emitted
  <2>3. \A l \in Labels : Labelled(l) = {} => syms[l] = Unknown
    BY DEF CwaInv
  <2>4. \A k \in DOMAIN items : addr[k] = IF k = 1 THEN 0 ELSE addr[k - 1] + size[k - 1]
    BY <2>2 DEF InPlace, Offset
  <2>5. \A k \in DOMAIN items : items[k].kind = "label" => syms[items[k].name] = addr[k] + ORG
    BY <2>2 DEF Settled, IsLabel
  <2>6. \A k \in Branches :
          rel8[k] /\ syms[items[k].to] # Unknown => InReach(items[k], addr[k], syms)
    BY <2>2 DEF Settled, IsBranch, Branches, StaysShort
  <2> QED BY <2>3, <2>4, <2>5, <2>6 DEF LayoutConsistent
<1> QED BY CwaInvariant, <1>1, PTL

(* What is emitted is where the layout has it, and neither the assertion   *)
(* on the reach of a short branch nor the one on the total can fail        *)
(* (encode, assemble).                                                     *)
THEOREM CwaCodeMatchesLayout == CwaSpec => []CodeMatchesLayout
<1>1. CwaInv => CodeMatchesLayout
  <2> SUFFICES ASSUME CwaInv PROVE CodeMatchesLayout
    OBVIOUS
  <2>1. ASSUME phase = "emit" PROVE code = off /\ (~AtEnd => off = addr[at])
    <3>1. code = off
      BY <2>1 DEF CwaInv, InEmission
    <3> QED BY <2>1, <3>1, EmitFacts
  <2>2. ASSUME phase = "emit", AtEnd PROVE off = total
    BY <2>2 DEF CwaInv, InEmission, Emitted, AtEnd
  <2> QED BY <2>1, <2>2 DEF CodeMatchesLayout, CwaInv
<1> QED BY CwaInvariant, <1>1, PTL

-----------------------------------------------------------------------------
(* The branches that encode has a form for: in 16-bit code only jmp, and   *)
(* not to an extern.                                                       *)
Encodable ==
  \A p \in Programs : \A k \in DOMAIN p :
    p[k].kind \in {"jmp", "jcc"} /\ p[k].bits = 16 => p[k].kind = "jmp" /\ p[k].to \notin Externs

(* If all branches are of these forms, _insn_size and encode agree on the  *)
(* length of each: its assertion on the size cannot fail.  The run         *)
(* cwa_drift shows a program of the other forms.                           *)
THEOREM CwaNoSizeDrift ==
  ASSUME Encodable
  PROVE  CwaSpec => []NoSizeDrift
<1>1. CwaInit => NoSizeDrift
  BY DEF CwaInit, NoSizeDrift
<1>2. CwaInv /\ NoSizeDrift /\ [CwaNext]_cwaVars => NoSizeDrift'
  <2> SUFFICES ASSUME CwaInv, NoSizeDrift, [CwaNext]_cwaVars PROVE phase' # "size drift"
    BY DEF NoSizeDrift
  <2>1. CASE UNCHANGED cwaVars
    BY <2>1 DEF cwaVars, NoSizeDrift
  <2>2. CASE VisitLabel \/ VisitData \/ VisitBranch
    BY <2>2 DEF VisitLabel, VisitData, VisitBranch, Visiting, Placed
  <2>3. CASE EndPass
    BY <2>3 DEF EndPass
  <2>4. CASE EmitLabel
    BY <2>4 DEF EmitLabel, Emitting
  <2>5. CASE emit_data
    BY <2>5 DEF emit_data, Emitting, Raise, Emit
  <2>6. CASE EmitEnd
    BY <2>6 DEF EmitEnd, Raise
  <2>7. CASE encode
    <3> DEFINE ext == syms[it.to] = Unknown /\ it.to \in Externs
               n   == IF rel8[at] /\ ~ext THEN 2 ELSE EncodedLong(it)
    <3>1. phase = "emit" /\ ~AtEnd /\ it.kind \in {"jmp", "jcc"}
      BY <2>7 DEF encode, Emitting
    <3>2. /\ at \in DOMAIN items /\ it = items[at] /\ it \in Item
          /\ InPlace(at) /\ Settled(at) /\ off = addr[at]
      BY <3>1, EmitFacts
    <3>3. it.bits = 16 => it.kind = "jmp" /\ it.to \notin Externs
      BY <3>1, <3>2, Encodable DEF Encodable, CwaInv, CwaTypes
    <3>4. it.bits \in {16, 32} /\ size[at] = IF rel8[at] THEN 2 ELSE LongSize(it)
      BY <3>1, <3>2, ItemFacts DEF InPlace, IsBranch
    <3>5. rel8[at] => ~ext
      BY <3>1, <3>2 DEF Settled, IsBranch, StaysShort
    <3>6. EncodedLong(it) = LongSize(it)
      <4>1. CASE it.kind = "jcc"
        BY <4>1, <3>3, <3>4 DEF EncodedLong, LongSize
      <4>2. CASE it.kind = "jmp" /\ ext
        BY <4>2, <3>3, <3>4 DEF EncodedLong, LongSize
      <4>3. CASE it.kind = "jmp" /\ ~ext
        BY <4>3 DEF EncodedLong
      <4> QED BY <4>1, <4>2, <4>3, <3>1
    <3>7. n = size[at]
      BY <3>4, <3>5, <3>6
    <3>8. \/ Raise("undefined symbol") \/ Raise("external jcc not supported")
          \/ Raise("rel8 out of range")
          \/ n # size[at] /\ Raise("size drift")
          \/ n = size[at] /\ Emit(n)
      BY <2>7 DEF encode
    <3> HIDE DEF n
    <3> QED BY <3>1, <3>7, <3>8 DEF Raise, Emit
  <2> QED BY <2>1, <2>2, <2>3, <2>4, <2>5, <2>6, <2>7 DEF CwaNext, EmitStep
<1> QED BY CwaInvariant, <1>1, <1>2, PTL DEF CwaSpec

-----------------------------------------------------------------------------
(* The branches that have grown, and the label items of the pass.          *)
Long         == {k \in Branches : ~rel8[k]}
LabelHolds(k) == IsLabel(k) => syms[items[k].name] = addr[k] + ORG

(* Nothing has moved since the last pass: what the pass still has to visit *)
(* has its place as well.                                                  *)
Steady == stable /\ \A k \in 1 .. Len(items) : InPlace(k) /\ LabelHolds(k)

(* Every pass after the first has made a branch long, or nothing has moved *)
(* so far and the pass will be the last.                                   *)
PassInv ==
  Unambiguous =>
    /\ phase = "layout" =>
         /\ \A k \in 1 .. at - 1 : LabelHolds(k)
         /\ \/ passes = 0
            \/ passes <= Cardinality(Long)
            \/ passes <= Cardinality(Long) + 1 /\ Steady
    /\ phase # "layout" => passes <= Cardinality(Long) + 2
    /\ phase = "layout did not converge" => MAX_PASSES <= passes /\ passes <= Cardinality(Long) + 1

LEMMA BranchesFinite ==
  ASSUME items \in Programs
  PROVE  /\ IsFiniteSet(Branches) /\ IsFiniteSet(Long)
         /\ Cardinality(Long) \in Nat /\ Cardinality(Branches) \in Nat
         /\ Cardinality(Long) <= Cardinality(Branches)
<1>1. IsFiniteSet(DOMAIN items)
  BY ProgramFacts, FS_Interval
<1>2. Branches \subseteq DOMAIN items /\ Long \subseteq Branches
  BY DEF Branches, Long
<1> QED BY <1>1, <1>2, FS_Subset, FS_CardinalityType

(* Where no label is defined twice, the label of an item is of that item.  *)
LEMMA OneItemPerLabel ==
  ASSUME items \in Programs, Unambiguous, NEW j \in 1 .. Len(items), NEW k \in 1 .. Len(items),
         IsLabel(j), IsLabel(k), items[j].name = items[k].name
  PROVE  j = k
<1> DEFINE S == Labelled(items[j].name)
<1>1. j \in S /\ k \in S /\ S \subseteq DOMAIN items /\ items[j].name \in Labels
  BY ProgramFacts, ItemFacts DEF Labelled, IsLabel
<1>2. IsFiniteSet(S) /\ Cardinality(S) <= 1 /\ Cardinality(S) \in Nat
  <2>1. IsFiniteSet(S)
    <3> HIDE DEF S
    <3> QED BY <1>1, ProgramFacts, FS_Interval, FS_Subset
  <2>2. Cardinality(S) <= 1
    BY <1>1 DEF Unambiguous
  <2> QED BY <2>1, <2>2, FS_CardinalityType
<1> HIDE DEF S
<1>3. SUFFICES ASSUME j # k PROVE FALSE
  OBVIOUS
<1>4. IsFiniteSet(S \ {j}) /\ Cardinality(S \ {j}) = Cardinality(S) - 1
  BY <1>1, <1>2, FS_RemoveElement
<1>5. Cardinality(S \ {j}) = 0
  BY <1>2, <1>4, FS_CardinalityType
<1>6. S \ {j} = {}
  BY <1>4, <1>5, FS_EmptySet
<1> QED BY <1>1, <1>3, <1>6

LEMMA PassInvInit == CwaInit => PassInv
BY DEF CwaInit, PassInv

(* A pass that has found everything in its place leaves it there.          *)
LEMMA SteadyVisit ==
  ASSUME CwaInv, phase = "layout", ~AtEnd, NEW n \in Nat, Placed(n),
         Steady, syms' = syms, rel8' = rel8, stable', size[at] = n
  PROVE  Steady'
<1>1. /\ at \in 1 .. Len(items) /\ addr \in [DOMAIN items -> Nat] /\ off = Offset(at)
      /\ size \in [DOMAIN items -> Nat] /\ items' = items
  BY PlacedStep DEF CwaInv, CwaTypes
<1>2. addr[at] = off
  BY <1>1 DEF Steady, InPlace
<1>3. addr' = addr /\ size' = size
  BY <1>1, <1>2 DEF Placed
<1> QED BY <1>1, <1>3 DEF Steady, InPlace, LabelHolds, Offset, IsLabel, IsBranch, IsData

(* What a visit has to show of the branches and of the labels.             *)
LEMMA PassVisit ==
  ASSUME CwaInv, PassInv, phase = "layout", ~AtEnd, NEW n \in Nat, Placed(n),
         Unambiguous => \A k \in 1 .. at : LabelHolds(k)',
         \/ Long' = Long /\ (Steady => Steady')
         \/ Cardinality(Long') = Cardinality(Long) + 1
  PROVE  PassInv'
<1>1. /\ at \in 1 .. Len(items) /\ at' = at + 1 /\ passes' = passes /\ phase' = "layout"
      /\ items' = items
  BY PlacedStep
<1>2. items \in Programs /\ passes \in Nat /\ Len(items) \in Nat
  BY ProgramFacts DEF CwaInv, CwaTypes
<1>3. Cardinality(Long) \in Nat
  BY <1>2, BranchesFinite
<1>4. Unambiguous' = Unambiguous
  BY <1>1 DEF Unambiguous, Labelled
<1> SUFFICES ASSUME Unambiguous
             PROVE  /\ \A k \in 1 .. at' - 1 : LabelHolds(k)'
                    /\ \/ passes' = 0
                       \/ passes' <= Cardinality(Long')
                       \/ passes' <= Cardinality(Long') + 1 /\ Steady'
  BY <1>1, <1>4 DEF PassInv
<1>5. \A k \in 1 .. at' - 1 : LabelHolds(k)'
  BY <1>1
<1>6. \/ passes = 0
      \/ passes <= Cardinality(Long)
      \/ passes <= Cardinality(Long) + 1 /\ Steady
  BY DEF PassInv
<1>7. CASE Long' = Long /\ (Steady => Steady')
  BY <1>1, <1>5, <1>6, <1>7
<1>8. CASE Cardinality(Long') = Cardinality(Long) + 1
  <2>1. passes' = 0 \/ passes' <= Cardinality(Long')
    BY ONLY <1>1, <1>2, <1>3, <1>6, <1>8
  <2> QED BY <1>5, <2>1
<1> QED BY <1>7, <1>8

LEMMA PassVisitLabel == CwaInv /\ PassInv /\ VisitLabel => PassInv'
<1> SUFFICES ASSUME CwaInv, PassInv, VisitLabel PROVE PassInv'
  OBVIOUS
<1>1. phase = "layout" /\ ~AtEnd /\ it.kind = "label" /\ Placed(0)
  BY DEF VisitLabel, Visiting
<1>2. /\ syms' = [syms EXCEPT ![it.name] = off + ORG] /\ rel8' = rel8
      /\ stable' = (stable /\ syms[it.name] = off + ORG)
  BY DEF VisitLabel
<1>3. /\ items' = items /\ it = items[at] /\ at \in 1 .. Len(items) /\ it.name \in Labels
      /\ addr'[at] = off /\ off = Offset(at)
      /\ \A k \in 1 .. at - 1 : addr'[k] = addr[k]
  BY <1>1, PlacedStep, ItemFacts
<1>4. /\ items \in Programs /\ Len(items) \in Nat
      /\ syms \in [Labels -> Nat \cup {Unknown}]
      /\ \A k \in 1 .. Len(items) : IsLabel(k) => items[k].name \in Labels
  BY ProgramFacts, ItemFacts DEF CwaInv, CwaTypes, IsLabel
<1>5. ASSUME Unambiguous PROVE \A k \in 1 .. at : LabelHolds(k)'
  <2>1. \A k \in {at} : LabelHolds(k)'
    BY <1>2, <1>3, <1>4 DEF LabelHolds, IsLabel
  <2>2. ASSUME NEW k \in 1 .. at - 1 PROVE LabelHolds(k)'
    <3> SUFFICES ASSUME IsLabel(k) PROVE syms'[items[k].name] = addr'[k] + ORG
      BY <1>3 DEF LabelHolds, IsLabel
    <3>1. k \in 1 .. Len(items) /\ k # at
      BY <1>3, <1>4
    <3>2. items[k].name # it.name
      <4>1. IsLabel(at)
        BY <1>1, <1>3 DEF IsLabel
      <4> QED BY <1>3, <1>4, <1>5, <3>1, <4>1, OneItemPerLabel
    <3>3. syms[items[k].name] = addr[k] + ORG
      BY <1>1, <1>5 DEF PassInv, LabelHolds
    <3>4. syms'[items[k].name] = syms[items[k].name]
      BY <1>2, <1>4, <3>1, <3>2
    <3> QED BY <1>3, <3>3, <3>4
  <2> QED BY <1>3, <1>4, <2>1, <2>2
<1>6. Long' = Long
  BY <1>2, <1>3 DEF Long, Branches
<1>7. ASSUME Steady PROVE Steady'
  <2>1. InPlace(at) /\ LabelHolds(at)
    BY <1>3, <1>7 DEF Steady
  <2>2. addr[at] = off /\ size[at] = 0 /\ syms[it.name] = off + ORG
    BY <1>1, <1>3, <2>1 DEF InPlace, LabelHolds, IsLabel
  <2>3. syms' = syms
    BY <1>2, <1>4, <2>2
  <2>4. stable'
    BY <1>2, <1>7, <2>2 DEF Steady
  <2> QED BY <1>1, <1>2, <1>7, <2>2, <2>3, <2>4, SteadyVisit
<1> QED BY <1>1, <1>5, <1>6, <1>7, PassVisit

LEMMA PassVisitData == CwaInv /\ PassInv /\ VisitData => PassInv'
<1> SUFFICES ASSUME CwaInv, PassInv, VisitData PROVE PassInv'
  OBVIOUS
<1> DEFINE n == DataSize(it, off)
<1>1. /\ phase = "layout" /\ ~AtEnd /\ it.kind \in {"bytes", "align", "pad"}
      /\ Placed(n) /\ syms' = syms /\ stable' = stable /\ rel8' = rel8
  BY DEF VisitData, Visiting
<1>2. n \in Nat
  <2>1. it \in Item /\ (it.kind = "align" => it.n > 0) /\ off \in Nat
    BY <1>1, ProgramFacts DEF CwaInv, CwaTypes, it, AtEnd
  <2> QED BY <2>1, <1>1, SizeFacts
<1>3. /\ items' = items /\ it = items[at] /\ at \in 1 .. Len(items) /\ off = Offset(at)
      /\ \A k \in 1 .. at - 1 : addr'[k] = addr[k]
  <2> HIDE DEF n
  <2> QED BY <1>1, <1>2, PlacedStep
<1>4. ASSUME Unambiguous PROVE \A k \in 1 .. at : LabelHolds(k)'
  <2>1. \A k \in {at} : ~IsLabel(k)
    BY <1>1, <1>3 DEF IsLabel
  <2>2. \A k \in 1 .. at - 1 : LabelHolds(k)
    BY <1>1, <1>4 DEF PassInv
  <2>3. \A k \in 1 .. at : k = at \/ k \in 1 .. at - 1
    BY <1>3
  <2> QED BY <1>1, <1>3, <2>1, <2>2, <2>3 DEF LabelHolds, IsLabel
<1>5. Long' = Long
  BY <1>1, <1>3 DEF Long, Branches
<1>6. ASSUME Steady PROVE Steady'
  <2>1. InPlace(at)
    BY <1>3, <1>6 DEF Steady
  <2>2. size[at] = n
    BY <1>1, <1>3, <2>1 DEF InPlace, IsData
  <2>3. stable'
    BY <1>1, <1>6 DEF Steady
  <2> HIDE DEF n
  <2> QED BY <1>1, <1>2, <1>6, <2>2, <2>3, SteadyVisit
<1> HIDE DEF n
<1> QED BY <1>1, <1>2, <1>4, <1>5, <1>6, PassVisit

LEMMA PassVisitBranch == CwaInv /\ PassInv /\ VisitBranch => PassInv'
<1> SUFFICES ASSUME CwaInv, PassInv, VisitBranch PROVE PassInv'
  OBVIOUS
<1> DEFINE n == IF rel8'[at] THEN 2 ELSE LongSize(it)
<1>1. /\ phase = "layout" /\ ~AtEnd /\ it.kind \in {"jmp", "jcc"}
      /\ Placed(n) /\ syms' = syms /\ stable' = stable
      /\ rel8' = [rel8 EXCEPT ![at] = @ /\ StaysShort(it, off, syms)]
  BY DEF VisitBranch, Visiting
<1>2. rel8 \in [DOMAIN items -> BOOLEAN] /\ items \in Programs
  BY DEF CwaInv, CwaTypes
<1>3. n \in Nat
  <2>1. it \in Item /\ (it.kind = "align" => it.n > 0) /\ off \in Nat
    <3> HIDE DEF n
    <3>1. at \in 1 .. Len(items) + 1 /\ off \in Nat
      BY DEF CwaInv, CwaTypes
    <3> QED BY <1>1, <1>2, <3>1, ProgramFacts DEF it, AtEnd
  <2> QED BY <2>1, <1>1, SizeFacts
<1>4. /\ items' = items /\ it = items[at] /\ at \in 1 .. Len(items) /\ at \in DOMAIN items
      /\ \A k \in 1 .. at - 1 : addr'[k] = addr[k]
  <2> HIDE DEF n
  <2> QED BY <1>1, <1>3, PlacedStep
<1>5. ASSUME Unambiguous PROVE \A k \in 1 .. at : LabelHolds(k)'
  <2>1. \A k \in {at} : ~IsLabel(k)
    BY <1>1, <1>4 DEF IsLabel
  <2>2. \A k \in 1 .. at - 1 : LabelHolds(k)
    BY <1>1, <1>5 DEF PassInv
  <2>3. \A k \in 1 .. at : k = at \/ k \in 1 .. at - 1
    BY <1>4
  <2> QED BY <1>1, <1>4, <2>1, <2>2, <2>3 DEF LabelHolds, IsLabel
<1>6. \/ rel8' = rel8
      \/ rel8[at] /\ rel8' = [rel8 EXCEPT ![at] = FALSE]
  <2>1. StaysShort(it, off, syms) \in BOOLEAN
    BY DEF StaysShort, InReach
  <2>2. rel8[at] \in BOOLEAN
    BY <1>2, <1>4
  <2> HIDE DEF n
  <2>3. CASE StaysShort(it, off, syms)
    BY <1>1, <1>2, <2>2, <2>3
  <2>4. CASE ~StaysShort(it, off, syms) /\ rel8[at]
    BY <1>1, <2>4
  <2>5. CASE ~rel8[at]
    <3>1. rel8' = [rel8 EXCEPT ![at] = FALSE] /\ rel8[at] = FALSE
      BY <1>1, <2>2, <2>5
    <3> QED BY <3>1, <1>2, <1>4
  <2> QED BY <2>1, <2>3, <2>4, <2>5
<1>7. CASE rel8' = rel8
  <2>1. Long' = Long
    BY <1>4, <1>7 DEF Long, Branches
  <2>2. ASSUME Steady PROVE Steady'
    <3>1. InPlace(at)
      BY <1>4, <2>2 DEF Steady
    <3>2. size[at] = n
      BY <1>1, <1>4, <1>7, <3>1 DEF InPlace, IsBranch
    <3>3. stable'
      BY <1>1, <2>2 DEF Steady
    <3> HIDE DEF n
    <3> QED BY <1>1, <1>3, <1>7, <2>2, <3>2, <3>3, SteadyVisit
  <2> HIDE DEF n
  <2> QED BY <1>1, <1>3, <1>5, <2>1, <2>2, PassVisit
<1>8. CASE rel8[at] /\ rel8' = [rel8 EXCEPT ![at] = FALSE]
  <2>1. at \in Branches /\ at \notin Long
    BY <1>1, <1>4, <1>8 DEF Branches, Long
  <2>2. Long' = Long \cup {at}
    <3>1. Branches' = Branches
      BY <1>4 DEF Branches
    <3>2. \A k \in Branches : rel8'[k] = IF k = at THEN FALSE ELSE rel8[k]
      BY <1>2, <1>8 DEF Branches
    <3> QED BY <2>1, <3>1, <3>2 DEF Long
  <2>3. Cardinality(Long') = Cardinality(Long) + 1
    BY <1>2, <2>1, <2>2, BranchesFinite, FS_AddElement
  <2> HIDE DEF n
  <2> QED BY <1>1, <1>3, <1>5, <2>3, PassVisit
<1> QED BY <1>6, <1>7, <1>8

LEMMA PassEnd == CwaInv /\ PassInv /\ EndPass => PassInv'
<1> SUFFICES ASSUME CwaInv, PassInv, EndPass, Unambiguous PROVE PassInv'
  BY DEF PassInv, Unambiguous, Labelled, EndPass
<1>1. /\ phase = "layout" /\ at = Len(items) + 1 /\ passes' = passes + 1 /\ stable' = TRUE
      /\ items' = items /\ syms' = syms /\ addr' = addr /\ size' = size /\ rel8' = rel8
  BY DEF EndPass, AtEnd
<1>2. \/ stable /\ syms = self_syms /\ phase' = "emit"
      \/ /\ ~(stable /\ syms = self_syms) /\ phase' = "layout" /\ at' = 1
      \/ /\ ~(stable /\ syms = self_syms) /\ phase' = "layout did not converge"
         /\ MAX_PASSES <= passes + 1
  <2>1. passes \in Nat /\ MAX_PASSES \in Nat
    BY CwaAssumption DEF CwaInv, CwaTypes
  <2>2. ~(passes + 1 < MAX_PASSES) => MAX_PASSES <= passes + 1
    BY <2>1
  <2> QED BY <2>2 DEF EndPass, Rewind
<1>3. /\ items \in Programs /\ Len(items) \in Nat /\ passes \in Nat
      /\ Cardinality(Long) \in Nat
  BY ProgramFacts, BranchesFinite DEF CwaInv, CwaTypes
<1>4. Long' = Long
  BY <1>1 DEF Long, Branches
<1>5. \A k \in 1 .. Len(items) : InPlace(k) /\ LabelHolds(k)
  <2>1. \A k \in 1 .. at - 1 : InPlace(k) /\ LabelHolds(k)
    BY <1>1 DEF CwaInv, Seen, PassInv
  <2> QED BY <1>1, <1>3, <2>1
<1>6. Steady'
  BY <1>1, <1>5 DEF Steady, InPlace, LabelHolds, Offset, IsLabel, IsBranch, IsData
<1>7. \/ passes = 0
      \/ passes <= Cardinality(Long)
      \/ passes <= Cardinality(Long) + 1 /\ Steady
  BY <1>1 DEF PassInv
<1>8. Steady => stable /\ syms = self_syms
  BY <1>1 DEF Steady, CwaInv, InLayout
<1>9. /\ phase' = "emit" => passes' <= Cardinality(Long') + 2
      /\ phase' # "emit" => /\ passes' <= Cardinality(Long') + 1
                            /\ passes' <= Cardinality(Long') + 2
  <2>1. phase' # "emit" => ~Steady
    BY <1>2, <1>8
  <2>2. passes <= Cardinality(Long) + 1 /\ (~Steady => passes <= Cardinality(Long))
    BY ONLY <1>3, <1>7
  <2>3. /\ passes' <= Cardinality(Long') + 2
        /\ ~Steady => passes' <= Cardinality(Long') + 1
    BY ONLY <1>1, <1>3, <1>4, <2>2
  <2> QED BY <2>1, <2>3
<1>10. CASE phase' = "emit"
  BY <1>9, <1>10 DEF PassInv
<1>11. CASE phase' = "layout" /\ at' = 1
  <2>1. 1 .. at' - 1 = {}
    BY <1>11
  <2> QED BY <1>6, <1>9, <1>11, <2>1 DEF PassInv
<1>12. CASE phase' = "layout did not converge" /\ MAX_PASSES <= passes'
  <2>1. passes' <= Cardinality(Long') + 1 /\ passes' <= Cardinality(Long') + 2
    BY <1>9, <1>12
  <2> QED BY <1>12, <2>1 DEF PassInv
<1> QED BY <1>1, <1>2, <1>10, <1>11, <1>12

LEMMA PassEmit == CwaInv /\ PassInv /\ EmitStep => PassInv'
<1> SUFFICES ASSUME CwaInv, PassInv, EmitStep PROVE PassInv'
  OBVIOUS
<1>1. /\ items' = items /\ passes' = passes /\ rel8' = rel8
  BY DEF EmitStep
<1>2. /\ phase = "emit"
      /\ phase' \notin {"layout", "layout did not converge"}
  BY DEF EmitStep, EmitLabel, emit_data, encode, EmitEnd, Emitting, Raise, Emit
<1>3. Long' = Long /\ Unambiguous' = Unambiguous
  BY <1>1 DEF Long, Branches, Unambiguous, Labelled
<1> QED BY <1>1, <1>2, <1>3 DEF PassInv

THEOREM PassInvariant == CwaSpec => []PassInv
<1>1. CwaInv /\ PassInv /\ [CwaNext]_cwaVars => PassInv'
  <2>1. CwaInv /\ PassInv /\ CwaNext => PassInv'
    BY PassVisitLabel, PassVisitData, PassVisitBranch, PassEnd, PassEmit DEF CwaNext
  <2>2. ASSUME PassInv, UNCHANGED cwaVars PROVE PassInv'
    <3>1. Unambiguous' = Unambiguous /\ Long' = Long
      BY <2>2 DEF cwaVars, Unambiguous, Labelled, Long, Branches
    <3>2. (\A k \in 1 .. at - 1 : LabelHolds(k)) => (\A k \in 1 .. at - 1 : LabelHolds(k))'
      BY <2>2 DEF cwaVars, LabelHolds, IsLabel
    <3>3. Steady => Steady'
      BY <2>2 DEF cwaVars, Steady, LabelHolds, InPlace, Offset, IsLabel, IsBranch, IsData
    <3>4. phase' = phase /\ passes' = passes
      BY <2>2 DEF cwaVars
    <3> QED BY <2>2, <3>1, <3>2, <3>3, <3>4 DEF PassInv
  <2> QED BY <2>1, <2>2
<1> QED BY CwaInvariant, PassInvInit, <1>1, PTL DEF CwaSpec

(* Where no label is defined twice, the passes are at most two more than   *)
(* the branches: however padding and alignment shift, every pass but the   *)
(* first and the last makes a branch long, for good (layout).              *)
THEOREM CwaPassesBounded == CwaSpec => []PassesBounded
<1>1. CwaInv /\ PassInv => PassesBounded
  <2> SUFFICES ASSUME CwaInv, PassInv, Unambiguous
               PROVE  passes <= Cardinality(Branches) + 2
    BY DEF PassesBounded
  <2>1. /\ passes \in Nat /\ Cardinality(Long) \in Nat /\ Cardinality(Branches) \in Nat
        /\ Cardinality(Long) <= Cardinality(Branches)
    BY BranchesFinite DEF CwaInv, CwaTypes
  <2>2. \/ passes = 0
        \/ passes <= Cardinality(Long)
        \/ passes <= Cardinality(Long) + 1
        \/ passes <= Cardinality(Long) + 2
    BY DEF PassInv
  <2> QED BY ONLY <2>1, <2>2
<1> QED BY CwaInvariant, PassInvariant, <1>1, PTL

(* A program of at most MAX_PASSES - 2 branches, and no label defined      *)
(* twice, converges: layout does not raise (layout).                       *)
Converges ==
  Unambiguous /\ Cardinality(Branches) + 2 <= MAX_PASSES => phase # "layout did not converge"

THEOREM CwaConverges == CwaSpec => []Converges
<1>1. CwaInv /\ PassInv => Converges
  <2> SUFFICES ASSUME CwaInv, PassInv, Unambiguous, phase = "layout did not converge"
               PROVE  ~(Cardinality(Branches) + 2 <= MAX_PASSES)
    BY DEF Converges
  <2>1. /\ passes \in Nat /\ Cardinality(Long) \in Nat /\ Cardinality(Branches) \in Nat
        /\ Cardinality(Long) <= Cardinality(Branches) /\ MAX_PASSES \in Nat
    BY BranchesFinite, CwaAssumption DEF CwaInv, CwaTypes
  <2>2. MAX_PASSES <= passes /\ passes <= Cardinality(Long) + 1
    BY DEF PassInv
  <2> QED BY ONLY <2>1, <2>2
<1> QED BY CwaInvariant, PassInvariant, <1>1, PTL
=============================================================================
