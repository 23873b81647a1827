----------------------------- MODULE TextBuffer -----------------------------
(***************************************************************************)
(* What an editor of one file promises: a text with a cursor in it, a      *)
(* column that moves up and down come back to, and a file that changes     *)
(* only when the text is saved.  The text is what is before the cursor     *)
(* followed by what is after it; lines end with NL.                        *)
(***************************************************************************)
EXTENDS Integers, Sequences, FiniteSets

CONSTANTS
  Chars,   \* the characters that can be typed
  NL,      \* the one that ends a line
  Limit,   \* typing stops one character short of it
  Files    \* the contents a file may have when it is opened

VARIABLES open, file, before, after, goal

bufferVars == <<open, file, before, after, goal>>

Text      == before \o after
Row(t)    == Cardinality({k \in 1 .. Len(t) : t[k] = NL})
Column(t) == Len(t) - (CHOOSE k \in 0 .. Len(t) :
                         /\ k = 0 \/ t[k] = NL
                         /\ \A j \in k + 1 .. Len(t) : t[j] # NL)

(* The cursor goes to the k-th place of the text.                          *)
Cut(k) == before' = SubSeq(Text, 1, k) /\ after' = SubSeq(Text, k + 1, Len(Text))

Open(f) ==
  /\ open = FALSE /\ open' = TRUE
  /\ file' = f
  /\ before' = f /\ after' = << >>
  /\ goal' = 0

Quit == open /\ open' = FALSE /\ UNCHANGED <<file, before, after, goal>>

Save ==
  /\ open
  /\ \/ open' = FALSE /\ file' = Text
     \/ UNCHANGED <<open, file>>
  /\ UNCHANGED <<before, after, goal>>

Insert(c) ==
  /\ open /\ Len(Text) < Limit - 1
  /\ before' = Append(before, c) /\ after' = after
  /\ goal' = Column(before')
  /\ UNCHANGED <<open, file>>

Delete ==
  /\ open /\ before # << >>
  /\ before' = SubSeq(before, 1, Len(before) - 1) /\ after' = after
  /\ goal' = Column(before')
  /\ UNCHANGED <<open, file>>

Left ==
  /\ open /\ before # << >>
  /\ Cut(Len(before) - 1)
  /\ goal' = Column(before')
  /\ UNCHANGED <<open, file>>

Right ==
  /\ open /\ after # << >>
  /\ Cut(Len(before) + 1)
  /\ goal' = Column(before')
  /\ UNCHANGED <<open, file>>

(* Up and Down: the goal column of the next line, or its end if it is      *)
(* shorter; down from the last line, the end of the text.                  *)
ToRow(r) ==
  \E k \in 0 .. Len(Text) :
    LET b == SubSeq(Text, 1, k)
    IN  /\ Row(b) = r
        /\ Column(b) <= goal
        /\ Column(b) = goal \/ k = Len(Text) \/ Text[k + 1] = NL
        /\ Cut(k)

Up   == open /\ Row(before) > 0 /\ ToRow(Row(before) - 1) /\ UNCHANGED <<open, file, goal>>
Down ==
  /\ open
  /\ IF Row(after) > 0 THEN ToRow(Row(before) + 1) ELSE Cut(Len(Text))
  /\ UNCHANGED <<open, file, goal>>

Init == open = FALSE /\ file = << >> /\ before = << >> /\ after = << >> /\ goal = 0

Next ==
  \/ \E f \in Files : Open(f)
  \/ Quit \/ Save \/ Delete \/ Left \/ Right \/ Up \/ Down
  \/ \E c \in Chars : Insert(c)

Spec == Init /\ [][Next]_bufferVars
=============================================================================
