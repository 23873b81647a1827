-------------------------------- MODULE Eword --------------------------------
(***************************************************************************)
(* kernel/eword.c: the input line of EWord and its completion from the     *)
(* word list.  The window it is drawn in is in module Windows.  A word is  *)
(* a sequence of letters; a meaning is the number of its word, or 0.       *)
(***************************************************************************)
EXTENDS Integers, Sequences, SequencesExt, FiniteSets

CONSTANTS
  ew_words,      \* the word list: a sequence
  EW_MAXLEN,     \* the length of the input line (16)
  LISTED,        \* the matches that are drawn (8)
  DIGITS,        \* the digit keys count from 1 to this (9)
  Letters        \* the keys that are inserted: printable, or from 128 on

ASSUME EwordAssumption ==
  /\ EW_MAXLEN \in Nat /\ LISTED \in Nat /\ DIGITS \in Nat
  /\ ew_words \in Seq(Seq(Letters))

VARIABLES input, tab_armed, meaning

ewVars == <<input, tab_armed, meaning>>

EwordTypeOK ==
  /\ input \in Seq(Letters) /\ Len(input) <= EW_MAXLEN
  /\ tab_armed \in BOOLEAN
  /\ meaning \in 0 .. Len(ew_words)

EwordInit == input = << >> /\ tab_armed = FALSE /\ meaning = 0

(* The start of eword_open.                                                *)
Fresh == input' = << >> /\ tab_armed' = FALSE /\ meaning' = 0

Upto(n, s) == SubSeq(s, 1, IF Len(s) < n THEN Len(s) ELSE n)

ew_starts(w, pre) == IsPrefix(pre, w)

(* The numbers of the words that match, in the order of the list ...       *)
Matches ==
  FoldLeft(LAMBDA list, i : IF ew_starts(ew_words[i], input) THEN Append(list, i) ELSE list,
           << >>, [i \in DOMAIN ew_words |-> i])

(* ... and what is drawn of them.                                          *)
Listing == Upto(LISTED, Matches)

Completed(i) ==
  /\ input' = Upto(EW_MAXLEN, ew_words[i])
  /\ meaning' = i

NextMatch(n) ==   \* a bug: the picked number counts from 0
  IF n + 1 \in DOMAIN Matches THEN Completed(Matches[n + 1]) ELSE UNCHANGED <<input, meaning>>

TakeMatch(n) ==
  IF n \in DOMAIN Matches THEN Completed(Matches[n]) ELSE UNCHANGED <<input, meaning>>

Tab == tab_armed' = TRUE /\ UNCHANGED <<input, meaning>>

Digit(d) ==
  /\ tab_armed' = FALSE
  /\ IF tab_armed THEN TakeMatch(d) ELSE UNCHANGED <<input, meaning>>

Enter == TakeMatch(1) /\ UNCHANGED tab_armed

Backspace ==
  /\ input' = IF input = << >> THEN input ELSE Front(input)
  /\ tab_armed' = FALSE
  /\ UNCHANGED meaning

Insert(c) ==
  /\ input' = IF Len(input) < EW_MAXLEN THEN Append(input, c) ELSE input
  /\ tab_armed' = FALSE
  /\ UNCHANGED meaning
=============================================================================
