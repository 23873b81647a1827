------------------------------ MODULE Keyboard ------------------------------
(***************************************************************************)
(* kernel.c: how the two keyboard readers, kbd_getchar of the shell and    *)
(* div_getkey of div and EWord, turn scan codes (set 1) into keys.  Each   *)
(* keeps its own `shift` and `ext` from call to call.  The four layout     *)
(* tables are abstracted to the set of the codes that have a character; a  *)
(* character is its scan code together with the shift state used for it.   *)
(***************************************************************************)
EXTENDS Integers

CONSTANTS Printable   \* the make codes with an entry in the layout tables

Readers == {"kbd_getchar", "div_getkey"}

E0        == 224
Release   == 128              \* set in the code of a released key
ShiftKeys == {42, 54}         \* 0x2A and 0x36, left and right
Arrows    == {72, 75, 77, 80} \* after E0
LeftKey   == 75
EnterKey  == 28
BackKey   == 14
EscKey    == 1
F2Key     == 60

(* The named keys of each reader: only div_getkey knows Esc and F2.        *)
Named(r) == {EnterKey, BackKey} \cup (IF r = "div_getkey" THEN {EscKey, F2Key} ELSE {})

ASSUME PrintableAssumption ==
  Printable \subseteq (0 .. Release - 1) \ (ShiftKeys \cup Named("div_getkey"))

Fresh == [shift |-> FALSE, ext |-> FALSE]
NoKey == [code |-> 0, ext |-> FALSE, shift |-> FALSE]

AfterRelease(st, sc) ==   \* a bug: the release of Shift is ignored
  [ext |-> sc = E0, shift |-> st.shift \/ (~st.ext /\ sc \in ShiftKeys)]

(* The state of reader r after code sc ...                                 *)
After(st, sc) ==
  [ext   |-> sc = E0,
   shift |-> IF st.ext \/ sc = E0 THEN st.shift
             ELSE IF sc \in ShiftKeys THEN TRUE
             ELSE IF sc - Release \in ShiftKeys THEN FALSE
             ELSE st.shift]

(* kbd_map: the character of the layout tables, or 0.                      *)
kbd_map(sc, shifted) ==
  IF sc \in Printable THEN [code |-> sc, ext |-> FALSE, shift |-> shifted] ELSE NoKey

(* ... and the key it returns, or NoKey when it goes on reading.           *)
Decoded(r, st, sc) ==
  CASE sc = E0 -> NoKey
    [] sc # E0 /\ st.ext /\ sc \in Arrows ->
         [code |-> sc, ext |-> TRUE, shift |-> st.shift]
    [] sc # E0 /\ ~st.ext /\ sc \in Named(r) ->
         [code |-> sc, ext |-> FALSE, shift |-> st.shift]
    [] sc # E0 /\ ~st.ext /\ sc < Release /\ sc \notin ShiftKeys \cup Named(r) ->
         kbd_map(sc, st.shift)
    [] OTHER -> NoKey
=============================================================================
