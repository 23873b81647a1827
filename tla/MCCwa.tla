-------------------------------- MODULE MCCwa --------------------------------
(* All programs of up to four items; of six items, those with two labels,  *)
(* branches and single bytes, where branches push each other out of reach; *)
(* and some of seven where a branch that grows brings another into reach,  *)
(* because the padding behind it shrinks.  The reach is a few bytes.       *)
EXTENDS Cwa

Label(l)   == [kind |-> "label", name |-> l]
Jmp(b, l)  == [kind |-> "jmp", to |-> l, bits |-> b]
Jcc(b, l)  == [kind |-> "jcc", to |-> l, bits |-> b]
Bytes(n)   == [kind |-> "bytes", n |-> n]
Align(n)   == [kind |-> "align", n |-> n]
Pad(n)     == [kind |-> "pad", n |-> n]

UpTo(S, n) == UNION {[1 .. k -> S] : k \in 1 .. n}

Small ==
  UpTo({Label("p"), Label("q"), Jmp(32, "p"), Jmp(32, "q"), Jcc(32, "p"),
        Jmp(32, "x"), Jcc(32, "x"), Bytes(3), Align(4), Pad(9)}, 4)

Cascades ==
  {p \in [1 .. 6 -> {Label("p"), Label("q"), Jmp(32, "p"), Jmp(32, "q"), Bytes(1)}] :
     \E i, j \in 1 .. 6 : p[i] = Label("p") /\ p[j] = Label("q")}

Seesaws ==
  {<<Bytes(n), Jmp(32, "q"), Label("p"), Align(4), Bytes(k), Jmp(32, "p"), Label("q")>> :
     n \in 0 .. 3, k \in 0 .. 3}

MCShortMin   == -5
MCPrograms   == Small \cup Cascades \cup Seesaws
MCPrograms16 == UpTo({Label("p"), Jmp(16, "p"), Jcc(16, "p"), Bytes(6)}, 3)
=============================================================================
