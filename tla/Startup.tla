------------------------------- MODULE Startup -------------------------------
(***************************************************************************)
(* mouse.c: mouse_init, with the 8042 controller and the mouse it talks    *)
(* to.  Interrupts are off until it succeeds.  It is a list of operations  *)
(* on the ports; between two of them the controller takes its input, a     *)
(* key may be pressed and the mouse may answer.                            *)
(*                                                                         *)
(* The controller has one input and one output register.  A byte written   *)
(* while the input register is full replaces the one in it.  mwait asks    *)
(* 100000 times: it is assumed that what is to come has come by then.      *)
(***************************************************************************)
EXTENDS Integers, Sequences

CONSTANTS
  KeyBytes,       \* what a key may put into the output register
  MouseAnswers,   \* of ACK, Resend and Silent: how the mouse may answer
  Modes           \* the command bytes the BIOS may leave

ACK    == 250     \* 0xFA
Resend == 254     \* 0xFE, from the controller for a mouse it cannot reach
Silent == 0
Stream == 8       \* a byte of a packet of the mouse
Empty  == -1

VARIABLES
  at,        \* the operation of mouse_init that is next, or Done
  cmd,       \* its variable of this name
  ctl,       \* the controller: in, out, aux (out is from the mouse), expect, mode
  mouse,     \* the mouse: how it answers, what it has to send, whether it streams
  irr,       \* the line with a request at the interrupt controllers, or 0
  have_mouse,
  keyed, overrun  \* history: a key was pressed, an input byte was replaced

startVars == <<at, cmd, ctl, mouse, irr, have_mouse, keyed, overrun>>

Bit(v, w) == (v \div w) % 2 = 1   \* w: the weight of the bit
Or3(v)    == (v \div 4) * 4 + 3
Irq12On(mode)    == Bit(mode, 2)
KeyboardOn(mode) == ~Bit(mode, 16)
AuxOn(mode)      == ~Bit(mode, 32)
Translates(mode) == Bit(mode, 64)

(* No key of the keyboard sends 0xFA.  The highest bit of a command byte   *)
(* is reserved; the BIOS leaves the keyboard on, its codes translated.     *)
ASSUME StartupAssumption ==
  /\ KeyBytes \subseteq (0 .. 255) \ {ACK}
  /\ Modes \subseteq 0 .. 127 /\ \A m \in Modes : KeyboardOn(m) /\ Translates(m)
  /\ MouseAnswers \subseteq {ACK, Resend, Silent}

-----------------------------------------------------------------------------
(* The operations.  "in" and "out" wait for the register of that name.     *)
MWait(r)    == <<[op |-> "wait", arg |-> r]>>
OutB(port, b) == <<[op |-> port, arg |-> b]>>
InB(dest)   == <<[op |-> "read", arg |-> dest]>>

aux_write(b) == MWait("in") \o OutB("command", 212) \o MWait("in") \o OutB("data", b)
aux_read     == MWait("out") \o InB("answer")

mouse_init ==
  MWait("in") \o OutB("command", 32) \o MWait("out") \o InB("cmd") \o
  MWait("in") \o OutB("command", 96) \o MWait("in") \o OutB("data", Empty) \o  \* cmd
  OutB("command", 168) \o
  aux_write(246) \o aux_read \o aux_write(244) \o aux_read

Done   == Len(mouse_init) + 1
Op     == mouse_init[at]
At(op) == at < Done /\ Op.op = op

Ready(r) == IF r = "in" THEN ctl.in = << >> ELSE ctl.out # Empty

(* Nothing is on its way to the output register.                           *)
NothingComes == ctl.in = << >> /\ ctl.out = Empty /\ mouse.queue = << >> /\ ~mouse.streaming

WaitOver ==
  /\ At("wait")
  /\ Ready(Op.arg)
  /\ at' = at + 1
  /\ UNCHANGED <<cmd, ctl, mouse, irr, have_mouse, keyed, overrun>>

(* The end of mouse_init, and of its variable.                             *)
ReturnWith(found) ==
  /\ at' = Done /\ cmd' = 0 /\ have_mouse' = found
  /\ UNCHANGED <<mouse, irr, keyed, overrun>>

WaitForEver ==   \* a bug: no limit to the tries
  /\ FALSE
  /\ ReturnWith(FALSE) /\ UNCHANGED ctl

TimeOut ==
  /\ At("wait") /\ Op.arg = "out"
  /\ NothingComes
  /\ ReturnWith(FALSE) /\ UNCHANGED ctl

Write ==
  /\ At("command") \/ At("data")
  /\ ctl' = [ctl EXCEPT !.in = <<Op.op, IF Op.arg = Empty THEN cmd ELSE Op.arg>>]
  /\ overrun' = (overrun \/ ctl.in # << >>)
  /\ at' = at + 1
  /\ UNCHANGED <<cmd, mouse, irr, have_mouse, keyed>>

ReadMode ==
  /\ At("read") /\ Op.arg = "cmd"
  /\ cmd' = Or3(ctl.out)
  /\ ctl' = [ctl EXCEPT !.out = Empty]
  /\ at' = at + 1
  /\ UNCHANGED <<mouse, irr, have_mouse, keyed, overrun>>

NextOp ==
  IF at + 1 = Done THEN ReturnWith(TRUE)
  ELSE at' = at + 1 /\ UNCHANGED <<cmd, mouse, irr, have_mouse, keyed, overrun>>

ReadAnyAnswer ==   \* a bug: the answer is not looked at
  /\ At("read") /\ Op.arg = "answer"
  /\ ctl' = [ctl EXCEPT !.out = Empty]
  /\ NextOp

(* An ACK goes on; after the second one have_mouse = 1, and sti.           *)
ReadAnswer ==
  /\ At("read") /\ Op.arg = "answer"
  /\ ctl' = [ctl EXCEPT !.out = Empty]
  /\ IF ctl.out = ACK THEN NextOp ELSE ReturnWith(FALSE)

mouse_init_step == WaitOver \/ TimeOut \/ Write \/ ReadMode \/ ReadAnswer

-----------------------------------------------------------------------------
(* The controller takes its input; an answer waits for the output register.*)
TakeInput ==
  LET port == ctl.in[1]  b == ctl.in[2]
      taken(e) == [ctl EXCEPT !.in = << >>, !.expect = e]
  IN
  /\ ctl.in # << >>
  /\ \/ /\ port = "command" /\ b = 32 /\ ctl.out = Empty
        /\ ctl' = [taken("none") EXCEPT !.out = ctl.mode, !.aux = FALSE]
        /\ UNCHANGED mouse
     \/ /\ port = "command" /\ b = 96
        /\ ctl' = taken("mode") /\ UNCHANGED mouse
     \/ /\ port = "command" /\ b = 168
        /\ ctl' = [taken("none") EXCEPT !.mode = IF AuxOn(@) THEN @ ELSE @ - 32]
        /\ UNCHANGED mouse
     \/ /\ port = "command" /\ b = 212
        /\ ctl' = taken("aux") /\ UNCHANGED mouse
     \/ /\ port = "data" /\ ctl.expect = "mode"
        /\ ctl' = [taken("none") EXCEPT !.mode = b] /\ UNCHANGED mouse
     \/ /\ port = "data" /\ ctl.expect = "aux"
        /\ ctl' = taken("none")
        /\ mouse' = IF mouse.answer = Silent THEN mouse
                    ELSE [mouse EXCEPT !.queue = Append(@, mouse.answer),
                                       !.streaming = (b = 244 /\ mouse.answer = ACK)]
     \/ /\ port = "data" /\ ctl.expect = "none"      \* for the keyboard
        /\ ctl' = taken("none") /\ UNCHANGED mouse
  /\ UNCHANGED <<at, cmd, irr, have_mouse, keyed, overrun>>

(* A byte of the mouse enters the output register, with a request.         *)
MouseSend ==
  /\ ctl.out = Empty /\ AuxOn(ctl.mode)
  /\ mouse.queue # << >> \/ mouse.streaming
  /\ LET b == IF mouse.queue = << >> THEN Stream ELSE Head(mouse.queue)
     IN  /\ ctl' = [ctl EXCEPT !.out = b, !.aux = TRUE]
         /\ mouse' = IF mouse.queue = << >> THEN mouse ELSE [mouse EXCEPT !.queue = Tail(@)]
  /\ irr' = IF Irq12On(ctl.mode) THEN 12 ELSE irr
  /\ UNCHANGED <<at, cmd, have_mouse, keyed, overrun>>

(* A key pressed before the program reads any.                             *)
KeyPressed ==
  /\ at < Done /\ ~keyed
  /\ ctl.out = Empty /\ KeyboardOn(ctl.mode)
  /\ \E b \in KeyBytes : ctl' = [ctl EXCEPT !.out = b, !.aux = FALSE]
  /\ keyed' = TRUE
  /\ UNCHANGED <<at, cmd, mouse, irr, have_mouse, overrun>>

StartInit ==
  /\ at = 1 /\ cmd = 0 /\ irr = 0
  /\ \E m \in Modes :
       ctl = [in |-> << >>, out |-> Empty, aux |-> FALSE, expect |-> "none", mode |-> m]
  /\ \E a \in MouseAnswers : mouse = [answer |-> a, queue |-> << >>, streaming |-> FALSE]
  /\ have_mouse = FALSE /\ keyed = FALSE /\ overrun = FALSE

(* What mouse_init leaves behind.  With no byte replaced, a mouse that was *)
(* found has its interrupt, and no ACK is left that mouse_feed would take  *)
(* for the first byte of a packet.  With no key pressed meanwhile either,  *)
(* a mouse is found if there is one, and the keyboard is as before: a key  *)
(* byte read in place of the command byte (mouse.c:70) may turn it off.    *)
StartUnlessDisturbed ==
  at = Done =>
    /\ ~overrun /\ have_mouse =>
         /\ Irq12On(ctl.mode) /\ AuxOn(ctl.mode)
         /\ ctl.out # ACK /\ mouse.queue = << >>
    /\ ~overrun /\ ~keyed =>
         /\ (have_mouse <=> mouse.answer = ACK)
         /\ KeyboardOn(ctl.mode) /\ Translates(ctl.mode)
=============================================================================
