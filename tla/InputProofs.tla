----------------------------- MODULE InputProofs -----------------------------
(***************************************************************************)
(* Input: what the program and the handler do to the pointer, the packet   *)
(* machine, the screen and the bytes of the controller, whatever the       *)
(* moment at which IRQ12 arrives and whatever the devices send.            *)
(***************************************************************************)
EXTENDS Input, LoopLemmas

(* The count of the bytes of a packet: the program counts up to 3 before   *)
(* it starts anew, and so does the handler, from what the program has left *)
(* there.                                                                  *)
PhaseInv ==
  /\ pc["program"] \in {"count", "store"} => loc["program"].p \in 0 .. 2
  /\ pc["irq"] = "store" => mouse.phase = loc["irq"].p + 1
  /\ pc["irq"] \notin {"store", "reset"} =>
       \/ mouse.phase \in 0 .. 2
       \/ pc["program"] = "store" /\ mouse.phase = loc["program"].p + 1
       \/ pc["program"] = "reset" /\ mouse.phase = 3

(* The pointer leaves the screen between a motion and its clamp only, and  *)
(* is then where the one who moved it last has put it.                     *)
MovingX(c) == pc[c] \in {"movey", "clampx"} /\ mouse.mx = loc[c].dx
MovingY(c) == pc[c] \in {"clampx", "clampy"} /\ mouse.my = loc[c].dy

PositionInv ==
  /\ IF pc["irq"] \in {"movey", "clampx"} THEN MovingX("irq")
     ELSE mouse.mx \in 0 .. Cols - 1 \/ MovingX("program")
  /\ IF pc["irq"] \in {"clampx", "clampy"} THEN MovingY("irq")
     ELSE mouse.my \in 0 .. Rows - 1 \/ MovingY("program")

(* Where the bytes are: in the buffer, held by a reader that has taken one *)
(* from it, or given on.                                                   *)
ReaderInv ==
  /\ ppc \in {"status", "data", "sti"} => hpc = "off" /\ ifl = FALSE
  /\ ppc \in {"app", "poll", "cli", "status"} => byte = NoByte
  /\ ppc = "data" => byte = obf
  /\ ppc \in {"data", "sort"} => byte # NoByte

Taken == IF ppc \in {"sti", "sort"} THEN byte ELSE NoByte
IsKey(b)   == b # NoByte /\ ~b.aux
IsMouse(b) == b # NoByte /\ b.aux
Keys(b)  == IF IsKey(b) THEN 1 ELSE 0
Mice(b)  == IF IsMouse(b) THEN 1 ELSE 0

KeysInv ==
  /\ scanned \in Seq(Codes)
  /\ ksent = Len(scanned) + Keys(Taken) + Keys(obf)
  /\ \A i \in 1 .. Len(scanned) : scanned[i] = typed[i]
  /\ IsKey(Taken) => Taken.v = typed[Len(scanned) + 1]
  /\ IsKey(obf) => obf.v = typed[ksent]

Unspent(b) ==
  IsMouse(b) => /\ b.n \in 1 .. msent /\ b.v = moved[b.n]
                /\ \A i \in 1 .. Len(fed) : fed[i] # b.n

BytesInv ==
  /\ fed \in Seq(Nat)
  /\ msent = Len(fed) + Mice(Taken) + Mice(obf)
  /\ \A i \in 1 .. Len(fed) : fed[i] \in 1 .. msent
  /\ Unspent(Taken) /\ Unspent(obf)
  /\ IsMouse(obf) => obf.n = msent
  /\ IsMouse(obf) /\ IsMouse(Taken) => obf.n # Taken.n

(* As long as the handler has not come between, the bytes of the mouse are *)
(* fed in the order in which they were sent.                               *)
OrderInv ==
  ~raced => /\ \A i \in 1 .. Len(fed) : fed[i] = i
            /\ IsMouse(Taken) => Taken.n = Len(fed) + 1

(* The screen, stage by stage of the work on the block, as long as only    *)
(* one context works on it.                                                *)
Covered ==
  LET block == IF mouse.shown THEN {Here} ELSE {}
  IN  /\ \A c \in Cells \ block : vga[c] = text[c]
      /\ \A c \in block : vga[c] = Block /\ mouse.under = text[c]

BeforeHide == {"idle", "feed", "count", "store", "reset", "read", "hide"}

Other(c) == IF c = "program" THEN "irq" ELSE "program"

OverlayStage(c) ==
  /\ pc[c] \in BeforeHide => Covered
  /\ pc[c] = "hidden" => vga = text
  /\ pc[c] \in {"button", "movex", "movey", "clampx", "clampy", "paint", "draw", "block"} =>
       vga = text /\ ~mouse.shown
  /\ pc[c] \in {"block", "drawn"} => loc[c].pos = Here /\ mouse.under = text[Here]
  /\ pc[c] = "drawn" => vga = [text EXCEPT ![Here] = Block]

OverlayStages ==
  /\ ~(Busy("program") /\ Busy("irq"))
  /\ \A c \in Contexts : ~Busy(Other(c)) => OverlayStage(c)

OverlayInv == ~raced => OverlayStages

(* The packet machine, when it has taken n bytes and k motions have been   *)
(* applied: it waits for the first byte of a packet, or has the bytes of   *)
(* one up to the phase; then it has all three.                             *)
Gathered(n, ph, k) ==
  \/ n <= Lead /\ ph = 0 /\ k = 0
  \/ /\ n >= Lead /\ ph \in 0 .. 2 /\ n = Lead + 3 * k + ph
     /\ \A i \in 0 .. ph - 1 : mouse.pkt[i] = moved[Lead + 3 * k + i + 1]

Complete(n, k) ==
  /\ n = Lead + 3 * k + 3
  /\ \A i \in 0 .. 2 : mouse.pkt[i] = moved[Lead + 3 * k + i + 1]

Resting(c) ==
  \/ pc[c] \in {"idle", "movex", "movey", "clampx", "clampy", "paint", "draw", "block", "drawn"}
  \/ pc[c] \in {"hide", "hidden"} /\ loc[c].job = "paint"

Moving(c) ==
  \/ pc[c] = "button"
  \/ pc[c] \in {"hide", "hidden"} /\ loc[c].job = "feed"

PacketStage(c, n, k) ==
  /\ pc[c] \in {"feed", "count", "store", "reset", "read"} => loc[c].job = "feed"
  /\ pc[c] \in {"feed", "count", "store"} => n > 0 /\ loc[c].b = moved[n]
  /\ pc[c] = "feed" => Gathered(n - 1, mouse.phase, k)
  /\ pc[c] \in {"count", "store"} => Gathered(n - 1, loc[c].p, k) /\ n - 1 >= Lead
  /\ pc[c] = "store" => mouse.phase = loc[c].p + 1
  /\ pc[c] \in {"reset", "read"} \/ Moving(c) => Complete(n, k)
  /\ pc[c] = "read" \/ Moving(c) => mouse.phase = 0
  /\ Moving(c) => loc[c].dx = Signed(mouse.pkt[1]) /\ loc[c].dy = Signed(mouse.pkt[2])
  /\ Resting(c) => Gathered(n, mouse.phase, k)

Motion == (0 .. 255) \X Int \X Int

(* What the driver makes of packet k.                                      *)
AsRead(k) == <<Nth(3 * k - 2), Signed(Nth(3 * k - 1)), Signed(Nth(3 * k))>>

PacketStages ==
  /\ applied \in Seq(Motion)
  /\ \A j \in 1 .. Len(applied) : applied[j] = AsRead(j)
  /\ Len(applied) = 0 \/ Lead + 3 * Len(applied) <= Len(fed)
  /\ \A c \in Contexts : ~Busy(Other(c)) => PacketStage(c, Len(fed), Len(applied))

PacketInv == ~raced => PacketStages

(* A mouse sets bit 3 of the first byte of a packet, so that the packets   *)
(* after the first such byte begin with one (and the bytes before it, of a *)
(* packet that had begun earlier, have none).                              *)
LeadOf(s, l) ==
  /\ l \in 0 .. Len(s)
  /\ \A j \in 1 .. l : ~Sync(s[j])
  /\ l < Len(s) => Sync(s[l + 1])

Framed(s) ==
  \A l \in Nat : LeadOf(s, l) =>
    \A k \in Nat : l + 3 * k + 1 <= Len(s) => Sync(s[l + 3 * k + 1])

-----------------------------------------------------------------------------
(* The steps within mouse.c keep the types and the count.                  *)
MouseState == [phase : 0 .. 4, pkt : [0 .. 2 -> 0 .. 255], mx : Int, my : Int,
               mleft : BOOLEAN, shown : BOOLEAN, under : Symbols \cup {Block}]

LEMMA OneMoves ==
  ASSUME pc \in [Contexts -> Labels], loc \in [Contexts -> Frame], NEW c \in Contexts, MouseStep(c)
  PROVE  /\ Busy(c)
         /\ \A d \in Contexts \ {c} : pc'[d] = pc[d] /\ loc'[d] = loc[d]
<1> USE DEF Step, Goto, Return, Busy
<1>1. CASE mouse_feed(c)
  BY <1>1
  DEF mouse_feed, LoadPhase, CountPhase, StorePkt, ResetPhase, ReadMotion, Button, MoveX, MoveY,
      ClampX, ClampY
<1>2. CASE mouse_hide(c) \/ mouse_draw(c) \/ PaintCell(c)
  BY <1>2
  DEF mouse_hide, mouse_draw, RestoreCell, ClearShown, SaveCell, DrawBlock, SetShown, PaintCell,
      HiddenNext
<1> QED BY <1>1, <1>2 DEF MouseStep

LEMMA MouseStepTypes ==
  ASSUME MouseTypeOK, PhaseInv, NEW c \in Contexts, MouseStep(c),
         c = "program" => ~Busy("irq")
  PROVE  MouseTypeOK'
<1> DEFINE Screen == Symbols \cup {Block}
<1>0. /\ mouse \in MouseState /\ vga \in [Cells -> Screen] /\ text \in [Cells -> Symbols]
      /\ pc \in [Contexts -> Labels] /\ loc \in [Contexts -> Frame] /\ loc[c] \in Frame
  BY DEF MouseTypeOK, MouseState
<1>a. SUFFICES /\ mouse' \in MouseState /\ vga' \in [Cells -> Screen]
               /\ text' \in [Cells -> Symbols]
               /\ pc' \in [Contexts -> Labels] /\ loc' \in [Contexts -> Frame]
  BY DEF MouseTypeOK, MouseState
<1>b. Idle \in Frame
  BY ScreenAssumption DEF Idle, Frame
<1> USE DEF Step, Goto, Return, Labels
<1>1. CASE LoadPhase(c)
  <2>1. mouse.phase \in 0 .. 3 \/ pc["irq"] \in {"store", "reset"}
    BY <1>0 DEF PhaseInv, MouseState, Frame, Contexts
  <2>2. pc[c] = "feed"
    BY <1>1 DEF LoadPhase
  <2>3. mouse.phase \in 0 .. 3
    BY <2>1, <2>2 DEF Busy, Contexts
  <2>4. [loc[c] EXCEPT !.p = mouse.phase] \in Frame
    BY <1>0, <2>3 DEF Frame
  <2> QED BY <1>0, <1>1, <1>b, <2>4 DEF LoadPhase
<1>2. CASE CountPhase(c)
  <2>1. loc[c].p + 1 \in 0 .. 4
    BY <1>0 DEF Frame
  <2> QED BY <1>0, <1>2, <2>1 DEF CountPhase, MouseState
<1>3. CASE StorePkt(c)
  <2>1. mouse' \in MouseState
    BY <1>0, <1>3 DEF StorePkt, MouseState, Frame
  <2> QED BY <1>0, <1>3, <1>b, <2>1 DEF StorePkt
<1>4. CASE ResetPhase(c)
  BY <1>0, <1>4 DEF ResetPhase, MouseState
<1>5. CASE ReadMotion(c)
  <2>1. Signed(mouse.pkt[1]) \in Int /\ Signed(mouse.pkt[2]) \in Int
    BY <1>0 DEF Signed, MouseState
  <2>2. [loc[c] EXCEPT !.dx = Signed(mouse.pkt[1]), !.dy = Signed(mouse.pkt[2])] \in Frame
    BY <1>0, <2>1 DEF Frame
  <2> QED BY <1>0, <1>5, <2>2 DEF ReadMotion
<1>6. CASE Button(c)
  <2>1. (mouse.pkt[0] % 2 = 1) \in BOOLEAN
    OBVIOUS
  <2>2. mouse' \in MouseState
    BY <1>0, <1>6, <2>1 DEF Button, MouseState
  <2> QED BY <1>0, <1>6, <2>2 DEF Button
<1>7. CASE MoveX(c)
  <2>1. mouse.mx + Half(loc[c].dx) \in Int
    BY <1>0 DEF Half, MouseState, Frame
  <2>2. [loc[c] EXCEPT !.dx = mouse.mx + Half(loc[c].dx)] \in Frame
    BY <1>0, <2>1 DEF Frame
  <2> QED BY <1>0, <1>7, <2>1, <2>2 DEF MoveX, MouseState
<1>8. CASE MoveY(c)
  <2>1. mouse.my - Half(loc[c].dy) \in Int
    BY <1>0 DEF Half, MouseState, Frame
  <2>2. [loc[c] EXCEPT !.dy = mouse.my - Half(loc[c].dy)] \in Frame
    BY <1>0, <2>1 DEF Frame
  <2> QED BY <1>0, <1>8, <2>1, <2>2 DEF MoveY, MouseState
<1>9. CASE ClampX(c)
  <2>1. Clamp(loc[c].dx, Cols - 1) \in Int
    BY <1>0, ScreenAssumption DEF Clamp, Frame
  <2> QED BY <1>0, <1>9, <2>1 DEF ClampX, MouseState
<1>10. CASE ClampY(c)
  <2>1. Clamp(loc[c].dy, Rows - 1) \in Int
    BY <1>0, ScreenAssumption DEF Clamp, Frame
  <2> QED BY <1>0, <1>10, <2>1 DEF ClampY, MouseState
<1>11. CASE RestoreCell(c)
  BY <1>0, <1>11 DEF RestoreCell, HiddenNext, MouseState
<1>12. CASE ClearShown(c)
  BY <1>0, <1>12 DEF ClearShown, HiddenNext, MouseState
<1>13. CASE SaveCell(c)
  <2>1. Here \in Int
    BY <1>0, ScreenAssumption DEF Here, MouseState
  <2>2. [loc[c] EXCEPT !.pos = Here] \in Frame
    BY <1>0, <2>1 DEF Frame
  <2>3. mouse' \in MouseState
    BY <1>0, <1>13 DEF SaveCell, MouseState
  <2> QED BY <1>0, <1>13, <2>2, <2>3 DEF SaveCell
<1>14. CASE DrawBlock(c)
  BY <1>0, <1>14 DEF DrawBlock
<1>15. CASE SetShown(c)
  BY <1>0, <1>15, <1>b DEF SetShown, MouseState
<1>16. CASE PaintCell(c)
  BY <1>0, <1>16 DEF PaintCell, Frame
<1> QED
  BY <1>1, <1>2, <1>3, <1>4, <1>5, <1>6, <1>7, <1>8, <1>9, <1>10, <1>11, <1>12,
     <1>13, <1>14, <1>15, <1>16 DEF MouseStep, mouse_feed, mouse_hide, mouse_draw

(* What the invariants below need to know of the steps that leave alone    *)
(* what they are about.                                                    *)
LEMMA MouseStepPhase ==
  ASSUME MouseTypeOK, PhaseInv, NEW c \in Contexts, MouseStep(c),
         c = "program" => ~Busy("irq")
  PROVE  PhaseInv'
<1>0. /\ mouse.phase \in 0 .. 4 /\ pc \in [Contexts -> Labels] /\ loc \in [Contexts -> Frame]
      /\ mouse \in MouseState /\ loc[c].p \in 0 .. 3
  BY DEF MouseTypeOK, MouseState, Frame
<1>1. CASE LoadPhase(c)
  <2>1. CASE mouse.phase = 0 /\ ~Sync(loc[c].b)
    BY <1>0, <1>1, <2>1 DEF LoadPhase, Return, Goto, PhaseInv, Contexts
  <2>2. CASE ~(mouse.phase = 0 /\ ~Sync(loc[c].b))
    <3>1. /\ pc[c] = "feed" /\ pc' = [pc EXCEPT ![c] = "count"] /\ mouse' = mouse
          /\ loc' = [loc EXCEPT ![c] = [@ EXCEPT !.p = mouse.phase]]
      BY <1>1, <2>2 DEF LoadPhase, Goto
    <3> QED BY <1>0, <3>1 DEF PhaseInv, Contexts, Busy, Frame
  <2> QED BY <2>1, <2>2
<1>2. CASE CountPhase(c)
  BY <1>0, <1>2 DEF CountPhase, Step, Goto, PhaseInv, Contexts, Busy, MouseState
<1>3. CASE StorePkt(c)
  <2>1. mouse'.phase = mouse.phase /\ pc[c] = "store"
    BY <1>0, <1>3 DEF StorePkt, MouseState
  <2>2. CASE loc[c].p + 1 < 3
    BY <1>0, <1>3, <2>1, <2>2 DEF StorePkt, Return, Goto, PhaseInv, Contexts, Busy
  <2>3. CASE ~(loc[c].p + 1 < 3)
    BY <1>0, <1>3, <2>1, <2>3 DEF StorePkt, Return, Goto, PhaseInv, Contexts, Busy
  <2> QED BY <2>2, <2>3
<1>4. CASE ResetPhase(c)
  BY <1>0, <1>4 DEF ResetPhase, Step, Goto, PhaseInv, Contexts, Busy, MouseState
<1>5. ASSUME /\ mouse'.phase = mouse.phase
             /\ \A d \in Contexts \ {c} : pc'[d] = pc[d] /\ loc'[d] = loc[d]
             /\ pc[c] \notin {"count", "store", "reset"} /\ pc'[c] \notin {"count", "store", "reset"}
      PROVE  PhaseInv'
  BY <1>0, <1>5 DEF PhaseInv, Contexts
<1> USE DEF Step, Goto, Contexts
<1>6. CASE ReadMotion(c) \/ Button(c) \/ MoveX(c) \/ MoveY(c) \/ ClampX(c) \/ ClampY(c)
  <2>1. mouse'.phase = mouse.phase
    BY <1>0, <1>6 DEF ReadMotion, Button, MoveX, MoveY, ClampX, ClampY, MouseState
  <2>2. \A d \in Contexts \ {c} : loc'[d] = loc[d]
    BY <1>0, <1>6 DEF ReadMotion, Button, MoveX, MoveY, ClampX, ClampY
  <2>3. \E t \in {"hide", "movex", "movey", "clampx", "clampy", "draw"} :
           pc' = [pc EXCEPT ![c] = t]
    BY <1>6 DEF ReadMotion, Button, MoveX, MoveY, ClampX, ClampY
  <2>4. pc[c] \notin {"count", "store", "reset"}
    BY <1>6 DEF ReadMotion, Button, MoveX, MoveY, ClampX, ClampY
  <2> QED BY <1>0, <1>5, <2>1, <2>2, <2>3, <2>4
<1>7. CASE mouse_hide(c) \/ mouse_draw(c) \/ PaintCell(c)
  <2> USE DEF mouse_hide, mouse_draw, RestoreCell, ClearShown, SaveCell, DrawBlock, SetShown,
              PaintCell, HiddenNext, Return
  <2>1. mouse'.phase = mouse.phase
    BY <1>0, <1>7 DEF MouseState
  <2>2. \A d \in Contexts \ {c} : loc'[d] = loc[d]
    BY <1>0, <1>7
  <2>3. \E t \in {"hidden", "button", "paint", "block", "drawn", "draw", "idle"} :
           pc' = [pc EXCEPT ![c] = t]
    BY <1>7
  <2>4. pc[c] \notin {"count", "store", "reset"}
    BY <1>7
  <2> QED BY <1>0, <1>5, <2>1, <2>2, <2>3, <2>4
<1> QED BY <1>1, <1>2, <1>3, <1>4, <1>6, <1>7 DEF MouseStep, mouse_feed

-----------------------------------------------------------------------------
(* The types and the count, for the whole of the input path.               *)
InputTyped == TypeOK /\ PhaseInv /\ ReaderInv

LEMMA InputTypedInit ==
  ASSUME Init
  PROVE  InputTyped
<1>1. MouseTypeOK
  BY ScreenAssumption DEF Init, MouseInit, MouseTypeOK, Idle, Frame, Labels
<1>2. HwTypeOK
  <2>1. /\ typed \in Seq(Codes) /\ moved \in Seq(Codes)
        /\ ksent = 0 /\ msent = 0 /\ obf = NoByte /\ irr = FALSE
    BY StreamAssumption DEF Init, HwInit
  <2>2. ksent \in 0 .. Len(typed) /\ msent \in 0 .. Len(moved)
    BY <2>1
  <2>3. obf \in Byte \cup {NoByte} /\ irr \in BOOLEAN
    BY <2>1
  <2> QED BY <2>1, <2>2, <2>3 DEF HwTypeOK
<1>3. PhaseInv
  BY DEF Init, MouseInit, PhaseInv, Contexts
<1>4. kst \in [Readers -> [shift : BOOLEAN, ext : BOOLEAN]]
  BY DEF Init, Fresh
<1>5. got \in [code : Int, ext : BOOLEAN, shift : BOOLEAN]
  BY DEF Init, NoKey
<1> QED
  BY <1>1, <1>2, <1>3, <1>4, <1>5, InputAssumption
  DEF InputTyped, TypeOK, ReaderInv, Init, MouseInit, Busy, Contexts

(* A call of mouse.c is begun.                                             *)
LEMMA StartTypes ==
  ASSUME MouseTypeOK, PhaseInv, NEW c \in Contexts, pc[c] = "idle", UNCHANGED <<mouse, vga, text>>,
         \/ \E b \in 0 .. 255 : StartFeed(c, b)
         \/ \E cell \in Cells, s \in Symbols : StartPaint(c, cell, s)
  PROVE  MouseTypeOK' /\ PhaseInv'
<1>1. PICK f \in Frame, t \in {"feed", "hide"} :
         pc' = [pc EXCEPT ![c] = t] /\ loc' = [loc EXCEPT ![c] = f]
  <2>1. ASSUME NEW b \in 0 .. 255, StartFeed(c, b)
        PROVE  \E f \in Frame, t \in {"feed", "hide"} :
                 pc' = [pc EXCEPT ![c] = t] /\ loc' = [loc EXCEPT ![c] = f]
    <3>1. [Idle EXCEPT !.b = b] \in Frame
      BY ScreenAssumption DEF Idle, Frame
    <3> QED BY <2>1, <3>1 DEF StartFeed, Goto
  <2>2. ASSUME NEW cell \in Cells, NEW s \in Symbols, StartPaint(c, cell, s)
        PROVE  \E f \in Frame, t \in {"feed", "hide"} :
                 pc' = [pc EXCEPT ![c] = t] /\ loc' = [loc EXCEPT ![c] = f]
    <3>1. cell \in Int
      BY ScreenAssumption DEF Cells
    <3> DEFINE f == [Idle EXCEPT !.job = "paint", !.pos = cell, !.ch = s]
    <3>2. Idle \in Frame
      BY ScreenAssumption DEF Idle, Frame
    <3>3. f \in Frame
      BY <3>1, <3>2 DEF Frame
    <3>4. pc' = [pc EXCEPT ![c] = "hide"] /\ loc' = [loc EXCEPT ![c] = f]
      BY <2>2 DEF StartPaint, Goto
    <3> HIDE DEF f
    <3> QED BY <3>3, <3>4
  <2> QED BY <2>1, <2>2
<1>2. MouseTypeOK'
  BY <1>1 DEF MouseTypeOK, Labels
<1>3. pc \in [Contexts -> Labels] /\ loc \in [Contexts -> Frame]
  BY DEF MouseTypeOK
<1>4. PhaseInv'
  BY <1>1, <1>3 DEF PhaseInv, Contexts
<1> QED BY <1>2, <1>4

(* A reader takes a byte with interrupts off.                              *)
LEMMA ReaderStepInv ==
  ASSUME TypeOK, ReaderInv, [Next]_vars
  PROVE  ReaderInv'
<1> USE DEF ReaderInv
<1>1. CASE Hardware
  BY <1>1 DEF Hardware, KeySend, MouseSend, progVars, Full
<1>2. CASE \E r \in UsedReaders : CallReader(r)
  BY <1>2 DEF CallReader, ProgramAt
<1>3. CASE \E cell \in Cells, s \in Symbols : ConsoleWrite(cell, s) \/ WindowPaint(cell, s)
  BY <1>3 DEF ConsoleWrite, WindowPaint, hwVars
<1> USE DEF Move, ProgramAt, ProgramRuns, hwVars
<1>4. CASE Poll \/ TimeOut \/ Cli
  BY <1>4 DEF Poll, TimeOut, Cli
<1>5. CASE ReadStatus
  BY <1>5 DEF ReadStatus, Full
<1>6. CASE ReadByte
  BY <1>6 DEF ReadByte
<1>7. CASE Sti
  BY <1>7 DEF Sti
<1>8. CASE SortMouse \/ SortKey
  BY <1>8 DEF SortMouse, SortKey
<1>9. CASE Interrupt \/ mouse_irq \/ Iret
  BY <1>9 DEF Interrupt, mouse_irq, Iret
<1>10. CASE InMouseCode \/ InHandler \/ UNCHANGED vars
  BY <1>10 DEF InMouseCode, InHandler, vars, progVars
<1> QED
  BY <1>1, <1>2, <1>3, <1>4, <1>5, <1>6, <1>7, <1>8, <1>9, <1>10
  DEF Next, Program, Handler, ReaderStep, Pause

LEMMA AfterType ==
  ASSUME NEW st \in [shift : BOOLEAN, ext : BOOLEAN], NEW sc
  PROVE  After(st, sc) \in [shift : BOOLEAN, ext : BOOLEAN]
<1>1. st.shift \in BOOLEAN /\ (sc = E0) \in BOOLEAN
  OBVIOUS
<1> QED BY <1>1, Zenon DEF After

LEMMA InputTypesStep ==
  ASSUME InputTyped, [Next]_vars
  PROVE  TypeOK' /\ PhaseInv'
<1>0. TypeOK /\ PhaseInv /\ ReaderInv /\ HwTypeOK /\ MouseTypeOK
  BY DEF InputTyped, TypeOK
<1>1. CASE Hardware
  <2>1. HwTypeOK'
    <3>0. /\ typed \in Seq(Codes) /\ ksent \in 0 .. Len(typed) /\ obf \in Byte \cup {NoByte}
          /\ moved \in Seq(Codes) /\ msent \in 0 .. Len(moved) /\ irr \in BOOLEAN
      BY <1>0 DEF HwTypeOK
    <3>1. CASE KeySend
      <4>1. ksent + 1 \in 1 .. Len(typed)
        BY <3>0, <3>1 DEF KeySend
      <4>2. KeyByte(ksent + 1) \in Byte
        <5>1. typed[ksent + 1] \in Codes
          BY <3>0, <4>1, ElementOfSeq
        <5>2. ksent + 1 \in Nat
          BY <4>1
        <5> QED BY <5>1, <5>2 DEF KeyByte, Byte
      <4> QED BY <3>0, <3>1, <4>1, <4>2 DEF KeySend, HwTypeOK
    <3>2. CASE MouseSend
      <4>1. msent + 1 \in 1 .. Len(moved)
        BY <3>0, <3>2 DEF MouseSend
      <4>2. MouseByte(msent + 1) \in Byte
        <5>1. moved[msent + 1] \in Codes
          BY <3>0, <4>1, ElementOfSeq
        <5>2. msent + 1 \in Nat
          BY <4>1
        <5> QED BY <5>1, <5>2 DEF MouseByte, Byte
      <4> QED BY <3>0, <3>2, <4>1, <4>2 DEF MouseSend, HwTypeOK
    <3> QED BY <1>1, <3>1, <3>2 DEF Hardware
  <2>2. UNCHANGED <<mouseVars, progVars>>
    BY <1>1 DEF Hardware
  <2> QED
    BY <1>0, <2>1, <2>2
    DEF TypeOK, mouseVars, progVars, MouseTypeOK, PhaseInv, Busy
(* The steps of the readers that leave mouse.c alone.                      *)
<1>2. CASE \/ \E r \in UsedReaders : CallReader(r)
           \/ Poll \/ TimeOut \/ Cli \/ ReadStatus \/ ReadByte \/ Sti \/ SortKey
  <2>1. /\ MouseTypeOK' /\ PhaseInv' /\ UNCHANGED <<hpc, pc, raced>>
    BY <1>0, <1>2
    DEF CallReader, Poll, TimeOut, Cli, ReadStatus, ReadByte, Sti, SortKey, mouseVars,
        MouseTypeOK, PhaseInv
  <2>2. HwTypeOK'
    BY <1>0, <1>2
    DEF CallReader, Poll, TimeOut, Cli, ReadStatus, ReadByte, Sti, SortKey, hwVars,
        HwTypeOK, ReadData
  <2>3. byte' \in Byte \cup {NoByte}
    BY <1>0, <1>2
    DEF CallReader, Poll, TimeOut, Cli, ReadStatus, ReadByte, Sti, SortKey, TypeOK,
        HwTypeOK, Full, Byte, ReaderInv, Move, ProgramAt
  <2>4. ppc' \in {"app", "poll", "cli", "status", "data", "sti", "sort"}
    BY <1>2
    DEF CallReader, Poll, TimeOut, Cli, ReadStatus, ReadByte, Sti, SortKey, Move, ProgramAt
  <2>5. kst' \in [Readers -> [shift : BOOLEAN, ext : BOOLEAN]]
    <3>1. kst \in [Readers -> [shift : BOOLEAN, ext : BOOLEAN]] /\ reader \in Readers
      BY <1>0 DEF TypeOK
    <3>2. CASE SortKey
      <4>1. After(kst[reader], byte.v) \in [shift : BOOLEAN, ext : BOOLEAN]
        BY <3>1, AfterType
      <4> QED BY <3>1, <3>2, <4>1 DEF SortKey
    <3> QED BY <1>2, <3>1, <3>2 DEF CallReader, Poll, TimeOut, Cli, ReadStatus, ReadByte, Sti
  <2>6. ifl' \in BOOLEAN /\ reader' \in Readers
    BY <1>0, <1>2, InputAssumption
    DEF CallReader, Poll, TimeOut, Cli, ReadStatus, ReadByte, Sti, SortKey, TypeOK
  <2>7. got' \in [code : Int, ext : BOOLEAN, shift : BOOLEAN]
    <3>1. NoKey \in [code : Int, ext : BOOLEAN, shift : BOOLEAN]
      BY DEF NoKey
    <3>2. CASE SortKey
      <4>1. kst[reader] \in [shift : BOOLEAN, ext : BOOLEAN]
        BY <1>0 DEF TypeOK
      <4>2. byte.v \in 0 .. 255
        BY <1>0, <3>2 DEF SortKey, TypeOK, Byte, Codes, ReaderInv, ProgramAt
      <4>3. Decoded(reader, kst[reader], byte.v) \in [code : Int, ext : BOOLEAN, shift : BOOLEAN]
        BY <4>1, <4>2, <3>1 DEF Decoded, kbd_map
      <4> QED BY <3>2, <4>3 DEF SortKey
    <3> QED
      BY <1>0, <1>2, <3>1, <3>2
      DEF CallReader, Poll, TimeOut, Cli, ReadStatus, ReadByte, Sti, TypeOK
  <2> QED
    BY <1>0, <2>1, <2>2, <2>3, <2>4, <2>5, <2>6, <2>7 DEF TypeOK, Busy
<1>3. ASSUME NEW cell \in Cells, NEW s \in Symbols, ConsoleWrite(cell, s) PROVE TypeOK' /\ PhaseInv'
  <2>1. MouseTypeOK'
    BY <1>0, <1>3 DEF ConsoleWrite, MouseTypeOK
  <2> QED
    BY <1>0, <1>3, <2>1
    DEF ConsoleWrite, hwVars, TypeOK, HwTypeOK, PhaseInv, Busy
<1>4. ASSUME NEW cell \in Cells, NEW s \in Symbols, WindowPaint(cell, s) PROVE TypeOK' /\ PhaseInv'
  <2>1. MouseTypeOK' /\ PhaseInv'
    BY <1>0, <1>4, StartTypes
    DEF WindowPaint, ProgramAt, ProgramRuns, Busy, Contexts
  <2>2. ~Busy("irq")'
    BY <1>0, <1>4
    DEF WindowPaint, StartPaint, Goto, ProgramAt, ProgramRuns, TypeOK, Busy, Contexts, MouseTypeOK
  <2> QED
    BY <1>0, <1>4, <2>1, <2>2 DEF WindowPaint, hwVars, TypeOK, HwTypeOK
<1>5. CASE SortMouse
  <2>1. byte.v \in 0 .. 255
    BY <1>0, <1>5 DEF SortMouse, TypeOK, Byte, Codes, ReaderInv, Move, ProgramAt
  <2>2. MouseTypeOK' /\ PhaseInv'
    BY <1>0, <1>5, <2>1, StartTypes DEF SortMouse, Move, ProgramAt, ProgramRuns, Busy, Contexts
  <2>3. ~Busy("irq")'
    BY <1>0, <1>5
    DEF SortMouse, StartFeed, Goto, Move, ProgramAt, ProgramRuns, TypeOK, Busy, Contexts, MouseTypeOK
  <2> QED
    BY <1>0, <1>5, <2>2, <2>3 DEF SortMouse, Move, hwVars, TypeOK, HwTypeOK
<1>6. CASE InMouseCode
  <2>1. MouseTypeOK' /\ PhaseInv'
    BY <1>0, <1>6, MouseStepTypes, MouseStepPhase DEF InMouseCode, TypeOK, Contexts, Busy
  <2>2. ~Busy("irq")'
    BY <1>0, <1>6, OneMoves DEF InMouseCode, TypeOK, MouseTypeOK, Contexts, Busy
  <2> QED
    BY <1>0, <1>6, <2>1, <2>2 DEF InMouseCode, hwVars, progVars, TypeOK, HwTypeOK
<1>7. CASE Interrupt \/ Iret
  <2>1. MouseTypeOK' /\ PhaseInv' /\ (Busy("irq")' <=> Busy("irq"))
    BY <1>0, <1>7 DEF Interrupt, Iret, mouseVars, MouseTypeOK, PhaseInv, Busy
  <2>2. HwTypeOK'
    BY <1>0, <1>7 DEF Interrupt, Iret, hwVars, HwTypeOK
  <2>3. ifl' \in BOOLEAN /\ hpc' \in {"off", "entry", "body"} /\ (Busy("irq") => hpc' = "body")
    BY <1>0, <1>7 DEF Interrupt, Iret, TypeOK
  <2> QED
    BY <1>0, <1>7, <2>1, <2>2, <2>3 DEF Interrupt, Iret, TypeOK
<1>8. CASE mouse_irq
  <2>1. CASE FullAux
    <3>1. obf.v \in 0 .. 255 /\ obf \in Byte
      BY <1>0, <2>1 DEF FullAux, Full, HwTypeOK, Byte, Codes
    <3>2. MouseTypeOK' /\ PhaseInv'
      BY <1>0, <1>8, <2>1, <3>1, StartTypes DEF mouse_irq, TypeOK, Busy, Contexts
    <3>3. HwTypeOK'
      BY <1>0, <1>8, <2>1 DEF mouse_irq, HwTypeOK, ReadData
    <3>4. raced' \in BOOLEAN /\ hpc' = "body" /\ UNCHANGED <<ppc, byte, ifl, reader, kst, got>>
      BY <1>0, <1>8, <2>1 DEF mouse_irq, TypeOK
    <3> QED BY <1>0, <3>2, <3>3, <3>4 DEF TypeOK
  <2>2. CASE ~FullAux
    BY <1>0, <1>8, <2>2
    DEF mouse_irq, TypeOK, HwTypeOK, MouseTypeOK, PhaseInv, Busy
  <2> QED BY <2>1, <2>2
<1>9. CASE InHandler
  <2>1. MouseTypeOK' /\ PhaseInv'
    BY <1>0, <1>9, MouseStepTypes, MouseStepPhase DEF InHandler, Contexts
  <2> QED
    BY <1>0, <1>9, <2>1 DEF InHandler, hwVars, progVars, TypeOK, HwTypeOK, Busy
<1>10. CASE UNCHANGED vars
  BY <1>0, <1>10
  DEF vars, hwVars, mouseVars, progVars, TypeOK, HwTypeOK, MouseTypeOK, PhaseInv, Busy
<1> QED
  BY <1>1, <1>2, <1>3, <1>4, <1>5, <1>6, <1>7, <1>8, <1>9, <1>10
  DEF Next, Program, Handler, ReaderStep, Pause

LEMMA InputTypedStep ==
  ASSUME InputTyped, [Next]_vars
  PROVE  InputTyped'
BY InputTypesStep, ReaderStepInv DEF InputTyped

(* The types of the devices, of mouse.c and of the program are those       *)
(* stated, with packets of at most four bytes begun (mouse.c:47-52).       *)
THEOREM InputTypes == Spec => []TypeOK
<1>1. InputTyped => TypeOK
  BY DEF InputTyped
<1> QED BY InputTypedInit, InputTypedStep, <1>1, PTL DEF Spec

-----------------------------------------------------------------------------
(* The pointer.  A step that neither moves it nor is about to clamp it:    *)
LEMMA PositionKept ==
  ASSUME PositionInv, NEW c \in Contexts,
         mouse'.mx = mouse.mx, mouse'.my = mouse.my,
         \A d \in Contexts \ {c} : pc'[d] = pc[d] /\ loc'[d] = loc[d],
         pc[c] \notin {"movey", "clampx", "clampy"}, pc'[c] \notin {"movey", "clampx", "clampy"}
  PROVE  PositionInv'
BY DEF PositionInv, MovingX, MovingY, Contexts

LEMMA MouseStepPosition ==
  ASSUME MouseTypeOK, PositionInv, NEW c \in Contexts, MouseStep(c),
         c = "program" => ~Busy("irq")
  PROVE  PositionInv'
<1>0. /\ mouse \in MouseState /\ pc \in [Contexts -> Labels]
      /\ loc \in [Contexts -> Frame] /\ loc[c] \in Frame
  BY DEF MouseTypeOK, MouseState
<1>1. /\ \A d \in Contexts \ {c} : pc'[d] = pc[d] /\ loc'[d] = loc[d]
      /\ c = "program" => pc["irq"] = "idle"
  BY <1>0, OneMoves DEF Busy
<1> USE DEF Step, Goto, Return
<1>2. CASE MoveX(c)
  <2>1. /\ mouse'.mx = mouse.mx + Half(loc[c].dx) /\ loc'[c].dx = mouse.mx + Half(loc[c].dx)
        /\ mouse'.my = mouse.my /\ pc[c] = "movex" /\ pc'[c] = "movey"
    BY <1>0, <1>2 DEF MoveX, MouseState, Frame
  <2> QED BY <1>1, <2>1 DEF PositionInv, MovingX, MovingY, Contexts
<1>3. CASE MoveY(c)
  <2>1. /\ mouse'.my = mouse.my - Half(loc[c].dy) /\ loc'[c].dy = mouse.my - Half(loc[c].dy)
        /\ mouse'.mx = mouse.mx /\ pc[c] = "movey" /\ pc'[c] = "clampx" /\ loc'[c].dx = loc[c].dx
    BY <1>0, <1>3 DEF MoveY, MouseState, Frame
  <2> QED BY <1>1, <2>1 DEF PositionInv, MovingX, MovingY, Contexts
<1>4. CASE ClampX(c)
  <2>1. mouse'.my = mouse.my /\ loc'[c] = loc[c] /\ pc[c] = "clampx" /\ pc'[c] = "clampy"
    BY <1>0, <1>4 DEF ClampX, MouseState
  <2>2. mouse'.mx \in 0 .. Cols - 1
    <3>1. CASE loc[c].dx \in 0 .. Cols - 1
      <4>1. mouse'.mx = mouse.mx
        BY <1>0, <1>4, <3>1, ScreenAssumption DEF ClampX, Clamp, MouseState, Frame
      <4>2. mouse.mx \in 0 .. Cols - 1
        BY <1>1, <2>1, <3>1 DEF PositionInv, MovingX, Contexts
      <4> QED BY <4>1, <4>2
    <3>2. CASE loc[c].dx \notin 0 .. Cols - 1
      <4>1. /\ Clamp(loc[c].dx, Cols - 1) # loc[c].dx
            /\ Clamp(loc[c].dx, Cols - 1) \in 0 .. Cols - 1
        BY <1>0, <3>2, ScreenAssumption DEF Clamp, Frame
      <4> QED BY <1>0, <1>4, <4>1 DEF ClampX, MouseState
    <3> QED BY <3>1, <3>2
  <2> QED BY <1>1, <2>1, <2>2 DEF PositionInv, MovingX, MovingY, Contexts
<1>5. CASE ClampY(c)
  <2>1. mouse'.mx = mouse.mx /\ loc'[c] = loc[c] /\ pc[c] = "clampy" /\ pc'[c] = "draw"
    BY <1>0, <1>5 DEF ClampY, MouseState
  <2>2. mouse'.my \in 0 .. Rows - 1
    <3>1. CASE loc[c].dy \in 0 .. Rows - 1
      <4>1. mouse'.my = mouse.my
        BY <1>0, <1>5, <3>1, ScreenAssumption DEF ClampY, Clamp, MouseState, Frame
      <4>2. mouse.my \in 0 .. Rows - 1
        BY <1>1, <2>1, <3>1 DEF PositionInv, MovingY, Contexts
      <4> QED BY <4>1, <4>2
    <3>2. CASE loc[c].dy \notin 0 .. Rows - 1
      <4>1. /\ Clamp(loc[c].dy, Rows - 1) # loc[c].dy
            /\ Clamp(loc[c].dy, Rows - 1) \in 0 .. Rows - 1
        BY <1>0, <3>2, ScreenAssumption DEF Clamp, Frame
      <4> QED BY <1>0, <1>5, <4>1 DEF ClampY, MouseState
    <3> QED BY <3>1, <3>2
  <2> QED BY <1>1, <2>1, <2>2 DEF PositionInv, MovingX, MovingY, Contexts
<1>6. CASE mouse_hide(c) \/ mouse_draw(c) \/ PaintCell(c)
  <2> USE DEF mouse_hide, mouse_draw, RestoreCell, ClearShown, SaveCell, DrawBlock, SetShown,
              PaintCell, HiddenNext
  <2>1. mouse'.mx = mouse.mx /\ mouse'.my = mouse.my
    BY <1>0, <1>6 DEF MouseState
  <2>2. /\ pc[c] \notin {"movey", "clampx", "clampy"}
        /\ pc'[c] \notin {"movey", "clampx", "clampy"}
    BY <1>0, <1>6
  <2> QED BY <1>1, <2>1, <2>2, PositionKept
<1>7. CASE LoadPhase(c) \/ CountPhase(c) \/ StorePkt(c) \/ ResetPhase(c) \/ ReadMotion(c) \/ Button(c)
  <2> USE DEF LoadPhase, CountPhase, StorePkt, ResetPhase, ReadMotion, Button
  <2>1. mouse'.mx = mouse.mx /\ mouse'.my = mouse.my
    BY <1>0, <1>7 DEF MouseState
  <2>2. /\ pc[c] \notin {"movey", "clampx", "clampy"}
        /\ pc'[c] \notin {"movey", "clampx", "clampy"}
    BY <1>0, <1>7
  <2> QED BY <1>1, <2>1, <2>2, PositionKept
<1> QED BY <1>2, <1>3, <1>4, <1>5, <1>6, <1>7 DEF MouseStep, mouse_feed

(* The steps of Next, as far as the state of mouse.c is concerned: within  *)
(* mouse.c, into it, or outside.                                           *)
LEMMA MouseSteps ==
  ASSUME InputTyped, [Next]_vars
  PROVE  \/ UNCHANGED <<mouse, pc, loc>>
         \/ \E c \in Contexts : MouseStep(c) /\ (c = "program" => ~Busy("irq"))
         \/ \E c \in Contexts :
              /\ pc[c] = "idle" /\ mouse' = mouse
              /\ \/ \E b \in 0 .. 255 : StartFeed(c, b)
                 \/ \E cell \in Cells, s \in Symbols : StartPaint(c, cell, s)
<1>0. TypeOK /\ ReaderInv /\ (hpc = "off" => ~Busy("irq"))
  BY DEF InputTyped, TypeOK
<1>1. CASE Hardware
  BY <1>1 DEF Hardware, mouseVars
<1>2. CASE \/ \E r \in UsedReaders : CallReader(r)
           \/ Poll \/ TimeOut \/ Cli \/ ReadStatus \/ ReadByte \/ Sti \/ SortKey
  BY <1>2
  DEF CallReader, Poll, TimeOut, Cli, ReadStatus, ReadByte, Sti, SortKey, mouseVars
<1>3. CASE \E cell \in Cells, s \in Symbols : ConsoleWrite(cell, s)
  BY <1>3 DEF ConsoleWrite
<1>4. CASE \E cell \in Cells, s \in Symbols : WindowPaint(cell, s)
  BY <1>4 DEF WindowPaint, ProgramAt, ProgramRuns, Busy, Contexts
<1>5. CASE SortMouse
  <2>1. byte.v \in 0 .. 255
    BY <1>0, <1>5 DEF SortMouse, TypeOK, Byte, Codes, ReaderInv, Move, ProgramAt
  <2> QED BY <1>5, <2>1 DEF SortMouse, Move, ProgramAt, ProgramRuns, Busy, Contexts
<1>6. CASE InMouseCode
  BY <1>0, <1>6 DEF InMouseCode, Contexts
<1>7. CASE InHandler
  BY <1>7 DEF InHandler, Contexts
<1>8. CASE Interrupt \/ Iret \/ UNCHANGED vars
  BY <1>8 DEF Interrupt, Iret, vars, mouseVars
<1>9. CASE mouse_irq
  <2>1. CASE FullAux
    <3>1. obf.v \in 0 .. 255
      BY <1>0, <2>1 DEF FullAux, Full, TypeOK, HwTypeOK, Byte, Codes
    <3>2. pc["irq"] = "idle"
      BY <1>0, <1>9 DEF mouse_irq, TypeOK, Busy
    <3> QED BY <1>9, <2>1, <3>1, <3>2 DEF mouse_irq, Contexts
  <2>2. CASE ~FullAux
    BY <1>9, <2>2 DEF mouse_irq
  <2> QED BY <2>1, <2>2
<1> QED
  BY <1>1, <1>2, <1>3, <1>4, <1>5, <1>6, <1>7, <1>8, <1>9
  DEF Next, Program, Handler, ReaderStep, Pause

LEMMA PositionStep ==
  ASSUME InputTyped, PositionInv, [Next]_vars
  PROVE  PositionInv'
<1>0. MouseTypeOK
  BY DEF InputTyped, TypeOK
<1>1. CASE UNCHANGED <<mouse, pc, loc>>
  BY <1>1 DEF PositionInv, MovingX, MovingY
<1>2. ASSUME NEW c \in Contexts, MouseStep(c), c = "program" => ~Busy("irq")
      PROVE  PositionInv'
  BY <1>0, <1>2, MouseStepPosition
<1>3. ASSUME NEW c \in Contexts, pc[c] = "idle", mouse' = mouse,
             \/ \E b \in 0 .. 255 : StartFeed(c, b)
             \/ \E cell \in Cells, s \in Symbols : StartPaint(c, cell, s)
      PROVE  PositionInv'
  <2>1. /\ \A d \in Contexts \ {c} : pc'[d] = pc[d] /\ loc'[d] = loc[d]
        /\ pc'[c] \in {"feed", "hide"}
    BY <1>0, <1>3 DEF StartFeed, StartPaint, Goto, MouseTypeOK
  <2> QED BY <1>3, <2>1, PositionKept
<1> QED BY <1>1, <1>2, <1>3, MouseSteps

(* When neither context is in mouse.c the pointer is on the screen and the *)
(* packet machine waits for one of three bytes (mouse.c:47-79), even when  *)
(* IRQ12 has arrived within a motion that the program was computing.       *)
THEOREM InputPointerOnScreen == Spec => []PointerOnScreen
<1>1. Init => PositionInv
  BY ScreenAssumption DEF Init, MouseInit, PositionInv, Contexts
<1>2. InputTyped /\ PositionInv => PointerOnScreen
  <2> SUFFICES ASSUME InputTyped, PositionInv, AllIdle PROVE PointerOnScreen
    BY DEF PointerOnScreen
  <2>1. pc["program"] = "idle" /\ pc["irq"] = "idle"
    BY DEF AllIdle, Busy, Contexts
  <2> QED
    BY <2>1 DEF PointerOnScreen, InputTyped, PhaseInv, PositionInv, MovingX, MovingY
<1> QED BY InputTypedInit, InputTypedStep, PositionStep, <1>1, <1>2, PTL DEF Spec

-----------------------------------------------------------------------------
(* The bytes.  The steps of Next, as far as the bytes are concerned: one   *)
(* is sent, taken by a reader, given on by it or by the handler, or all    *)
(* stay where they are.                                                    *)
SendsKey ==
  /\ obf = NoByte /\ ksent < Len(typed) /\ ksent' = ksent + 1 /\ obf' = KeyByte(ksent + 1)
  /\ Taken' = Taken /\ UNCHANGED <<typed, moved, msent, scanned, fed, raced>>
SendsMouse ==
  /\ obf = NoByte /\ msent < Len(moved) /\ msent' = msent + 1 /\ obf' = MouseByte(msent + 1)
  /\ Taken' = Taken /\ UNCHANGED <<typed, moved, ksent, scanned, fed, raced>>
Takes ==
  /\ obf # NoByte /\ Taken = NoByte /\ Taken' = obf /\ obf' = NoByte
  /\ UNCHANGED <<typed, moved, ksent, msent, scanned, fed, raced>>
ReaderScans ==
  /\ IsKey(Taken) /\ Taken' = NoByte /\ scanned' = Append(scanned, Taken.v)
  /\ UNCHANGED <<typed, moved, ksent, msent, obf, fed, raced>>
ReaderFeeds ==
  /\ IsMouse(Taken) /\ Taken' = NoByte /\ fed' = Append(fed, Taken.n)
  /\ UNCHANGED <<typed, moved, ksent, msent, obf, scanned, raced>>
HandlerFeeds ==
  /\ IsMouse(obf) /\ obf' = NoByte /\ fed' = Append(fed, obf.n) /\ Taken' = Taken
  /\ raced' = (raced \/ ProgramHolds)
  /\ UNCHANGED <<typed, moved, ksent, msent, scanned>>
BytesStay ==
  /\ Taken' = Taken /\ raced' \in {raced, TRUE}
  /\ UNCHANGED <<typed, moved, ksent, msent, obf, scanned, fed>>

LEMMA ByteSteps ==
  ASSUME InputTyped, [Next]_vars
  PROVE  \/ SendsKey \/ SendsMouse \/ Takes \/ ReaderScans \/ ReaderFeeds
         \/ HandlerFeeds \/ BytesStay
<1>0. /\ TypeOK /\ ReaderInv
      /\ byte \in Byte \cup {NoByte} /\ obf \in Byte \cup {NoByte} /\ raced \in BOOLEAN
  BY DEF InputTyped, TypeOK, HwTypeOK
<1>1. CASE Hardware
  BY <1>1
  DEF Hardware, KeySend, MouseSend, SendsKey, SendsMouse, Full, mouseVars, progVars, Taken
<1> USE DEF Move, ProgramAt, ProgramRuns, hwVars, Taken, ReaderInv
<1>2. CASE (\E r \in UsedReaders : CallReader(r)) \/ Poll \/ TimeOut \/ Cli \/ Sti
  BY <1>0, <1>2 DEF CallReader, Poll, TimeOut, Cli, Sti, BytesStay
<1>3. CASE ReadStatus
  BY <1>0, <1>3 DEF ReadStatus, BytesStay, Full
<1>4. CASE ReadByte
  <2>1. byte = obf /\ obf \in Byte /\ Full
    BY <1>0, <1>4 DEF ReadByte, Full
  <2>2. [obf EXCEPT !.aux = byte.aux] = obf
    BY <2>1 DEF Byte
  <2> QED BY <1>0, <1>4, <2>1, <2>2 DEF ReadByte, Takes, ReadData, Full, mouseVars
<1>5. CASE SortKey
  <2>1. byte \in Byte /\ byte.aux = FALSE
    BY <1>0, <1>5 DEF SortKey, Byte
  <2> QED BY <1>0, <1>5, <2>1 DEF SortKey, ReaderScans, IsKey
<1>6. CASE SortMouse
  <2>1. byte \in Byte /\ byte.aux = TRUE
    BY <1>0, <1>6 DEF SortMouse, Byte
  <2> QED BY <1>0, <1>6, <2>1 DEF SortMouse, ReaderFeeds, IsMouse
<1>7. ASSUME NEW cell \in Cells, NEW s \in Symbols, ConsoleWrite(cell, s) PROVE BytesStay
  <2>1. raced' \in {raced, TRUE}
    BY <1>0, <1>7 DEF ConsoleWrite
  <2> QED BY <1>7, <2>1 DEF ConsoleWrite, BytesStay
<1>8. ASSUME NEW cell \in Cells, NEW s \in Symbols, WindowPaint(cell, s) PROVE BytesStay
  BY <1>8 DEF WindowPaint, BytesStay
<1>9. CASE InMouseCode \/ InHandler \/ UNCHANGED vars
  BY <1>9 DEF InMouseCode, InHandler, vars, progVars, BytesStay
<1>10. CASE Interrupt \/ Iret
  BY <1>10 DEF Interrupt, Iret, BytesStay
<1>11. CASE mouse_irq
  <2>1. CASE FullAux
    <3>1. obf \in Byte /\ obf.aux = TRUE
      BY <1>0, <2>1 DEF FullAux, Full, Byte
    <3> QED BY <1>0, <1>11, <2>1, <3>1 DEF mouse_irq, FullAux, Full, HandlerFeeds, IsMouse, ReadData
  <2>2. CASE ~FullAux
    BY <1>11, <2>2 DEF mouse_irq, BytesStay
  <2> QED BY <2>1, <2>2
<1> QED
  BY <1>1, <1>2, <1>3, <1>4, <1>5, <1>6, <1>7, <1>8, <1>9, <1>10, <1>11
  DEF Next, Program, Handler, ReaderStep, Pause

LEMMA KeyCount ==
  /\ Keys(NoByte) = 0 /\ ~IsKey(NoByte)
  /\ \A b : Keys(b) \in {0, 1} /\ (IsKey(b) <=> Keys(b) = 1)
BY DEF Keys, IsKey

LEMMA MouseCount ==
  /\ Mice(NoByte) = 0 /\ ~IsMouse(NoByte)
  /\ \A b : Mice(b) \in {0, 1} /\ (IsMouse(b) <=> Mice(b) = 1)
BY DEF Mice, IsMouse

LEMMA NoSuchByte ==
  ASSUME NEW b \in [aux : BOOLEAN, n : Nat, v : Codes]
  PROVE  b # NoByte
BY StreamAssumption, Zenon

LEMMA SentKey ==
  ASSUME InputTyped, SendsKey
  PROVE  /\ obf'.n = ksent' /\ obf'.v = typed[ksent']
         /\ IsKey(obf') /\ ~IsMouse(obf')
<1>1. /\ typed \in Seq(Codes) /\ ksent + 1 \in 1 .. Len(typed) /\ ksent + 1 \in Nat
  BY DEF InputTyped, TypeOK, HwTypeOK, SendsKey
<1>2. typed[ksent + 1] \in Codes
  BY <1>1, ElementOfSeq
<1>3. obf' = [aux |-> FALSE, n |-> ksent + 1, v |-> typed[ksent + 1]] /\ ksent' = ksent + 1
  BY DEF SendsKey, KeyByte
<1>4. obf' \in [aux : BOOLEAN, n : Nat, v : Codes]
  BY <1>1, <1>2, <1>3
<1>5. obf' # NoByte
  BY <1>4, NoSuchByte
<1> QED BY <1>3, <1>5 DEF IsKey, IsMouse

LEMMA SentMouse ==
  ASSUME InputTyped, SendsMouse
  PROVE  /\ obf'.n = msent' /\ obf'.v = moved[msent']
         /\ IsMouse(obf') /\ ~IsKey(obf')
<1>1. /\ moved \in Seq(Codes) /\ msent + 1 \in 1 .. Len(moved) /\ msent + 1 \in Nat
  BY DEF InputTyped, TypeOK, HwTypeOK, SendsMouse
<1>2. moved[msent + 1] \in Codes
  BY <1>1, ElementOfSeq
<1>3. obf' = [aux |-> TRUE, n |-> msent + 1, v |-> moved[msent + 1]] /\ msent' = msent + 1
  BY DEF SendsMouse, MouseByte
<1>4. obf' \in [aux : BOOLEAN, n : Nat, v : Codes]
  BY <1>1, <1>2, <1>3
<1>5. obf' # NoByte
  BY <1>4, NoSuchByte
<1> QED BY <1>3, <1>5 DEF IsKey, IsMouse

LEMMA KeysStep ==
  ASSUME InputTyped, KeysInv, [Next]_vars
  PROVE  KeysInv'
<1>0. /\ typed \in Seq(Codes) /\ scanned \in Seq(Codes)
      /\ ksent \in 0 .. Len(typed) /\ Len(scanned) \in Nat
  BY DEF InputTyped, TypeOK, HwTypeOK, KeysInv
<1>a. /\ Keys(NoByte) = 0 /\ ~IsKey(NoByte)
      /\ \A b : Keys(b) \in {0, 1} /\ (IsKey(b) <=> Keys(b) = 1)
  BY KeyCount
<1>1. CASE SendsKey
  BY <1>0, <1>1, <1>a, SentKey DEF SendsKey, KeysInv
<1>2. CASE SendsMouse
  BY <1>0, <1>2, <1>a, SentMouse DEF SendsMouse, KeysInv
<1>3. CASE Takes
  BY <1>0, <1>3, <1>a DEF Takes, KeysInv
<1>4. CASE ReaderScans
  <2>1. ksent = Len(scanned) + 1 + Keys(obf) /\ Taken.v = typed[Len(scanned) + 1]
    BY <1>4, <1>a DEF ReaderScans, KeysInv
  <2>2. Len(scanned) + 1 \in 1 .. Len(typed)
    BY <1>0, <1>a, <2>1
  <2>3. Taken.v \in Codes
    BY <1>0, <2>1, <2>2, ElementOfSeq
  <2>4. /\ scanned' \in Seq(Codes) /\ Len(scanned') = Len(scanned) + 1
        /\ scanned'[Len(scanned) + 1] = Taken.v
        /\ \A i \in 1 .. Len(scanned) : scanned'[i] = scanned[i]
    BY <1>0, <1>4, <2>3 DEF ReaderScans
  <2> QED BY <1>0, <1>4, <1>a, <2>1, <2>4 DEF ReaderScans, KeysInv
<1>5. CASE ReaderFeeds
  <2>1. ~IsKey(Taken)
    BY <1>5 DEF ReaderFeeds, IsKey, IsMouse
  <2> QED BY <1>0, <1>5, <1>a, <2>1 DEF ReaderFeeds, KeysInv
<1>6. CASE HandlerFeeds
  <2>1. ~IsKey(obf)
    BY <1>6 DEF HandlerFeeds, IsKey, IsMouse
  <2> QED BY <1>0, <1>6, <1>a, <2>1 DEF HandlerFeeds, KeysInv
<1>7. CASE BytesStay
  BY <1>0, <1>7 DEF BytesStay, KeysInv
<1> QED BY <1>1, <1>2, <1>3, <1>4, <1>5, <1>6, <1>7, ByteSteps

LEMMA Appended ==
  ASSUME NEW S, NEW q \in Seq(S), NEW x \in S
  PROVE  /\ Append(q, x) \in Seq(S) /\ Len(Append(q, x)) = Len(q) + 1 /\ Len(q) \in Nat
         /\ \A i \in 1 .. Len(q) + 1 : Append(q, x)[i] = IF i = Len(q) + 1 THEN x ELSE q[i]
OBVIOUS

LEMMA BytesStep ==
  ASSUME InputTyped, BytesInv, [Next]_vars
  PROVE  BytesInv'
<1>0. /\ moved \in Seq(Codes) /\ fed \in Seq(Nat)
      /\ msent \in 0 .. Len(moved) /\ Len(fed) \in Nat /\ msent \in Nat
  BY DEF InputTyped, TypeOK, HwTypeOK, BytesInv
<1>a. /\ Mice(NoByte) = 0 /\ ~IsMouse(NoByte)
      /\ \A b : Mice(b) \in {0, 1} /\ (IsMouse(b) <=> Mice(b) = 1)
  BY MouseCount
<1>1. CASE SendsKey
  BY <1>0, <1>1, <1>a, SentKey DEF SendsKey, BytesInv, Unspent
<1>2. CASE SendsMouse
  <2>1. /\ msent' = msent + 1 /\ obf'.n = msent + 1 /\ obf'.v = moved'[msent + 1]
        /\ Mice(obf) = 0 /\ Mice(obf') = 1
        /\ UNCHANGED <<moved, fed>> /\ Taken' = Taken
    BY <1>2, <1>a, SentMouse DEF SendsMouse
  <2>2. Unspent(Taken)'
    BY <1>0, <2>1 DEF BytesInv, Unspent
  <2>3. Unspent(obf)'
    BY <1>0, <2>1 DEF BytesInv, Unspent
  <2>4. IsMouse(Taken) => Taken.n # msent + 1
    BY <1>0 DEF BytesInv, Unspent
  <2> QED BY <1>0, <1>a, <2>1, <2>2, <2>3, <2>4 DEF BytesInv
<1>3. CASE Takes
  <2>1. /\ Mice(Taken) = 0 /\ Mice(obf') = 0 /\ ~IsMouse(obf') /\ Taken' = obf
        /\ UNCHANGED <<moved, fed, msent>>
    BY <1>3, <1>a DEF Takes
  <2>2. Unspent(Taken)' /\ Unspent(obf)'
    BY <2>1 DEF BytesInv, Unspent
  <2> QED BY <1>0, <1>a, <2>1, <2>2 DEF BytesInv
<1>4. CASE ReaderScans
  <2>1. ~IsMouse(Taken)
    BY <1>4 DEF ReaderScans, IsKey, IsMouse
  <2> QED BY <1>0, <1>4, <1>a, <2>1 DEF ReaderScans, BytesInv, Unspent
<1>5. CASE ReaderFeeds
  <2>1. /\ Taken.n \in Nat /\ Taken.n \in 1 .. msent
        /\ \A i \in 1 .. Len(fed) : fed[i] # Taken.n
    BY <1>0, <1>5 DEF ReaderFeeds, BytesInv, Unspent
  <2>2. /\ fed' \in Seq(Nat) /\ Len(fed') = Len(fed) + 1
        /\ \A i \in 1 .. Len(fed') : fed'[i] = IF i = Len(fed) + 1 THEN Taken.n ELSE fed[i]
    BY <1>0, <1>5, <2>1, Appended DEF ReaderFeeds
  <2>3. /\ Mice(Taken) = 1 /\ Mice(Taken') = 0 /\ ~IsMouse(Taken')
        /\ UNCHANGED <<moved, msent, obf>>
    BY <1>5, <1>a DEF ReaderFeeds
  <2>4. Unspent(obf)'
    BY <1>0, <1>5, <2>2, <2>3 DEF BytesInv, Unspent, ReaderFeeds
  <2>5. Unspent(Taken)'
    BY <2>3 DEF Unspent
  <2>6. ASSUME NEW i \in 1 .. Len(fed') PROVE fed'[i] \in 1 .. msent'
    <3>1. i \in 1 .. Len(fed) \/ i = Len(fed) + 1
      BY <1>0, <2>2
    <3>2. i \in 1 .. Len(fed) => fed[i] \in 1 .. msent
      BY DEF BytesInv
    <3>3. msent' = msent
      BY <2>3
    <3> QED BY ONLY <1>0, <2>1, <2>2, <3>1, <3>2, <3>3
  <2> QED BY <1>0, <1>a, <2>2, <2>3, <2>4, <2>5, <2>6 DEF BytesInv
<1>6. CASE HandlerFeeds
  <2>1. /\ obf.n = msent /\ msent \in 1 .. msent
        /\ \A i \in 1 .. Len(fed) : fed[i] # obf.n
    BY <1>0, <1>6 DEF HandlerFeeds, BytesInv, Unspent
  <2>2. /\ fed' \in Seq(Nat) /\ Len(fed') = Len(fed) + 1
        /\ \A i \in 1 .. Len(fed') : fed'[i] = IF i = Len(fed) + 1 THEN obf.n ELSE fed[i]
    BY <1>0, <1>6, <2>1, Appended DEF HandlerFeeds
  <2>3. /\ Mice(obf) = 1 /\ Mice(obf') = 0 /\ ~IsMouse(obf')
        /\ UNCHANGED <<moved, msent>> /\ Taken' = Taken
    BY <1>6, <1>a DEF HandlerFeeds
  <2>4. Unspent(Taken)'
    BY <1>0, <1>6, <2>2, <2>3 DEF BytesInv, Unspent, HandlerFeeds
  <2>5. Unspent(obf)'
    BY <2>3 DEF Unspent
  <2>6. ASSUME NEW i \in 1 .. Len(fed') PROVE fed'[i] \in 1 .. msent'
    <3>1. i \in 1 .. Len(fed) \/ i = Len(fed) + 1
      BY <1>0, <2>2
    <3>2. i \in 1 .. Len(fed) => fed[i] \in 1 .. msent
      BY DEF BytesInv
    <3>3. msent' = msent
      BY <2>3
    <3> QED BY ONLY <1>0, <2>1, <2>2, <3>1, <3>2, <3>3
  <2> QED BY <1>0, <1>a, <2>2, <2>3, <2>4, <2>5, <2>6 DEF BytesInv
<1>7. CASE BytesStay
  BY <1>0, <1>7 DEF BytesStay, BytesInv, Unspent
<1> QED BY <1>1, <1>2, <1>3, <1>4, <1>5, <1>6, <1>7, ByteSteps

LEMMA OrderStep ==
  ASSUME InputTyped, BytesInv, OrderInv, [Next]_vars
  PROVE  OrderInv'
<1> SUFFICES ASSUME ~raced' PROVE OrderInv'
  BY DEF OrderInv
<1>0. /\ fed \in Seq(Nat) /\ Len(fed) \in Nat /\ msent \in Nat
      /\ msent = Len(fed) + Mice(Taken) + Mice(obf)
  BY DEF InputTyped, TypeOK, HwTypeOK, BytesInv
<1>a. /\ Mice(NoByte) = 0 /\ ~IsMouse(NoByte)
      /\ \A b : Mice(b) \in {0, 1} /\ (IsMouse(b) <=> Mice(b) = 1)
  BY MouseCount
<1>1. CASE SendsKey \/ SendsMouse
  BY <1>0, <1>1 DEF SendsKey, SendsMouse, OrderInv
<1>2. CASE Takes
  BY <1>0, <1>2, <1>a DEF Takes, OrderInv, BytesInv
<1>3. CASE ReaderScans
  BY <1>3, <1>a DEF ReaderScans, OrderInv
<1>4. CASE ReaderFeeds
  <2>1. Taken.n = Len(fed) + 1
    BY <1>4 DEF ReaderFeeds, OrderInv
  <2>2. \A i \in 1 .. Len(fed') : fed'[i] = IF i = Len(fed) + 1 THEN Taken.n ELSE fed[i]
    BY <1>0, <1>4, <2>1 DEF ReaderFeeds
  <2>3. Len(fed') = Len(fed) + 1
    BY <1>0, <1>4, <2>1 DEF ReaderFeeds
  <2> QED BY <1>0, <1>4, <1>a, <2>1, <2>2, <2>3 DEF ReaderFeeds, OrderInv
<1>5. CASE HandlerFeeds
  <2>1. ~ProgramHolds /\ ~raced
    BY <1>5 DEF HandlerFeeds
  <2>2. ~IsMouse(Taken)
    BY <2>1, <1>a DEF ProgramHolds, Taken, IsMouse
  <2>3. obf.n = Len(fed) + 1
    BY <1>0, <1>5, <1>a, <2>2 DEF HandlerFeeds, BytesInv, Unspent
  <2>4. \A i \in 1 .. Len(fed') : fed'[i] = IF i = Len(fed) + 1 THEN obf.n ELSE fed[i]
    BY <1>0, <1>5, <2>3 DEF HandlerFeeds
  <2>5. Len(fed') = Len(fed) + 1
    BY <1>0, <1>5, <2>3 DEF HandlerFeeds
  <2> QED BY <1>0, <1>5, <2>1, <2>2, <2>3, <2>4, <2>5 DEF HandlerFeeds, OrderInv
<1>6. CASE BytesStay
  BY <1>6 DEF BytesStay, OrderInv
<1> QED BY <1>1, <1>2, <1>3, <1>4, <1>5, <1>6, ByteSteps

LEMMA RouteInit ==
  ASSUME Init
  PROVE  KeysInv /\ BytesInv /\ OrderInv
<1>1. /\ scanned = << >> /\ fed = << >> /\ obf = NoByte /\ Taken = NoByte
      /\ ksent = 0 /\ msent = 0
  BY DEF Init, HwInit, MouseInit, Taken
<1> QED BY <1>1, KeyCount, MouseCount DEF KeysInv, BytesInv, OrderInv, Unspent

LEMMA RouterStep ==
  ASSUME InputTyped, KeysInv, BytesInv, [Next]_vars
  PROVE  [Router!Next]_(Router!vars)
<1>0. /\ typed \in Seq(Codes) /\ scanned \in Seq(Codes) /\ fed \in Seq(Nat)
      /\ Len(fed) \in Nat /\ Len(scanned) \in Nat
      /\ ksent \in 0 .. Len(typed) /\ msent \in 0 .. Len(moved)
      /\ Len(typed) \in Nat /\ Len(moved) \in Nat
  BY DEF InputTyped, TypeOK, HwTypeOK, KeysInv, BytesInv
<1>1. CASE ReaderScans
  <2>1. ksent = Len(scanned) + 1 + Keys(obf) /\ Taken.v = typed[Len(scanned) + 1]
    BY <1>1, KeyCount DEF ReaderScans, KeysInv
  <2>2. Len(scanned) < Len(typed)
    BY <1>0, <2>1, KeyCount
  <2> QED BY <1>1, <2>1, <2>2 DEF ReaderScans, Router!Next, Router!Scan
<1>2. CASE ReaderFeeds
  <2>1. Taken.n \in 1 .. Len(moved) /\ \A i \in 1 .. Len(fed) : fed[i] # Taken.n
    BY <1>0, <1>2 DEF ReaderFeeds, BytesInv, Unspent
  <2> QED BY <1>2, <2>1 DEF ReaderFeeds, Router!Next, Router!Feed, Router!Unfed
<1>3. CASE HandlerFeeds
  <2>1. msent = Len(fed) + Mice(Taken) + 1 /\ obf.n = msent
    BY <1>3, MouseCount DEF HandlerFeeds, BytesInv, Unspent
  <2>2. obf.n \in 1 .. Len(moved)
    BY <1>0, <2>1, MouseCount
  <2>3. \A i \in 1 .. Len(fed) : fed[i] # obf.n
    BY <1>3 DEF HandlerFeeds, BytesInv, Unspent
  <2> QED BY <1>3, <2>2, <2>3 DEF HandlerFeeds, Router!Next, Router!Feed, Router!Unfed
<1>4. CASE SendsKey \/ SendsMouse \/ Takes \/ BytesStay
  BY <1>4 DEF SendsKey, SendsMouse, Takes, BytesStay, Router!vars
<1> QED BY <1>1, <1>2, <1>3, <1>4, ByteSteps

(* The readers and the handler implement the router: each scan code is     *)
(* decoded once and in the order typed, each byte of the mouse is fed      *)
(* once, and neither takes the path of the other (kernel.c:249-252,        *)
(* mouse.c:86-91).                                                         *)
THEOREM InputRoutes == Spec => Router!Spec
<1>1. Init => Router!Init
  BY StreamAssumption DEF Init, HwInit, Router!Init, Codes
<1> QED
  BY InputTypedInit, InputTypedStep, RouteInit, KeysStep, BytesStep, RouterStep, <1>1, PTL
  DEF Spec, Router!Spec

-----------------------------------------------------------------------------
(* The screen.                                                             *)
LEMMA HereOnScreen ==
  ASSUME mouse.mx \in 0 .. Cols - 1, mouse.my \in 0 .. Rows - 1
  PROVE  Here \in Cells
<1> DEFINE x == mouse.mx
           y == mouse.my
<1>1. Cols \in Nat /\ Rows \in Nat /\ x \in Nat /\ y \in Nat /\ x < Cols /\ y + 1 <= Rows
  BY ScreenAssumption
<1> HIDE DEF x, y
<1>2. y * Cols \in Nat
  BY <1>1
<1>3. (y + 1) * Cols <= Rows * Cols
  BY <1>1
<1>4. (y + 1) * Cols = y * Cols + Cols /\ Rows * Cols = Cols * Rows
  BY <1>1
<1>5. y * Cols + x \in 0 .. Cols * Rows - 1
  BY <1>1, <1>2, <1>3, <1>4
<1> QED BY <1>5 DEF Here, Cells, x, y

LEMMA OthersIdle ==
  ASSUME NEW c \in Contexts
  PROVE  Other(c) \in Contexts /\ Contexts \ {c} = {Other(c)} /\ Other(c) # c /\ Other(Other(c)) = c
BY DEF Other, Contexts

(* Work on the block begins when none is going on.                         *)
LEMMA OverlayStart ==
  ASSUME pc \in [Contexts -> Labels], NEW c \in Contexts, ~Busy("program"), ~Busy("irq"),
         OverlayStages, UNCHANGED <<mouse, vga, text>>,
         NEW t \in {"feed", "hide"}, pc' = [pc EXCEPT ![c] = t]
  PROVE  OverlayStages'
<1>1. Covered
  BY DEF OverlayStages, OverlayStage, Busy, BeforeHide, Contexts, Other
<1>2. Covered'
  BY <1>1 DEF Covered, Here
<1>3. pc'[c] = t /\ pc'[Other(c)] = "idle"
  BY OthersIdle DEF Busy, Contexts
<1>4. OverlayStage(c)'
  BY <1>2, <1>3 DEF OverlayStage
<1>5. ~(Busy("program") /\ Busy("irq"))'
  BY <1>3 DEF Busy, Contexts, Other
<1>6. ~Busy(Other(Other(c)))' => FALSE
  BY <1>3, OthersIdle DEF Busy
<1> QED BY <1>4, <1>5, <1>6, OthersIdle DEF OverlayStages

LEMMA MouseStepOverlay ==
  ASSUME MouseTypeOK, PositionInv, OverlayStages, NEW c \in Contexts, MouseStep(c)
  PROVE  OverlayStages'
<1>0. /\ mouse \in MouseState /\ pc \in [Contexts -> Labels]
      /\ loc \in [Contexts -> Frame] /\ loc[c] \in Frame
      /\ vga \in [Cells -> Symbols \cup {Block}] /\ text \in [Cells -> Symbols]
  BY DEF MouseTypeOK, MouseState
<1>1. pc[c] # "idle" /\ pc'[Other(c)] = pc[Other(c)]
  BY <1>0, OneMoves, OthersIdle DEF Busy
<1>2. pc[Other(c)] = "idle" /\ OverlayStage(c)
  BY <1>1 DEF OverlayStages, Contexts, Busy, Other
<1>3. SUFFICES OverlayStage(c)'
  <2>1. ~(Busy("program") /\ Busy("irq"))'
    BY <1>1, <1>2 DEF Busy, Contexts, Other
  <2>2. OverlayStage(Other(c))' \/ Busy(Other(Other(c)))'
    <3>1. CASE pc'[c] = "idle"
      BY <1>1, <1>2, <1>3, <3>1 DEF OverlayStage, BeforeHide
    <3>2. CASE pc'[c] # "idle"
      BY <3>2, OthersIdle DEF Busy
    <3> QED BY <3>1, <3>2
  <2> QED BY <1>3, <2>1, <2>2, OthersIdle DEF OverlayStages
<1> USE DEF Step, Goto, Return
<1>4. CASE LoadPhase(c) \/ CountPhase(c) \/ StorePkt(c) \/ ResetPhase(c) \/ ReadMotion(c)
  <2> USE DEF LoadPhase, CountPhase, StorePkt, ResetPhase, ReadMotion
  <2>1. /\ mouse'.mx = mouse.mx /\ mouse'.my = mouse.my
        /\ mouse'.shown = mouse.shown /\ mouse'.under = mouse.under
    BY <1>0, <1>4 DEF MouseState
  <2>2. UNCHANGED <<vga, text>> /\ pc[c] \in BeforeHide /\ pc'[c] \in BeforeHide
    BY <1>0, <1>4 DEF BeforeHide
  <2>3. Covered' <=> Covered
    BY <2>1, <2>2 DEF Covered, Here
  <2> QED BY <1>2, <2>2, <2>3 DEF OverlayStage, BeforeHide
<1>5. CASE Button(c) \/ MoveX(c) \/ MoveY(c) \/ ClampX(c) \/ ClampY(c)
  <2> USE DEF Button, MoveX, MoveY, ClampX, ClampY
  <2>1. mouse'.shown = mouse.shown /\ UNCHANGED <<vga, text>>
    BY <1>0, <1>5 DEF MouseState
  <2>2. /\ pc[c] \in {"button", "movex", "movey", "clampx", "clampy"}
        /\ pc'[c] \in {"movex", "movey", "clampx", "clampy", "draw"}
    BY <1>0, <1>5
  <2> QED BY <1>2, <2>1, <2>2 DEF OverlayStage, BeforeHide
<1>6. CASE RestoreCell(c)
  <2>0. Covered /\ UNCHANGED <<mouse, text>> /\ pc[c] = "hide"
    BY <1>2, <1>6 DEF RestoreCell, OverlayStage, BeforeHide
  <2>1. CASE mouse.shown
    <3>1. vga' = [vga EXCEPT ![Here] = mouse.under] /\ pc'[c] = "hidden"
      BY <1>0, <1>6, <2>1 DEF RestoreCell
    <3>2. \A d \in Cells : vga'[d] = text'[d]
      BY <1>0, <2>0, <2>1, <3>1 DEF Covered
    <3>3. vga' = text'
      BY <1>0, <2>0, <3>1, <3>2
    <3> QED BY <3>1, <3>3 DEF OverlayStage, BeforeHide
  <2>2. CASE ~mouse.shown
    <3>1. vga' = vga /\ pc'[c] \in {"button", "paint"}
      BY <1>0, <1>6, <2>2 DEF RestoreCell, HiddenNext
    <3>2. vga = text
      BY <1>0, <2>0, <2>2 DEF Covered
    <3> QED BY <2>0, <2>2, <3>1, <3>2 DEF OverlayStage, BeforeHide
  <2> QED BY <2>1, <2>2
<1>7. CASE ClearShown(c)
  <2>1. ~mouse'.shown /\ UNCHANGED <<vga, text>> /\ pc[c] = "hidden" /\ pc'[c] \in {"button", "paint"}
    BY <1>0, <1>7 DEF ClearShown, HiddenNext, MouseState
  <2> QED BY <1>2, <2>1 DEF OverlayStage, BeforeHide
<1>8. CASE PaintCell(c)
  <2>1. vga = text /\ ~mouse.shown /\ mouse' = mouse /\ pc'[c] = "draw"
    BY <1>0, <1>2, <1>8 DEF PaintCell, OverlayStage
  <2>2. vga' = text'
    BY <1>0, <1>8, <2>1 DEF PaintCell
  <2> QED BY <2>1, <2>2 DEF OverlayStage, BeforeHide
<1>9. pc[c] \in {"draw", "block", "drawn"} => Here \in Cells
  <2>1. ASSUME pc[c] \in {"draw", "block", "drawn"}
        PROVE  mouse.mx \in 0 .. Cols - 1 /\ mouse.my \in 0 .. Rows - 1
    BY <1>2, <2>1 DEF PositionInv, MovingX, MovingY, Contexts, Other
  <2> QED BY <2>1, HereOnScreen
<1>10. CASE SaveCell(c)
  <2>1. vga = text /\ ~mouse.shown /\ pc[c] = "draw" /\ pc'[c] = "block" /\ UNCHANGED <<vga, text>>
    BY <1>0, <1>2, <1>10 DEF SaveCell, OverlayStage
  <2>2. mouse' = [mouse EXCEPT !.under = text[Here]]
    BY <1>9, <1>10, <2>1 DEF SaveCell
  <2>3. Here' = Here /\ mouse'.under = text[Here] /\ ~mouse'.shown
    BY <1>0, <2>1, <2>2 DEF Here, MouseState
  <2>4. loc'[c].pos = Here
    BY <1>0, <1>10 DEF SaveCell, Frame
  <2> QED BY <2>1, <2>3, <2>4 DEF OverlayStage, BeforeHide
<1>11. CASE DrawBlock(c)
  <2>1. /\ vga = text /\ pc'[c] = "drawn" /\ UNCHANGED <<mouse, loc, text>>
        /\ loc[c].pos = Here /\ mouse.under = text[Here]
    BY <1>0, <1>2, <1>11 DEF DrawBlock, OverlayStage
  <2>2. vga' = [text EXCEPT ![Here] = Block] /\ Here' = Here
    BY <1>11, <2>1 DEF DrawBlock, Here
  <2> QED BY <2>1, <2>2 DEF OverlayStage, BeforeHide
<1>12. CASE SetShown(c)
  <2>1. /\ vga = [text EXCEPT ![Here] = Block] /\ mouse.under = text[Here] /\ Here \in Cells
        /\ pc'[c] = "idle" /\ UNCHANGED <<vga, text>> /\ mouse' = [mouse EXCEPT !.shown = TRUE]
    BY <1>0, <1>2, <1>9, <1>12 DEF SetShown, OverlayStage
  <2>2. Here' = Here /\ mouse'.under = text[Here]
    BY <1>0, <2>1 DEF Here, MouseState
  <2>3. mouse'.shown
    BY <1>0, <2>1 DEF MouseState
  <2>4. Covered'
    BY <1>0, <2>1, <2>2, <2>3 DEF Covered
  <2> QED BY <2>1, <2>4 DEF OverlayStage
<1> QED
  BY <1>4, <1>5, <1>6, <1>7, <1>8, <1>10, <1>11, <1>12
  DEF MouseStep, mouse_feed, mouse_hide, mouse_draw

LEMMA OverlayStep ==
  ASSUME InputTyped, PositionInv, OverlayInv, [Next]_vars
  PROVE  OverlayInv'
<1> SUFFICES ASSUME ~raced' PROVE OverlayStages'
  BY DEF OverlayInv
<1>0. /\ TypeOK /\ MouseTypeOK /\ pc \in [Contexts -> Labels]
      /\ vga \in [Cells -> Symbols \cup {Block}] /\ text \in [Cells -> Symbols]
      /\ hpc # "body" => ~Busy("irq")
  BY DEF InputTyped, TypeOK, MouseTypeOK
<1>a. ~raced => OverlayStages
  BY DEF OverlayInv
<1>1. CASE UNCHANGED <<mouseVars, raced>>
  BY <1>a, <1>1 DEF mouseVars, OverlayStages, OverlayStage, Covered, Busy, Here
<1>2. CASE Hardware
  BY <1>1, <1>2 DEF Hardware, progVars
<1>3. CASE \/ \E r \in UsedReaders : CallReader(r)
           \/ Poll \/ TimeOut \/ Cli \/ ReadStatus \/ ReadByte \/ Sti \/ SortKey
  BY <1>1, <1>3 DEF CallReader, Poll, TimeOut, Cli, ReadStatus, ReadByte, Sti, SortKey, mouseVars
<1>4. ASSUME NEW cell \in Cells, NEW s \in Symbols, ConsoleWrite(cell, s) PROVE OverlayStages'
  <2>1. /\ ~raced /\ ~Busy("program") /\ ~Busy("irq") /\ ~(mouse.shown /\ cell = Here)
        /\ UNCHANGED <<mouse, pc, loc>>
    BY <1>0, <1>4 DEF ConsoleWrite, ProgramAt, ProgramRuns
  <2>2. Covered
    BY <1>a, <2>1 DEF OverlayStages, OverlayStage, Busy, BeforeHide, Contexts, Other
  <2>3. vga' = [vga EXCEPT ![cell] = s] /\ text' = [text EXCEPT ![cell] = s] /\ Here' = Here
    BY <1>4, <2>1 DEF ConsoleWrite, Here
  <2>4. Covered'
    BY <1>0, <2>1, <2>2, <2>3 DEF Covered
  <2> QED BY <2>1, <2>4 DEF OverlayStages, OverlayStage, Busy, Contexts
<1>5. ASSUME NEW cell \in Cells, NEW s \in Symbols, WindowPaint(cell, s) PROVE OverlayStages'
  <2>1. /\ ~raced /\ ~Busy("program") /\ ~Busy("irq") /\ UNCHANGED <<mouse, vga, text>>
        /\ pc' = [pc EXCEPT !["program"] = "hide"]
    BY <1>0, <1>5 DEF WindowPaint, ProgramAt, ProgramRuns, StartPaint, Goto
  <2> QED BY <1>0, <1>a, <2>1, OverlayStart DEF Contexts
<1>6. CASE SortMouse
  <2>1. /\ ~raced /\ ~Busy("program") /\ ~Busy("irq") /\ UNCHANGED <<mouse, vga, text>>
        /\ pc' = [pc EXCEPT !["program"] = "feed"]
    BY <1>0, <1>6 DEF SortMouse, Move, ProgramAt, ProgramRuns, StartFeed, Goto
  <2> QED BY <1>0, <1>a, <2>1, OverlayStart DEF Contexts
<1>7. CASE InMouseCode \/ InHandler
  <2>1. \E c \in Contexts : MouseStep(c)
    BY <1>7 DEF InMouseCode, InHandler, Contexts
  <2>2. ~raced
    BY <1>7 DEF InMouseCode, InHandler, progVars
  <2> QED BY <1>0, <1>a, <2>1, <2>2, MouseStepOverlay
<1>8. CASE Interrupt \/ Iret
  BY <1>1, <1>8 DEF Interrupt, Iret, mouseVars
<1>9. CASE mouse_irq
  <2>1. CASE FullAux
    <3>1. /\ ~raced /\ ~Busy("program") /\ ~Busy("irq") /\ UNCHANGED <<mouse, vga, text>>
          /\ pc' = [pc EXCEPT !["irq"] = "feed"]
      BY <1>0, <1>9, <2>1 DEF mouse_irq, ProgramHolds, StartFeed, Goto
    <3> QED BY <1>0, <1>a, <3>1, OverlayStart DEF Contexts
  <2>2. CASE ~FullAux
    BY <1>1, <1>9, <2>2 DEF mouse_irq, mouseVars
  <2> QED BY <2>1, <2>2
<1>10. CASE UNCHANGED vars
  BY <1>1, <1>10 DEF vars, progVars
<1> QED
  BY <1>2, <1>3, <1>4, <1>5, <1>6, <1>7, <1>8, <1>9, <1>10
  DEF Next, Program, Handler, ReaderStep, Pause

(* The block leaves no trace on the screen (mouse.c:21-45), as long as the *)
(* program writes to no cell below it and the handler feeds no byte while  *)
(* the program holds one or is in mouse.c.                                 *)
THEOREM InputOverlayExact == Spec => []OverlayExactUnlessRaced
<1>1. Init => PositionInv
  BY ScreenAssumption DEF Init, MouseInit, PositionInv, Contexts
<1>2. Init => OverlayInv
  <2> SUFFICES ASSUME Init PROVE OverlayStages
    BY DEF OverlayInv
  <2>1. \A c \in Contexts : pc[c] = "idle"
    BY DEF Init, MouseInit
  <2>2. vga = text /\ ~mouse.shown
    BY DEF Init, MouseInit
  <2>3. Covered
    BY <2>2 DEF Covered
  <2> QED BY <2>1, <2>3 DEF OverlayStages, OverlayStage, Busy, Contexts
<1>3. OverlayInv => OverlayExactUnlessRaced
  <2> SUFFICES ASSUME OverlayStages, AllIdle PROVE OverlayExact
    BY DEF OverlayInv, OverlayExactUnlessRaced, OverlayExact
  <2>1. Covered
    BY DEF AllIdle, OverlayStages, OverlayStage, Busy, BeforeHide, Contexts, Other
  <2> QED BY <2>1 DEF Covered, OverlayExact
<1> QED BY InputTypedInit, InputTypedStep, PositionStep, OverlayStep, <1>1, <1>2, <1>3, PTL DEF Spec

-----------------------------------------------------------------------------
(* The packets.                                                            *)
LEMMA LeadFacts ==
  ASSUME moved \in Seq(Codes)
  PROVE  LeadOf(moved, Lead) /\ Lead \in Nat
<1> DEFINE S == {i \in 0 .. Len(moved) : i < Len(moved) => Sync(moved[i + 1])}
<1>1. Len(moved) \in Nat
  OBVIOUS
<1>2. Len(moved) \in S /\ S \in SUBSET Nat
  BY <1>1
<1>3. PICK i \in S : \A j \in S : i <= j
  <2> HIDE DEF S
  <2> QED BY <1>2, LeastNat
<1>4. ASSUME NEW j \in 1 .. i PROVE ~Sync(moved[j])
  <2>1. j - 1 \in 0 .. Len(moved) /\ j - 1 < Len(moved) /\ ~(i <= j - 1)
    BY <1>1, <1>3
  <2>2. j - 1 \notin S
    BY <1>3, <2>1
  <2>3. ~Sync(moved[j - 1 + 1])
    BY <2>1, <2>2
  <2> QED BY <2>3
<1>5. \E l \in 0 .. Len(moved) : /\ \A j \in 1 .. l : ~Sync(moved[j])
                                 /\ l < Len(moved) => Sync(moved[l + 1])
  BY <1>3, <1>4
<1>6. /\ Lead \in 0 .. Len(moved) /\ \A j \in 1 .. Lead : ~Sync(moved[j])
      /\ Lead < Len(moved) => Sync(moved[Lead + 1])
  BY <1>5 DEF Lead
<1> QED BY <1>1, <1>6 DEF LeadOf

(* What the step of one context needs to show about it: the other is idle. *)
LEMMA OneStage ==
  ASSUME pc \in [Contexts -> Labels], NEW c \in Contexts, ~Busy(Other(c)),
         pc'[Other(c)] = pc[Other(c)],
         PacketStage(c, Len(fed), Len(applied))'
  PROVE  \A d \in Contexts : ~Busy(Other(d))' => PacketStage(d, Len(fed), Len(applied))'
<1>1. ASSUME ~Busy(Other(Other(c)))'
      PROVE  PacketStage(Other(c), Len(fed), Len(applied))'
  <2>1. pc'[c] = "idle" /\ pc'[Other(c)] = "idle"
    BY <1>1, OthersIdle DEF Busy
  <2> QED BY <2>1 DEF PacketStage, Resting, Moving
<1> QED BY <1>1, OthersIdle

LEMMA NextRead ==
  ASSUME Lead \in Nat, NEW k \in Nat
  PROVE  AsRead(k + 1) = <<moved[Lead + 3 * k + 1], Signed(moved[Lead + 3 * k + 2]),
                           Signed(moved[Lead + 3 * k + 3])>>
<1>1. /\ Lead + (3 * (k + 1) - 2) = Lead + 3 * k + 1
      /\ Lead + (3 * (k + 1) - 1) = Lead + 3 * k + 2
      /\ Lead + 3 * (k + 1) = Lead + 3 * k + 3
  OBVIOUS
<1>2. /\ Nth(3 * (k + 1) - 2) = moved[Lead + 3 * k + 1]
      /\ Nth(3 * (k + 1) - 1) = moved[Lead + 3 * k + 2]
      /\ Nth(3 * (k + 1)) = moved[Lead + 3 * k + 3]
  BY <1>1 DEF Nth
<1> QED BY <1>2, Zenon DEF AsRead

LEMMA MouseStepPackets ==
  ASSUME MouseTypeOK, moved \in Seq(Codes), Framed(moved), Len(fed) \in 0 .. Len(moved),
         PacketStages, UNCHANGED <<moved, fed>>,
         NEW c \in Contexts, ~Busy(Other(c)), MouseStep(c)
  PROVE  PacketStages'
<1> DEFINE n == Len(fed)
           k == Len(applied)
<1>0. /\ mouse \in MouseState /\ pc \in [Contexts -> Labels]
      /\ loc \in [Contexts -> Frame] /\ loc[c] \in Frame
      /\ mouse.phase \in 0 .. 4 /\ loc[c].p \in 0 .. 3
      /\ n \in Nat /\ k \in Nat /\ n <= Len(moved) /\ Len(moved) \in Nat
      /\ applied \in Seq(Motion)
  BY DEF MouseTypeOK, MouseState, Frame, PacketStages
<1>1. pc[c] # "idle" /\ pc'[Other(c)] = pc[Other(c)]
  BY <1>0, OneMoves, OthersIdle DEF Busy
<1>2. PacketStage(c, n, k)
  BY DEF PacketStages
<1>3. LeadOf(moved, Lead) /\ Lead \in Nat /\ Lead' = Lead
  BY LeadFacts DEF Lead
<1>4. \A j : AsRead(j)' = AsRead(j)
  BY <1>3 DEF AsRead, Nth
<1>5. ASSUME applied' = applied, PacketStage(c, n, k)' PROVE PacketStages'
  BY <1>0, <1>1, <1>3, <1>4, <1>5, OneStage DEF PacketStages
<1> USE DEF Step, Goto, Return
<1>6. CASE LoadPhase(c)
  <2>1. /\ pc[c] = "feed" /\ UNCHANGED <<mouse, applied>> /\ loc[c].job = "feed"
        /\ n > 0 /\ loc[c].b = moved[n] /\ Gathered(n - 1, mouse.phase, k)
    BY <1>2, <1>6 DEF LoadPhase, PacketStage
  <2>2. CASE mouse.phase = 0 /\ ~Sync(loc[c].b)
    <3>1. n - 1 < Lead
      <4> SUFFICES ASSUME n - 1 >= Lead PROVE FALSE
        BY <1>0, <1>3
      <4>1. n = Lead + 3 * k + 1
        BY <1>0, <1>3, <2>1, <2>2 DEF Gathered
      <4>2. Sync(moved[Lead + 3 * k + 1])
        BY <1>0, <1>3, <4>1 DEF Framed
      <4> QED BY <2>1, <2>2, <4>1, <4>2
    <3>2. n <= Lead /\ k = 0
      BY <1>0, <1>3, <2>1, <3>1 DEF Gathered
    <3>3. Gathered(n, mouse.phase, k)'
      BY <2>1, <2>2, <3>2, <1>3 DEF Gathered
    <3>4. pc'[c] = "idle"
      BY <1>0, <1>6, <2>2 DEF LoadPhase
    <3>5. PacketStage(c, n, k)'
      BY <3>3, <3>4 DEF PacketStage, Resting, Moving
    <3> QED BY <1>5, <2>1, <3>5
  <2>3. CASE ~(mouse.phase = 0 /\ ~Sync(loc[c].b))
    <3>1. n - 1 >= Lead
      <4> SUFFICES ASSUME n <= Lead PROVE FALSE
        BY <1>0, <1>3
      <4>1. mouse.phase = 0
        BY <1>0, <1>3, <2>1 DEF Gathered
      <4>2. ~Sync(moved[n])
        BY <1>0, <1>3, <2>1 DEF LeadOf
      <4> QED BY <2>1, <2>3, <4>1, <4>2
    <3>2. pc'[c] = "count" /\ loc'[c] = [loc[c] EXCEPT !.p = mouse.phase]
      BY <1>0, <1>6, <2>3 DEF LoadPhase
    <3>3. loc'[c].p = mouse.phase /\ loc'[c].b = loc[c].b /\ loc'[c].job = "feed"
      BY <1>0, <2>1, <3>2 DEF Frame
    <3>4. Gathered(n - 1, loc[c].p, k)'
      BY <1>3, <2>1, <3>3 DEF Gathered
    <3>5. PacketStage(c, n, k)'
      BY <1>3, <2>1, <3>1, <3>2, <3>3, <3>4 DEF PacketStage, Resting, Moving
    <3> QED BY <1>5, <2>1, <3>5
  <2> QED BY <2>2, <2>3
<1>7. CASE CountPhase(c)
  <2>1. /\ pc[c] = "count" /\ pc'[c] = "store" /\ UNCHANGED <<applied, loc>>
        /\ mouse'.phase = loc[c].p + 1 /\ mouse'.pkt = mouse.pkt
    BY <1>0, <1>7 DEF CountPhase, MouseState
  <2>2. Gathered(n - 1, loc[c].p, k)'
    BY <1>2, <1>3, <2>1 DEF Gathered, PacketStage
  <2>3. PacketStage(c, n, k)'
    BY <1>2, <1>3, <2>1, <2>2 DEF PacketStage, Resting, Moving
  <2> QED BY <1>5, <2>1, <2>3
<1>8. CASE StorePkt(c)
  <2>1. /\ pc[c] = "store" /\ applied' = applied /\ mouse'.phase = loc[c].p + 1
        /\ mouse'.pkt = [i \in 0 .. 2 |-> IF i = loc[c].p THEN loc[c].b ELSE mouse.pkt[i]]
        /\ n > 0 /\ loc[c].b = moved[n] /\ n - 1 >= Lead /\ Gathered(n - 1, loc[c].p, k)
        /\ loc[c].job = "feed"
    BY <1>0, <1>2, <1>8 DEF StorePkt, MouseState, PacketStage
  <2>2. /\ n = Lead + 3 * k + loc[c].p + 1 /\ loc[c].p \in 0 .. 2
        /\ \A i \in 0 .. loc[c].p - 1 : mouse.pkt[i] = moved[Lead + 3 * k + i + 1]
    BY <1>0, <1>3, <2>1 DEF Gathered
  <2>3. \A i \in 0 .. loc[c].p : mouse'.pkt[i] = moved[Lead + 3 * k + i + 1]
    <3> SUFFICES ASSUME NEW i \in 0 .. loc[c].p
                 PROVE  mouse'.pkt[i] = moved[Lead + 3 * k + i + 1]
      OBVIOUS
    <3>1. i \in 0 .. 2
      BY <2>2
    <3>2. CASE i = loc[c].p
      BY <2>1, <2>2, <3>1, <3>2
    <3>3. CASE i # loc[c].p
      <4>1. i \in 0 .. loc[c].p - 1
        BY <2>2, <3>3
      <4>2. mouse'.pkt[i] = mouse.pkt[i]
        BY <2>1, <3>1, <3>3
      <4> QED BY <2>2, <4>1, <4>2
    <3> QED BY <3>2, <3>3
  <2>4. CASE loc[c].p + 1 < 3
    <3>1. pc'[c] = "idle"
      BY <1>0, <1>8, <2>4 DEF StorePkt
    <3>2. Gathered(n, mouse.phase, k)'
      <4>1. /\ n >= Lead /\ loc[c].p + 1 \in 0 .. 2 /\ n = Lead + 3 * k + (loc[c].p + 1)
            /\ loc[c].p + 1 - 1 = loc[c].p
        BY <1>0, <1>3, <2>1, <2>2, <2>4
      <4>2. \A i \in 0 .. mouse'.phase - 1 : mouse'.pkt[i] = moved'[Lead' + 3 * k' + i + 1]
        <5>1. mouse'.phase - 1 = loc[c].p /\ Lead' = Lead /\ k' = k /\ moved' = moved
          BY <1>0, <1>3, <2>1, <2>2
        <5> QED BY <2>3, <5>1
      <4>3. n' >= Lead' /\ mouse'.phase \in 0 .. 2 /\ n' = Lead' + 3 * k' + mouse'.phase
        BY <1>3, <2>1, <4>1
      <4> QED BY <4>2, <4>3 DEF Gathered
    <3>3. PacketStage(c, n, k)'
      BY <3>1, <3>2 DEF PacketStage, Resting, Moving
    <3> QED BY <1>5, <2>1, <3>3
  <2>5. CASE ~(loc[c].p + 1 < 3)
    <3>1. pc'[c] = "reset" /\ loc' = loc
      BY <1>0, <1>8, <2>5 DEF StorePkt
    <3>2. Complete(n, k)'
      <4>1. loc[c].p = 2
        BY <2>2, <2>5
      <4>2. n = Lead + 3 * k + 3
        BY <1>0, <1>3, <2>2, <4>1
      <4> QED BY <1>3, <2>1, <2>3, <4>1, <4>2 DEF Complete
    <3>3. PacketStage(c, n, k)'
      BY <2>1, <3>1, <3>2 DEF PacketStage, Resting, Moving
    <3> QED BY <1>5, <2>1, <3>3
  <2> QED BY <2>4, <2>5
<1>9. CASE ResetPhase(c)
  <2>1. /\ pc[c] = "reset" /\ pc'[c] = "read" /\ UNCHANGED <<applied, loc>>
        /\ mouse'.phase = 0 /\ mouse'.pkt = mouse.pkt
    BY <1>0, <1>9 DEF ResetPhase, MouseState
  <2>2. Complete(n, k)'
    BY <1>2, <1>3, <2>1 DEF Complete, PacketStage
  <2>3. PacketStage(c, n, k)'
    BY <1>2, <2>1, <2>2 DEF PacketStage, Resting, Moving
  <2> QED BY <1>5, <2>1, <2>3
<1>10. CASE ReadMotion(c)
  <2>1. /\ pc[c] = "read" /\ pc'[c] = "hide" /\ UNCHANGED <<applied, mouse>>
        /\ loc'[c].dx = Signed(mouse.pkt[1]) /\ loc'[c].dy = Signed(mouse.pkt[2])
        /\ loc'[c].job = loc[c].job
    BY <1>0, <1>10 DEF ReadMotion, Frame
  <2>2. Complete(n, k)'
    BY <1>2, <1>3, <2>1 DEF Complete, PacketStage
  <2>3. PacketStage(c, n, k)'
    BY <1>2, <2>1, <2>2 DEF PacketStage, Resting, Moving
  <2> QED BY <1>5, <2>1, <2>3
<1>11. CASE Button(c)
  <2>1. /\ pc[c] = "button" /\ pc'[c] = "movex" /\ loc' = loc
        /\ mouse'.phase = mouse.phase /\ mouse'.pkt = mouse.pkt
        /\ applied' = Append(applied, <<mouse.pkt[0], loc[c].dx, loc[c].dy>>)
    BY <1>0, <1>11 DEF Button, MouseState
  <2>2. /\ mouse.phase = 0 /\ n = Lead + 3 * k + 3
        /\ mouse.pkt[0] = moved[Lead + 3 * k + 1] /\ mouse.pkt[1] = moved[Lead + 3 * k + 2]
        /\ mouse.pkt[2] = moved[Lead + 3 * k + 3]
        /\ loc[c].dx = Signed(mouse.pkt[1]) /\ loc[c].dy = Signed(mouse.pkt[2])
    <3>1. /\ Complete(n, k) /\ mouse.phase = 0
          /\ loc[c].dx = Signed(mouse.pkt[1]) /\ loc[c].dy = Signed(mouse.pkt[2])
      <4>1. Moving(c)
        BY <2>1 DEF Moving
      <4> QED BY <1>2, <4>1 DEF PacketStage
    <3>2. /\ Lead + 3 * k + 0 + 1 = Lead + 3 * k + 1 /\ Lead + 3 * k + 1 + 1 = Lead + 3 * k + 2
          /\ Lead + 3 * k + 2 + 1 = Lead + 3 * k + 3
      BY <1>0, <1>3
    <3>3. 0 \in 0 .. 2 /\ 1 \in 0 .. 2 /\ 2 \in 0 .. 2
      OBVIOUS
    <3> QED BY <3>1, <3>2, <3>3 DEF Complete
  <2>3. AsRead(k + 1) = <<mouse.pkt[0], loc[c].dx, loc[c].dy>>
    BY <1>0, <1>3, <2>2, NextRead
  <2>4. <<mouse.pkt[0], loc[c].dx, loc[c].dy>> \in Motion
    <3>1. mouse.pkt[0] \in 0 .. 255 /\ loc[c].dx \in Int /\ loc[c].dy \in Int
      BY <1>0 DEF MouseState, Frame
    <3> QED BY <3>1 DEF Motion
  <2>5. /\ applied' \in Seq(Motion) /\ Len(applied') = k + 1
        /\ \A j \in 1 .. k + 1 : applied'[j] = IF j = k + 1 THEN AsRead(k + 1) ELSE applied[j]
    BY <1>0, <2>1, <2>3, <2>4, Appended
  <2>6. \A j \in 1 .. Len(applied') : applied'[j] = AsRead(j)'
    BY <1>0, <1>4, <2>5 DEF PacketStages
  <2>7. Gathered(n, mouse.phase, k)'
    BY <1>0, <1>3, <2>1, <2>2, <2>5 DEF Gathered
  <2>8. PacketStage(c, n, k)'
    BY <2>1, <2>7 DEF PacketStage, Resting, Moving
  <2>9. Lead' + 3 * Len(applied') <= Len(fed')
    BY <1>0, <1>3, <2>2, <2>5
  <2> QED BY <1>0, <1>1, <2>5, <2>6, <2>8, <2>9, OneStage DEF PacketStages
(* The work on the block keeps what has been gathered.                     *)
<1>12. ASSUME mouse'.phase = mouse.phase, mouse'.pkt = mouse.pkt, applied' = applied,
              \/ Resting(c) /\ Resting(c)'
              \/ Moving(c) /\ Moving(c)' /\ loc' = loc
       PROVE  PacketStages'
  <2>1. Gathered(n, mouse.phase, k)' <=> Gathered(n, mouse.phase, k)
    BY <1>3, <1>12 DEF Gathered
  <2>2. Complete(n, k)' <=> Complete(n, k)
    BY <1>3, <1>12 DEF Complete
  <2>3. PacketStage(c, n, k)'
    BY <1>2, <1>12, <2>1, <2>2 DEF PacketStage, Resting, Moving
  <2> QED BY <1>5, <1>12, <2>3
<1>13. CASE MoveX(c) \/ MoveY(c) \/ ClampX(c) \/ ClampY(c)
  <2> USE DEF MoveX, MoveY, ClampX, ClampY
  <2>1. mouse'.phase = mouse.phase /\ mouse'.pkt = mouse.pkt /\ applied' = applied
    BY <1>0, <1>13 DEF MouseState
  <2>2. Resting(c) /\ Resting(c)'
    BY <1>0, <1>13 DEF Resting
  <2> QED BY <1>12, <2>1, <2>2
<1>14. CASE RestoreCell(c) \/ ClearShown(c)
  <2> USE DEF RestoreCell, ClearShown, HiddenNext
  <2>1. mouse'.phase = mouse.phase /\ mouse'.pkt = mouse.pkt /\ applied' = applied /\ loc' = loc
    BY <1>0, <1>14 DEF MouseState
  <2>2. /\ loc[c].job \in {"feed", "paint"} /\ pc[c] \in {"hide", "hidden"}
        /\ pc'[c] \in {"hidden", IF loc[c].job = "feed" THEN "button" ELSE "paint"}
    BY <1>0, <1>14 DEF Frame
  <2>3. \/ Resting(c) /\ Resting(c)'
        \/ Moving(c) /\ Moving(c)' /\ loc' = loc
    BY <2>1, <2>2 DEF Resting, Moving
  <2> QED BY <1>12, <2>1, <2>3
<1>15. CASE mouse_draw(c) \/ PaintCell(c)
  <2> USE DEF mouse_draw, SaveCell, DrawBlock, SetShown, PaintCell
  <2>1. mouse'.phase = mouse.phase /\ mouse'.pkt = mouse.pkt /\ applied' = applied
    BY <1>0, <1>15 DEF MouseState
  <2>2. Resting(c) /\ Resting(c)'
    BY <1>0, <1>15 DEF Resting
  <2> QED BY <1>12, <2>1, <2>2
<1> QED
  BY <1>6, <1>7, <1>8, <1>9, <1>10, <1>11, <1>13, <1>14, <1>15 DEF MouseStep, mouse_feed, mouse_hide

LEMMA PacketStart ==
  ASSUME MouseTypeOK, NEW c \in Contexts, ~Busy("program"), ~Busy("irq"), PacketStages,
         moved \in Seq(Codes), UNCHANGED <<mouse, applied, moved>>, NEW t \in {"feed", "hide"},
         pc' = [pc EXCEPT ![c] = t], Len(fed) \in Nat, Len(fed') \in Nat,
         t = "feed" => /\ loc'[c].job = "feed" /\ loc'[c].b = moved[Len(fed')]
                       /\ Len(fed') = Len(fed) + 1,
         t = "hide" => loc'[c].job = "paint" /\ Len(fed') = Len(fed)
  PROVE  PacketStages'
<1>0. /\ pc \in [Contexts -> Labels] /\ Lead \in Nat /\ Lead' = Lead
      /\ applied \in Seq(Motion) /\ Len(applied) \in Nat
  BY LeadFacts DEF MouseTypeOK, Lead, PacketStages
<1>1. Gathered(Len(fed), mouse.phase, Len(applied))
  BY DEF PacketStages, PacketStage, Resting, Busy, Contexts, Other
<1>2. pc'[c] = t /\ pc'[Other(c)] = pc[Other(c)] /\ ~Busy(Other(c))
  BY <1>0, OthersIdle DEF Busy, Contexts, Other
<1>3. ASSUME t = "feed" PROVE PacketStage(c, Len(fed), Len(applied))'
  <2>1. Len(fed') - 1 = Len(fed) /\ Len(fed') > 0
    BY <1>3
  <2>2. Gathered(Len(fed) - 1, mouse.phase, Len(applied))'
    BY <1>0, <1>1, <2>1 DEF Gathered
  <2> QED BY <1>2, <1>3, <2>1, <2>2 DEF PacketStage, Resting, Moving
<1>4. ASSUME t = "hide" PROVE PacketStage(c, Len(fed), Len(applied))'
  <2>1. Gathered(Len(fed), mouse.phase, Len(applied))'
    BY <1>0, <1>1, <1>4 DEF Gathered
  <2> QED BY <1>2, <1>4, <2>1 DEF PacketStage, Resting, Moving
<1>5. PacketStage(c, Len(fed), Len(applied))'
  BY <1>3, <1>4
<1>6. \A d \in Contexts : ~Busy(Other(d))' => PacketStage(d, Len(fed), Len(applied))'
  BY <1>0, <1>2, <1>5, OneStage
<1>7. \A j : AsRead(j)' = AsRead(j)
  BY <1>0 DEF AsRead, Nth
<1>8. Len(fed) <= Len(fed')
  BY <1>3, <1>4
<1>9. Len(applied') = 0 \/ Lead' + 3 * Len(applied') <= Len(fed')
  BY <1>0, <1>8 DEF PacketStages
<1> QED BY <1>0, <1>6, <1>7, <1>9 DEF PacketStages

LEMMA PacketStep ==
  ASSUME InputTyped, BytesInv, OrderInv, OrderInv', OverlayInv, Framed(moved), PacketInv, [Next]_vars
  PROVE  PacketInv'
<1> SUFFICES ASSUME ~raced' PROVE PacketStages'
  BY DEF PacketInv
<1>0. /\ TypeOK /\ MouseTypeOK /\ ReaderInv
      /\ hpc # "body" => ~Busy("irq")
      /\ pc \in [Contexts -> Labels] /\ loc \in [Contexts -> Frame]
      /\ moved \in Seq(Codes) /\ fed \in Seq(Nat) /\ Len(fed) \in Nat
  BY DEF InputTyped, TypeOK, HwTypeOK, MouseTypeOK, BytesInv
<1>a. ~raced => PacketStages /\ OverlayStages
  BY DEF PacketInv, OverlayInv
<1>b. Len(fed) \in 0 .. Len(moved)
  <2>1. msent \in 0 .. Len(moved) /\ msent = Len(fed) + Mice(Taken) + Mice(obf)
    BY DEF InputTyped, TypeOK, HwTypeOK, BytesInv
  <2> QED BY <1>0, <2>1, MouseCount
<1>1. ASSUME ~raced, UNCHANGED <<mouse, pc, loc, applied, fed, moved>> PROVE PacketStages'
  <2>1. \A n, ph, k : Gathered(n, ph, k)' <=> Gathered(n', ph', k')
    BY <1>1 DEF Gathered, Lead
  <2>2. UNCHANGED <<PacketStages>>
    BY <1>1 DEF PacketStages, PacketStage, Gathered, Complete, Resting, Moving, AsRead, Nth, Lead, Busy
  <2> QED BY <1>a, <1>1, <2>2
<1>2. CASE Hardware
  BY <1>1, <1>2 DEF Hardware, KeySend, MouseSend, mouseVars, progVars
<1>3. CASE \/ \E r \in UsedReaders : CallReader(r)
           \/ Poll \/ TimeOut \/ Cli \/ ReadStatus \/ ReadByte \/ Sti \/ SortKey
  BY <1>1, <1>3
  DEF CallReader, Poll, TimeOut, Cli, ReadStatus, ReadByte, Sti, SortKey, mouseVars, hwVars
<1>4. CASE \E cell \in Cells, s \in Symbols : ConsoleWrite(cell, s)
  BY <1>1, <1>4 DEF ConsoleWrite, hwVars
<1>5. ASSUME NEW cell \in Cells, NEW s \in Symbols, WindowPaint(cell, s) PROVE PacketStages'
  <2>1. /\ ~raced /\ ~Busy("program") /\ ~Busy("irq") /\ UNCHANGED <<mouse, applied, moved, fed>>
        /\ pc' = [pc EXCEPT !["program"] = "hide"]
    BY <1>0, <1>5 DEF WindowPaint, ProgramAt, ProgramRuns, StartPaint, Goto, hwVars
  <2>2. loc'["program"].job = "paint"
    BY <1>0, <1>5 DEF WindowPaint, StartPaint, Idle, Contexts
  <2> QED BY <1>0, <1>a, <2>1, <2>2, PacketStart DEF Contexts
<1>6. CASE SortMouse
  <2>1. /\ ~raced /\ ~Busy("program") /\ ~Busy("irq") /\ UNCHANGED <<mouse, applied, moved>>
        /\ pc' = [pc EXCEPT !["program"] = "feed"]
    BY <1>0, <1>6 DEF SortMouse, Move, ProgramAt, ProgramRuns, StartFeed, Goto, hwVars
  <2>2. loc'["program"].job = "feed" /\ loc'["program"].b = byte.v
    BY <1>0, <1>6 DEF SortMouse, StartFeed, Idle, Contexts
  <2>3. Taken = byte /\ IsMouse(Taken) /\ fed' = Append(fed, byte.n)
    BY <1>0, <1>6 DEF SortMouse, Move, ProgramAt, Taken, IsMouse, ReaderInv
  <2>4. byte.n = Len(fed) + 1 /\ byte.v = moved[Len(fed) + 1]
    BY <2>1, <2>3 DEF OrderInv, BytesInv, Unspent
  <2>5. Len(fed') = Len(fed) + 1
    BY <1>0, <2>3, <2>4
  <2> QED BY <1>0, <1>a, <2>1, <2>2, <2>4, <2>5, PacketStart DEF Contexts
<1>7. ASSUME NEW c \in Contexts, MouseStep(c), UNCHANGED <<hwVars, progVars>> PROVE PacketStages'
  <2>1. Busy(c) /\ ~raced
    BY <1>0, <1>7, OneMoves DEF progVars
  <2>2. ~Busy(Other(c))
    BY <1>a, <2>1 DEF OverlayStages, Other, Contexts
  <2>3. UNCHANGED <<moved, fed>>
    BY <1>7 DEF hwVars, progVars
  <2> QED BY <1>0, <1>a, <1>b, <1>7, <2>1, <2>2, <2>3, MouseStepPackets
<1>8. CASE Interrupt \/ Iret
  BY <1>1, <1>8 DEF Interrupt, Iret, mouseVars, hwVars
<1>9. CASE mouse_irq
  <2>1. CASE FullAux
    <3>1. /\ ~raced /\ ~Busy("program") /\ ~Busy("irq") /\ UNCHANGED <<mouse, applied, moved>>
          /\ pc' = [pc EXCEPT !["irq"] = "feed"]
      BY <1>0, <1>9, <2>1 DEF mouse_irq, ProgramHolds, StartFeed, Goto
    <3>2. loc'["irq"].job = "feed" /\ loc'["irq"].b = obf.v /\ fed' = Append(fed, obf.n)
      BY <1>0, <1>9, <2>1 DEF mouse_irq, StartFeed, Idle, Contexts
    <3>3. obf.n = msent /\ msent \in Nat /\ obf.v = moved[obf.n]
      BY <2>1 DEF FullAux, Full, BytesInv, Unspent, IsMouse, InputTyped, TypeOK, HwTypeOK
    <3>4. Len(fed') = Len(fed) + 1 /\ fed'[Len(fed) + 1] = obf.n
      BY <1>0, <3>2, <3>3, Appended
    <3>5. obf.n = Len(fed) + 1
      BY <1>0, <3>4 DEF OrderInv
    <3> QED BY <1>0, <1>a, <3>1, <3>2, <3>3, <3>4, <3>5, PacketStart DEF Contexts
  <2>2. CASE ~FullAux
    BY <1>1, <1>9, <2>2 DEF mouse_irq
  <2> QED BY <2>1, <2>2
<1>10. CASE UNCHANGED vars
  BY <1>1, <1>10 DEF vars, hwVars, mouseVars, progVars
<1> QED
  BY <1>2, <1>3, <1>4, <1>5, <1>6, <1>7, <1>8, <1>9, <1>10
  DEF Next, Program, Handler, ReaderStep, Pause, InMouseCode, InHandler, Contexts

LEMMA PacketsFollow ==
  ASSUME InputTyped, BytesInv, PacketInv
  PROVE  PacketsIntactUnlessRaced
<1> SUFFICES ASSUME PacketStages PROVE PacketsIntact
  BY DEF PacketInv, PacketsIntactUnlessRaced
<1> DEFINE k == Len(applied)
           m == (Len(moved) - Lead) \div 3
           S == {Packet(j) : j \in 1 .. m}
<1>1. /\ moved \in Seq(Codes) /\ fed \in Seq(Nat) /\ Len(fed) \in Nat /\ Len(moved) \in Nat
      /\ msent \in 0 .. Len(moved) /\ msent = Len(fed) + Mice(Taken) + Mice(obf)
      /\ applied \in Seq(Motion) /\ k \in Nat
  BY DEF InputTyped, TypeOK, HwTypeOK, BytesInv, PacketStages
<1>2. Len(fed) <= Len(moved)
  BY <1>1, MouseCount
<1>3. Lead \in 0 .. Len(moved)
  BY <1>1, LeadFacts DEF LeadOf
<1>4. k = 0 \/ Lead + 3 * k <= Len(moved)
  BY <1>1, <1>2, <1>3 DEF PacketStages
<1>5. m \in Nat /\ k <= m
  BY <1>1, <1>3, <1>4
<1>6. /\ Packets \in Seq(S) /\ Len(Packets) = m
      /\ \A j \in 1 .. m : Packets[j] = Packet(j)
  <2>1. Packets = [j \in 1 .. m |-> Packet(j)]
    BY DEF Packets
  <2>2. \A j \in 1 .. m : Packet(j) \in S
    OBVIOUS
  <2> HIDE DEF S, m
  <2> QED BY <1>5, <2>1, <2>2
<1>7. ASSUME NEW j \in DOMAIN applied
      PROVE  /\ applied[j][1] = Packets[j][1]
             /\ \A i \in 2 .. 3 : Packets[j][i] \in -128 .. 127 => applied[j][i] = Packets[j][i]
  <2>1. j \in 1 .. k /\ j \in 1 .. m /\ applied[j] = AsRead(j) /\ Packets[j] = Packet(j)
    BY <1>1, <1>5, <1>6, <1>7 DEF PacketStages
  <2>2. /\ Lead + (3 * j - 2) \in 1 .. Len(moved) /\ Lead + (3 * j - 1) \in 1 .. Len(moved)
        /\ Lead + 3 * j \in 1 .. Len(moved)
    BY <1>1, <1>3, <2>1
  <2>3. Nth(3 * j - 2) \in 0 .. 255 /\ Nth(3 * j - 1) \in 0 .. 255 /\ Nth(3 * j) \in 0 .. 255
    <3>0. moved \in Seq(Codes)
      BY <1>1
    <3>1. \A i \in 1 .. Len(moved) : moved[i] \in Codes
      BY <3>0, ElementOfSeq
    <3> QED BY <2>2, <3>1 DEF Nth, Codes
  <2>4. ASSUME NEW b \in 0 .. 255, NEW sign, NineBits(sign, b) \in -128 .. 127
        PROVE  Signed(b) = NineBits(sign, b)
    BY <2>4 DEF NineBits, Signed
  <2> DEFINE x == Nth(3 * j - 1)
             y == Nth(3 * j)
             r == Nth(3 * j - 2)
  <2>5. /\ applied[j][1] = r /\ applied[j][2] = Signed(x) /\ applied[j][3] = Signed(y)
        /\ Packets[j][1] = r /\ Packets[j][2] = NineBits(r \div 16, x)
        /\ Packets[j][3] = NineBits(r \div 32, y)
    BY <2>1 DEF AsRead, Packet
  <2> HIDE DEF x, y, r
  <2>6. \A i \in 2 .. 3 : i = 2 \/ i = 3
    OBVIOUS
  <2>7. x \in 0 .. 255 /\ y \in 0 .. 255
    BY <2>3 DEF x, y
  <2>8. Packets[j][2] \in -128 .. 127 => applied[j][2] = Packets[j][2]
    BY <2>4, <2>5, <2>7
  <2>9. Packets[j][3] \in -128 .. 127 => applied[j][3] = Packets[j][3]
    BY <2>4, <2>5, <2>7
  <2> QED BY <2>5, <2>6, <2>8, <2>9
<1> QED BY <1>5, <1>6, <1>7 DEF PacketsIntact

(* The packets applied are those the mouse has sent, in order, with button *)
(* and motion, as far as the motion fits in eight bits, as long as the     *)
(* handler feeds no byte between the moment when a reader takes one    *)
(* and the return of its mouse_feed, of a mouse that sets bit 3 of the     *)
(* first byte of each packet (mouse.c:92-112).                             *)
THEOREM InputPacketsIntact ==
  ASSUME \A s \in MouseStreams : Framed(s)
  PROVE  Spec => []PacketsIntactUnlessRaced
<1>1. Init => PositionInv /\ OverlayInv
  <2> SUFFICES ASSUME Init PROVE PositionInv /\ OverlayInv
    OBVIOUS
  <2>1. PositionInv
    BY ScreenAssumption DEF Init, MouseInit, PositionInv, Contexts
  <2>2. /\ \A c \in Contexts : pc[c] = "idle"
        /\ vga = text /\ ~mouse.shown
    BY DEF Init, MouseInit
  <2>3. Covered
    BY <2>2 DEF Covered
  <2>4. OverlayStages
    BY <2>2, <2>3 DEF OverlayStages, OverlayStage, Busy, Contexts
  <2> QED BY <2>1, <2>4 DEF OverlayInv
<1>2. Init => Framed(moved)
  BY DEF Init, HwInit
<1>3. Framed(moved) /\ InputTyped /\ [Next]_vars => Framed(moved)'
  <2> SUFFICES ASSUME InputTyped, [Next]_vars PROVE moved' = moved
    BY DEF Framed, LeadOf
  <2> QED
    BY ByteSteps
    DEF SendsKey, SendsMouse, Takes, ReaderScans, ReaderFeeds, HandlerFeeds, BytesStay
<1>4. Init => PacketInv
  <2> SUFFICES ASSUME Init PROVE PacketStages
    BY DEF PacketInv
  <2>1. /\ \A c \in Contexts : pc[c] = "idle"
        /\ mouse.phase = 0 /\ applied = << >> /\ fed = << >> /\ moved \in Seq(Codes)
    BY StreamAssumption DEF Init, MouseInit, HwInit
  <2>2. Gathered(Len(fed), mouse.phase, Len(applied))
    BY <2>1, LeadFacts DEF Gathered
  <2> QED BY <2>1, <2>2 DEF PacketStages, PacketStage, Resting, Moving
<1> QED
  BY InputTypedInit, InputTypedStep, PositionStep, OverlayStep, RouteInit, BytesStep, OrderStep,
     PacketStep, PacketsFollow, <1>1, <1>2, <1>3, <1>4, PTL
  DEF Spec

-----------------------------------------------------------------------------
(* Shift.  One of the two Shift keys is used, and no code of it is the     *)
(* second of an E0 pair.                                                   *)
ShiftCode(k, sc) == sc \in {k, k + Release}

OneShift(s) ==
  \E k \in ShiftKeys : \A i \in 1 .. Len(s) : \A l \in ShiftKeys :
    ShiftCode(l, s[i]) => l = k /\ (i = 1 \/ s[i - 1] # E0)

(* The state of a reader that has decoded all the codes so far.            *)
ShiftInv ==
  \A r \in Readers : decoders \subseteq {r} =>
    /\ kst[r].shift <=> HeldAfter(Len(scanned))
    /\ kst[r].ext <=> Len(scanned) > 0 /\ typed[Len(scanned)] = E0

(* What one more code does to the key held.                                *)
LEMMA HeldNext ==
  ASSUME NEW n \in Nat, NEW k \in ShiftKeys,
         \A i \in 1 .. n + 1 : \A l \in ShiftKeys : ShiftCode(l, typed[i]) => l = k
  PROVE  /\ typed[n + 1] = k => HeldAfter(n + 1)
         /\ typed[n + 1] = k + Release => ~HeldAfter(n + 1)
         /\ ~ShiftCode(k, typed[n + 1]) => (HeldAfter(n + 1) <=> HeldAfter(n))
<1>0. n + 1 \in 1 .. n + 1 /\ \A i \in 1 .. n : i \in 1 .. n + 1
  OBVIOUS
<1>a. /\ k \in {42, 54} /\ k # k + Release
      /\ \A j : ShiftCode(k, j) <=> (j = k \/ j = k + Release)
  BY DEF ShiftKeys, Release, ShiftCode
<1>1. ASSUME typed[n + 1] = k PROVE HeldAfter(n + 1)
  <2>1. \A j \in n + 1 .. n + 1 : typed[j] # k + Release
    BY <1>1, <1>a
  <2> QED BY <1>0, <1>1, <2>1 DEF HeldAfter
<1>2. ASSUME typed[n + 1] = k + Release, HeldAfter(n + 1) PROVE FALSE
  <2>1. PICK l \in ShiftKeys, i \in 1 .. n + 1 :
          typed[i] = l /\ \A j \in i .. n + 1 : typed[j] # l + Release
    BY <1>2 DEF HeldAfter
  <2>2. l = k
    BY <2>1 DEF ShiftCode
  <2>3. n + 1 \in i .. n + 1
    OBVIOUS
  <2> QED BY <1>2, <2>1, <2>2, <2>3
<1>3. ASSUME ~ShiftCode(k, typed[n + 1]), HeldAfter(n) PROVE HeldAfter(n + 1)
  <2>1. PICK l \in ShiftKeys, i \in 1 .. n :
          typed[i] = l /\ \A j \in i .. n : typed[j] # l + Release
    BY <1>3 DEF HeldAfter
  <2>2. l = k
    BY <1>0, <2>1 DEF ShiftCode
  <2>3. typed[n + 1] # l + Release
    BY <1>3, <1>a, <2>2
  <2>4. \A j \in i .. n + 1 : typed[j] # l + Release
    <3> SUFFICES ASSUME NEW j \in i .. n + 1 PROVE typed[j] # l + Release
      OBVIOUS
    <3>1. j \in i .. n \/ j = n + 1
      OBVIOUS
    <3> QED BY <2>1, <2>3, <3>1
  <2> QED BY <1>0, <2>1, <2>4 DEF HeldAfter
<1>4. ASSUME ~ShiftCode(k, typed[n + 1]), HeldAfter(n + 1) PROVE HeldAfter(n)
  <2>1. PICK l \in ShiftKeys, i \in 1 .. n + 1 :
          typed[i] = l /\ \A j \in i .. n + 1 : typed[j] # l + Release
    BY <1>4 DEF HeldAfter
  <2>2. l = k
    BY <2>1 DEF ShiftCode
  <2>3. i # n + 1
    BY <1>4, <1>a, <2>1, <2>2
  <2>4. i \in 1 .. n /\ \A j \in i .. n : j \in i .. n + 1
    BY <2>3
  <2> QED BY <2>1, <2>4 DEF HeldAfter
<1> QED BY <1>1, <1>2, <1>3, <1>4

LEMMA SortKeyOnly ==
  ASSUME InputTyped, [Next]_vars
  PROVE  \/ SortKey
         \/ UNCHANGED <<typed, scanned, decoders, kst, keys>>
<1>1. CASE Hardware
  BY <1>1 DEF Hardware, KeySend, MouseSend, progVars
<1>2. CASE \E r \in UsedReaders : CallReader(r)
  BY <1>2 DEF CallReader, hwVars
<1>3. CASE \E cell \in Cells, s \in Symbols : ConsoleWrite(cell, s) \/ WindowPaint(cell, s)
  BY <1>3 DEF ConsoleWrite, WindowPaint, hwVars
<1>4. CASE Poll \/ TimeOut \/ Cli \/ ReadStatus \/ ReadByte \/ Sti \/ SortMouse
  BY <1>4 DEF Poll, TimeOut, Cli, ReadStatus, ReadByte, Sti, SortMouse, hwVars
<1>5. CASE InMouseCode \/ InHandler \/ UNCHANGED vars
  BY <1>5 DEF InMouseCode, InHandler, vars, hwVars, progVars
<1>6. CASE Interrupt \/ mouse_irq \/ Iret
  BY <1>6 DEF Interrupt, mouse_irq, Iret, hwVars
<1> QED BY <1>1, <1>2, <1>3, <1>4, <1>5, <1>6 DEF Next, Program, Handler, ReaderStep, Pause

(* The codes that make a key are not codes of Shift.                       *)
LEMMA KeyCodes ==
  ASSUME NEW r \in Readers, NEW st \in [shift : BOOLEAN, ext : BOOLEAN], NEW sc \in Codes,
         Decoded(r, st, sc) # NoKey
  PROVE  /\ \A l \in ShiftKeys : ~ShiftCode(l, sc)
         /\ Decoded(r, st, sc).shift = st.shift
<1> USE DEF ShiftKeys, Release, ShiftCode, E0, Arrows
<1>0. Named(r) \subseteq {28, 14, 1, 60}
  BY DEF Named, EnterKey, BackKey, EscKey, F2Key
<1>1. CASE sc # E0 /\ st.ext /\ sc \in Arrows
  BY <1>1 DEF Decoded
<1>2. CASE sc # E0 /\ ~st.ext /\ sc \in Named(r)
  BY <1>0, <1>2 DEF Decoded
<1>3. CASE sc # E0 /\ ~st.ext /\ sc < Release /\ sc \notin ShiftKeys \cup Named(r)
  BY <1>3 DEF Decoded, kbd_map
<1>4. CASE sc = E0
  BY <1>4 DEF Decoded
<1> QED BY <1>1, <1>2, <1>3, <1>4 DEF Decoded

(* The code a reader is about to decode.                                   *)
LEMMA CodeTaken ==
  ASSUME InputTyped, KeysInv, SortKey
  PROVE  /\ Len(scanned) \in Nat /\ Len(scanned) + 1 \in 1 .. Len(typed)
         /\ byte.v = typed[Len(scanned) + 1] /\ byte.v \in Codes
         /\ Len(scanned') = Len(scanned) + 1 /\ typed' = typed
<1>0. /\ typed \in Seq(Codes) /\ scanned \in Seq(Codes) /\ Len(scanned) \in Nat
      /\ ksent \in 0 .. Len(typed) /\ byte \in Byte \cup {NoByte}
  BY DEF InputTyped, TypeOK, HwTypeOK, KeysInv
<1>1. /\ Taken = byte /\ byte # NoByte /\ byte.aux = FALSE /\ byte \in Byte
  BY <1>0 DEF SortKey, ProgramAt, InputTyped, ReaderInv, Taken, Byte
<1>2. IsKey(Taken)
  BY <1>1 DEF IsKey
<1>3. ksent = Len(scanned) + 1 + Keys(obf) /\ byte.v = typed[Len(scanned) + 1]
  BY <1>1, <1>2, KeyCount DEF KeysInv
<1>4. Len(scanned) + 1 \in 1 .. Len(typed)
  BY <1>0, <1>3, KeyCount
<1>5. byte.v \in Codes
  BY <1>0, <1>3, <1>4, ElementOfSeq
<1>6. Len(scanned') = Len(scanned) + 1 /\ typed' = typed
  BY <1>0, <1>5 DEF SortKey, hwVars
<1> QED BY <1>0, <1>3, <1>4, <1>5, <1>6

LEMMA ShiftStep ==
  ASSUME InputTyped, KeysInv, OneShift(typed), ShiftInv, [Next]_vars
  PROVE  ShiftInv'
<1>0. kst \in [Readers -> [shift : BOOLEAN, ext : BOOLEAN]] /\ reader \in Readers
  BY DEF InputTyped, TypeOK
<1>1. CASE UNCHANGED <<typed, scanned, decoders, kst, keys>>
  BY <1>1 DEF ShiftInv, HeldAfter
<1>2. CASE SortKey
  <2> DEFINE n == Len(scanned)
             sc == byte.v
  <2> SUFFICES ASSUME decoders' \subseteq {reader}
               PROVE  /\ kst'[reader].shift <=> HeldAfter(n + 1)
                      /\ kst'[reader].ext <=> typed[n + 1] = E0
    <3>1. reader \in decoders'
      BY <1>2 DEF SortKey
    <3>2. \A r \in Readers : decoders' \subseteq {r} => r = reader
      BY <3>1
    <3>3. HeldAfter(Len(scanned))' <=> HeldAfter(n + 1)
      BY <1>2, CodeTaken DEF HeldAfter
    <3>4. Len(scanned)' > 0 /\ typed'[Len(scanned')] = typed[n + 1]
      BY <1>2, CodeTaken
    <3> QED BY <3>2, <3>3, <3>4 DEF ShiftInv
  <2>1. /\ n \in Nat /\ n + 1 \in 1 .. Len(typed) /\ Len(typed) \in Nat
        /\ sc = typed[n + 1] /\ sc \in Codes
    BY <1>2, CodeTaken
  <2>2. /\ kst[reader].shift <=> HeldAfter(n)
        /\ kst[reader].ext <=> n > 0 /\ typed[n] = E0
    <3>1. decoders \subseteq {reader}
      BY <1>2 DEF SortKey
    <3> QED BY <1>0, <3>1 DEF ShiftInv
  <2>3. kst'[reader] = After(kst[reader], sc)
    BY <1>0, <1>2 DEF SortKey
  <2>4. PICK k \in ShiftKeys : \A i \in 1 .. Len(typed) : \A l \in ShiftKeys :
          ShiftCode(l, typed[i]) => l = k /\ (i = 1 \/ typed[i - 1] # E0)
    BY DEF OneShift
  <2>5. \A i \in 1 .. n + 1 : \A l \in ShiftKeys : ShiftCode(l, typed[i]) => l = k
    BY <2>1, <2>4
  <2>6. /\ sc = k => HeldAfter(n + 1)
        /\ sc = k + Release => ~HeldAfter(n + 1)
        /\ ~ShiftCode(k, sc) => (HeldAfter(n + 1) <=> HeldAfter(n))
    BY <2>1, <2>5, HeldNext
  <2>7. ShiftCode(k, sc) => ~kst[reader].ext
    <3>1. SUFFICES ASSUME ShiftCode(k, sc), n > 0, typed[n] = E0 PROVE FALSE
      BY <2>2
    <3>2. n + 1 = 1 \/ typed[n + 1 - 1] # E0
      BY <2>1, <2>4, <3>1
    <3> QED BY <2>1, <3>1, <3>2
  <2>8. /\ k \in {42, 54} /\ ShiftKeys = {42, 54}
        /\ \A l \in ShiftKeys : l # k => ~ShiftCode(l, sc)
    BY <2>1, <2>5 DEF ShiftKeys
  <2>9. kst[reader].shift \in BOOLEAN /\ kst[reader].ext \in BOOLEAN
    BY <1>0
  <2>10. kst'[reader].ext <=> typed[n + 1] = E0
    <3>1. After(kst[reader], sc).ext = (sc = E0)
      BY Zenon DEF After
    <3> QED BY <2>1, <2>3, <3>1
  <2>11. kst'[reader].shift <=> HeldAfter(n + 1)
    <3>1. CASE sc = k
      <4>1. kst'[reader].shift = TRUE
        BY <2>3, <2>7, <2>8, <3>1 DEF After, ShiftCode, E0
      <4> QED BY <2>6, <3>1, <4>1
    <3>2. CASE sc = k + Release
      <4>1. kst'[reader].shift = FALSE
        BY <2>1, <2>3, <2>7, <2>8, <3>2 DEF After, ShiftCode, E0, Release
      <4> QED BY <2>6, <3>2, <4>1
    <3>3. CASE ~ShiftCode(k, sc)
      <4>1. sc \notin ShiftKeys /\ sc - Release \notin ShiftKeys
        BY <2>1, <2>8, <3>3 DEF ShiftCode, Release, Codes
      <4>2. kst'[reader].shift = kst[reader].shift
        BY <2>3, <4>1 DEF After
      <4> QED BY <2>2, <2>6, <3>3, <4>2
    <3> QED BY <3>1, <3>2, <3>3 DEF ShiftCode
  <2> QED BY <2>10, <2>11
<1> QED BY <1>1, <1>2, SortKeyOnly

(* The keys returned by a step.                                            *)
ShiftRight ==
  \A i \in 1 .. Len(keys') : i > Len(keys) /\ Cardinality(decoders') = 1 =>
    keys'[i].shift = HeldAfter(Len(scanned'))

DecodedInv == decoders \subseteq Readers /\ keys \in Seq([code : Int, ext : BOOLEAN, shift : BOOLEAN])

LEMMA DecodedKey ==
  ASSUME NEW r \in Readers, NEW st \in [shift : BOOLEAN, ext : BOOLEAN], NEW sc \in Codes
  PROVE  Decoded(r, st, sc) \in [code : Int, ext : BOOLEAN, shift : BOOLEAN]
BY DEF Decoded, kbd_map, NoKey, Codes

LEMMA DecodedStep ==
  ASSUME InputTyped, KeysInv, DecodedInv, [Next]_vars
  PROVE  DecodedInv'
<1>0. kst \in [Readers -> [shift : BOOLEAN, ext : BOOLEAN]] /\ reader \in Readers
  BY DEF InputTyped, TypeOK
<1>1. CASE UNCHANGED <<typed, scanned, decoders, kst, keys>>
  BY <1>1 DEF DecodedInv
<1>2. CASE SortKey
  <2>1. byte.v \in Codes
    BY <1>2, CodeTaken
  <2>2. Decoded(reader, kst[reader], byte.v) \in [code : Int, ext : BOOLEAN, shift : BOOLEAN]
    BY <1>0, <2>1, DecodedKey
  <2>3. decoders' \subseteq Readers
    BY <1>0, <1>2 DEF SortKey, DecodedInv
  <2>4. keys' \in {keys, Append(keys, Decoded(reader, kst[reader], byte.v))}
    BY <1>2 DEF SortKey
  <2>5. Append(keys, Decoded(reader, kst[reader], byte.v))
          \in Seq([code : Int, ext : BOOLEAN, shift : BOOLEAN])
    BY <2>2, Appended DEF DecodedInv
  <2> QED BY <2>3, <2>4, <2>5 DEF DecodedInv
<1> QED BY <1>1, <1>2, SortKeyOnly

LEMMA ShiftFollows ==
  ASSUME InputTyped, KeysInv, DecodedInv, OneShift(typed), ShiftInv, [Next]_vars
  PROVE  ShiftRight
<1>0. kst \in [Readers -> [shift : BOOLEAN, ext : BOOLEAN]] /\ reader \in Readers
  BY DEF InputTyped, TypeOK
<1>1. CASE UNCHANGED <<typed, scanned, decoders, kst, keys>>
  BY <1>1 DEF ShiftRight, DecodedInv
<1>2. CASE SortKey
  <2> DEFINE n == Len(scanned)
             key == Decoded(reader, kst[reader], byte.v)
  <2>1. /\ n \in Nat /\ n + 1 \in 1 .. Len(typed) /\ Len(typed) \in Nat
        /\ byte.v = typed[n + 1] /\ byte.v \in Codes
        /\ Len(scanned') = n + 1 /\ typed' = typed
    BY <1>2, CodeTaken
  <2> HIDE DEF key
  <2> SUFFICES ASSUME NEW i \in 1 .. Len(keys'), i > Len(keys), Cardinality(decoders') = 1
               PROVE  keys'[i].shift = HeldAfter(Len(scanned'))
    BY DEF ShiftRight
  <2>2. key # NoKey /\ keys' = Append(keys, key)
    BY <1>2 DEF SortKey, DecodedInv, key
  <2>3. keys'[i] = key
    <3>1. key \in [code : Int, ext : BOOLEAN, shift : BOOLEAN]
      BY <1>0, <2>1, DecodedKey DEF key
    <3>2. Len(keys') = Len(keys) + 1 /\ keys'[Len(keys) + 1] = key /\ Len(keys) \in Nat
      BY <2>2, <3>1, Appended DEF DecodedInv
    <3> QED BY <3>2
  <2>4. /\ key.shift = kst[reader].shift
        /\ \A l \in ShiftKeys : ~ShiftCode(l, byte.v)
    BY <1>0, <2>1, <2>2, KeyCodes DEF key
  <2>5. decoders' = {reader} /\ decoders \subseteq {reader}
    <3>1. decoders' = decoders \cup {reader} /\ decoders' \subseteq Readers
      BY <1>0, <1>2 DEF SortKey, DecodedInv
    <3>2. IsFiniteSet(decoders')
      <4>1. IsFiniteSet({"kbd_getchar"})
        BY FS_Singleton
      <4>2. IsFiniteSet({"kbd_getchar"} \cup {"div_getkey"})
        BY <4>1, FS_AddElement
      <4>3. decoders' \in SUBSET ({"kbd_getchar"} \cup {"div_getkey"})
        BY <3>1 DEF Readers
      <4> QED BY <4>2, <4>3, FS_Subset
    <3>3. \E r : decoders' = {r}
      BY <3>2, FS_Singleton
    <3> QED BY <3>1, <3>3
  <2>6. kst[reader].shift \in BOOLEAN /\ (kst[reader].shift <=> HeldAfter(n))
    BY <1>0, <2>5 DEF ShiftInv
  <2>7. PICK k \in ShiftKeys : \A j \in 1 .. Len(typed) : \A l \in ShiftKeys :
          ShiftCode(l, typed[j]) => l = k
    BY DEF OneShift
  <2>8. HeldAfter(n + 1) <=> HeldAfter(n)
    <3>1. \A j \in 1 .. n + 1 : \A l \in ShiftKeys : ShiftCode(l, typed[j]) => l = k
      BY <2>1, <2>7
    <3> QED BY <2>1, <2>4, <3>1, HeldNext
  <2>9. HeldAfter(n) \in BOOLEAN /\ HeldAfter(n + 1) \in BOOLEAN
    BY DEF HeldAfter
  <2>10. keys'[i].shift = kst[reader].shift
    BY <2>3, <2>4
  <2>11. kst[reader].shift = HeldAfter(n + 1)
    BY <2>6, <2>8, <2>9, Zenon
  <2> QED BY <2>1, <2>10, <2>11
<1> QED BY <1>1, <1>2, SortKeyOnly

(* A key is returned with Shift as it is held when the key is typed, as    *)
(* long as one reader alone has decoded the codes, for a typist who uses   *)
(* one of the two Shift keys (kernel.c:298-302).                           *)
THEOREM InputShiftAsHeld ==
  ASSUME \A s \in KeyStreams : OneShift(s)
  PROVE  Spec => ShiftAsHeldByOneReader
<1>1. Init => OneShift(typed)
  BY DEF Init, HwInit
<1>2. InputTyped /\ OneShift(typed) /\ [Next]_vars => OneShift(typed)'
  BY SortKeyOnly, CodeTaken DEF OneShift, SortKey, hwVars
<1>3. Init => ShiftInv /\ DecodedInv
  <2> SUFFICES ASSUME Init PROVE ShiftInv /\ DecodedInv
    OBVIOUS
  <2>1. /\ scanned = << >> /\ decoders = {} /\ keys = << >> /\ kst = [r \in Readers |-> Fresh]
    BY DEF Init
  <2>2. ~HeldAfter(Len(scanned))
    BY <2>1 DEF HeldAfter
  <2> QED BY <2>1, <2>2 DEF ShiftInv, DecodedInv, Fresh
<1>4. InputTyped /\ KeysInv /\ DecodedInv /\ OneShift(typed) /\ ShiftInv /\ [Next]_vars
        => [ShiftRight]_vars
  BY ShiftFollows
<1>5. Spec => [][ShiftRight]_vars
  BY InputTypedInit, InputTypedStep, RouteInit, KeysStep, ShiftStep, DecodedStep, <1>1, <1>2,
     <1>3, <1>4, PTL
  DEF Spec
<1> QED BY <1>5 DEF ShiftAsHeldByOneReader, ShiftRight

=============================================================================
