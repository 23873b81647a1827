---------------------------- MODULE KernelProofs ----------------------------
(***************************************************************************)
(* Kernel: an interrupt or a fault finds its way, whatever the screen, the *)
(* words, the files and the mouse; the line of the shell stands on the     *)
(* screen, whatever interrupts it.                                         *)
(***************************************************************************)
EXTENDS Kernel, LoopLemmas

(* What has been set up when: the gates by the end of kernel_main's first  *)
(* steps, the vectors before mouse_init goes on, and both before the       *)
(* interrupt flag is ever set or the handler has run.                      *)
GatesSet  == stage # "boot" => gates = (0 .. 31) \cup (32 .. 47)
Remapped  == at = Done \/ cpu.iflag \/ inside => remapped
PastStart == remapped => stage # "boot"
PastInit  == stage \notin {"boot", "start"} => remapped
Lines     == irr \in {0, 12, 15}

SetUp == GatesSet /\ Remapped /\ PastStart /\ PastInit /\ Lines /\ ResetOnlyByOverwrite

(* mouse_init has a first operation: it is not over before it begins.      *)
LEMMA Begins == Done # 1 /\ Done \in Nat
<1>1. Len(mouse_init) \in Nat \ {0}
  BY DEF mouse_init, MWait, OutB, InB, aux_write, aux_read
<1> QED BY <1>1 DEF Done

LEMMA SetUpInit == Init => SetUp
BY Begins DEF Init, StartInit, SetUp, GatesSet, Remapped, PastStart, PastInit, Lines,
              ResetOnlyByOverwrite, Program

(* The steps that leave the setting up as it is.                           *)
LEMMA SetUpSame ==
  ASSUME SetUp, UNCHANGED <<stage, gates, remapped, at, cpu, inside, gdt>>, irr' \in {0, 12, 15}
  PROVE  SetUp'
BY DEF SetUp, GatesSet, Remapped, PastStart, PastInit, Lines, ResetOnlyByOverwrite

(* The steps of the running system: everything is set up and stays so.     *)
LEMMA SetUpRunning ==
  ASSUME SetUp, remapped, UNCHANGED <<gates, remapped>>, irr' \in {0, 12, 15},
         stage' # "boot", stage' = "reset" => ~gdt'
  PROVE  SetUp'
BY DEF SetUp, GatesSet, Remapped, PastStart, PastInit, Lines, ResetOnlyByOverwrite

LEMMA StartStep == SetUp /\ Start => SetUp'
<1> SUFFICES ASSUME SetUp, Start PROVE SetUp'
  OBVIOUS
<1>1. CASE kernel_main
  BY <1>1, Begins DEF kernel_main, idt_install, startVars, SetUp, GatesSet, Remapped, PastStart,
                      PastInit, Lines, ResetOnlyByOverwrite
<1>2. CASE pic_remap
  BY <1>2 DEF pic_remap, startVars, progVars, SetUp, GatesSet, Remapped, PastStart, PastInit,
              Lines, ResetOnlyByOverwrite
<1>3. CASE InMouseInit
  <2>1. irr' = irr
    BY <1>3 DEF InMouseInit, mouse_init_step, WaitOver, TimeOut, Write, ReadMode, ReadAnswer,
                NextOp, ReturnWith
  <2>2. stage' = "start" /\ remapped /\ UNCHANGED <<gates, remapped>>
    BY <1>3 DEF InMouseInit, progVars
  <2> QED BY <2>1, <2>2, SetUpRunning DEF SetUp, Lines
<1>4. CASE ShellBegins
  <2>1. remapped
    BY <1>4 DEF ShellBegins, SetUp, Remapped
  <2>2. stage' = "prompt" /\ UNCHANGED <<gates, remapped, irr>>
    BY <1>4 DEF ShellBegins, cpuVars, startVars
  <2> QED BY <2>1, <2>2, SetUpRunning DEF SetUp, Lines
<1> QED BY <1>1, <1>2, <1>3, <1>4 DEF Start

LEMMA DevicesStep == SetUp /\ (Devices \/ Person) => SetUp'
<1> SUFFICES ASSUME SetUp, Devices \/ Person PROVE SetUp'
  OBVIOUS
<1>1. irr' \in {0, 12, 15} /\ at' = at
  BY DEF Devices, Person, TakeInput, MouseSend, KeyPressed, SetUp, Lines
<1>2. UNCHANGED <<stage, gates, remapped, cpu, inside, gdt>>
  BY DEF Devices, Person, progVars, cpuVars
<1> QED BY <1>1, <1>2, SetUpSame

LEMMA WritesStep == SetUp /\ Writes => SetUp'
<1> SUFFICES ASSUME SetUp, Writes PROVE SetUp'
  OBVIOUS
<1>1. UNCHANGED <<stage, gates, remapped, at, cpu, inside, gdt, irr>>
  BY DEF Writes, startVars, cpuVars
<1> QED BY <1>1, SetUpSame DEF SetUp, Lines

(* What is done at the prompt and in EWord, the program's own exceptions   *)
(* included, which find their gate as the interrupts do.                   *)
LEMMA ShellStep == SetUp /\ (Shell \/ EwordKeys \/ EwordEsc) => SetUp'
<1> SUFFICES ASSUME SetUp, Shell \/ EwordKeys \/ EwordEsc PROVE SetUp'
  OBVIOUS
<1> USE DEF SetUp, PastInit
<1>1. ASSUME Command \/ GetKey("prompt") \/ GetKey("eword"),
             stage' \in {"prompt", "command", "eword", "rebooted"}
      PROVE  SetUp'
  <2>1. remapped /\ UNCHANGED <<gates, remapped, irr>>
    BY <1>1 DEF GetKey, Command, startVars
  <2> QED BY <1>1, <2>1, SetUpRunning DEF Lines
<1>2. ASSUME NEW f, Fault(f) PROVE SetUp'
  <2>1. remapped /\ UNCHANGED <<gates, remapped, irr, gdt>>
    BY <1>2 DEF Fault, Command, startVars
  <2>2. stage' # "boot" /\ (stage' = "reset" => ~gdt)
    BY <1>2 DEF Fault, Command
  <2> QED BY <2>1, <2>2, SetUpRunning DEF Lines
<1>3. CASE Shell
  <2>1. CASE \E f \in Faults : Fault(f)
    BY <2>1, <1>2
  <2>2. CASE ~ \E f \in Faults : Fault(f)
    <3>1. (Command \/ GetKey("prompt")) /\ stage' \in {"prompt", "command", "eword", "rebooted"}
      BY <1>3, <2>2 DEF Shell, Arrow, Erase, EnterEmpty, EnterLine, Type, ClearScreen, sys_reboot,
                        eword_open, Prints, WriteFile, ExecDraws, Shows, AtPrompt, progVars, GetKey
    <3> QED BY <3>1, <1>1
  <2> QED BY <2>1, <2>2
<1>4. CASE EwordKeys \/ EwordEsc
  <2>1. GetKey("eword") /\ stage' \in {"prompt", "eword"}
    BY <1>4 DEF EwordKeys, EwordEsc, EwordKey, GetKey, progVars
  <2> QED BY <2>1, <1>1
<1> QED BY <1>3, <1>4

(* An interrupt that can come finds its gate; the handlers come back or    *)
(* halt.                                                                   *)
LEMMA InterruptStep == SetUp /\ (PollByte \/ Interrupt \/ irq_handler \/ fault_handler) => SetUp'
<1> SUFFICES ASSUME SetUp, PollByte \/ Interrupt \/ irq_handler \/ fault_handler PROVE SetUp'
  OBVIOUS
<1>1. remapped
  BY DEF SetUp, PastInit, Remapped, PollByte, Interrupt, irq_handler, fault_handler
<1>2. UNCHANGED <<gates, remapped>> /\ irr' \in {0, 12, 15}
  BY DEF SetUp, Lines, PollByte, Interrupt, irq_handler, fault_handler, startVars, cpuVars
<1>3. stage' # "boot" /\ (stage' = "reset" => ~gdt')
  <2>1. CASE Interrupt
    <3>1. Vector(irr) \in gates
      <4>1. irr \in {12, 15} /\ stage # "boot"
        BY <2>1 DEF Interrupt, SetUp, Lines
      <4>2. gates = (0 .. 31) \cup (32 .. 47)
        BY <4>1 DEF SetUp, GatesSet
      <4> QED BY <4>1, <4>2, <1>1 DEF Vector
    <3>2. gdt' = gdt /\ stage # "boot"
      BY <2>1 DEF Interrupt
    <3>3. CASE gdt
      <4>1. stage' = stage /\ stage \in {"start", "prompt", "command", "eword"}
        BY <2>1, <3>1, <3>3 DEF Interrupt
      <4> QED BY <4>1
    <3>4. CASE ~gdt
      <4>1. stage' = "reset"
        BY <2>1, <3>4 DEF Interrupt
      <4> QED BY <4>1, <3>2, <3>4
    <3> QED BY <3>3, <3>4
  <2>2. CASE PollByte \/ irq_handler
    <3>1. stage' = stage /\ gdt' = gdt
      BY <2>2 DEF PollByte, irq_handler, progVars
    <3> QED BY <3>1, <1>1 DEF SetUp, PastStart, ResetOnlyByOverwrite
  <2>3. CASE fault_handler
    <3>1. stage' = "halted"
      BY <2>3 DEF fault_handler
    <3> QED BY <3>1
  <2> QED BY <2>1, <2>2, <2>3
<1> QED BY <1>1, <1>2, <1>3, SetUpRunning

(* The order of setting up holds at every step ...                         *)
THEOREM KernelSetUp == Spec => []SetUp
<1>1. SetUp /\ [Next]_vars => SetUp'
  <2> SUFFICES ASSUME SetUp, [Next]_vars PROVE SetUp'
    OBVIOUS
  <2>1. CASE UNCHANGED vars
    BY <2>1, SetUpSame DEF vars, startVars, progVars, cpuVars, SetUp, Lines
  <2>2. CASE Next
    BY <2>2, StartStep, DevicesStep, WritesStep, ShellStep, InterruptStep DEF Next
  <2> QED BY <2>1, <2>2
<1> QED BY <1>1, SetUpInit, PTL DEF Spec

(* ... and so no interrupt or exception, of whatever vector, meets a       *)
(* missing gate: idt_install, pic_remap and sti come in a safe order, and  *)
(* only a file over the GDT resets the machine.                            *)
THEOREM KernelResetOnlyByOverwrite == Spec => []ResetOnlyByOverwrite
<1>1. SetUp => ResetOnlyByOverwrite
  BY DEF SetUp
<1> QED BY <1>1, KernelSetUp, PTL

-----------------------------------------------------------------------------
(* The processor as a record; what is pushed of the registers rs.          *)
Cpu(regs, stack, iflag, serving) ==
  [regs |-> regs, stack |-> stack, iflag |-> iflag, serving |-> serving]

ValuesOf(regs, rs) == [i \in DOMAIN rs |-> regs[rs[i]]]

LEMMA Pushing ==
  ASSUME NEW regs, NEW stack, NEW iflag, NEW serving, NEW rs
  PROVE  /\ Pushed(Cpu(regs, stack, iflag, serving), rs)
              = Cpu(regs, stack \o ValuesOf(regs, rs), iflag, serving)
         /\ PushedImm(Cpu(regs, stack, iflag, serving), rs)
              = Cpu(regs, stack \o rs, iflag, serving)
<1> DEFINE c == Cpu(regs, stack, iflag, serving)
           v == stack \o ValuesOf(regs, rs)
           w == stack \o rs
<1>1. c.stack = stack /\ c.regs = regs
  BY DEF Cpu
<1>2. Pushed(c, rs) = [c EXCEPT !.stack = v] /\ PushedImm(c, rs) = [c EXCEPT !.stack = w]
  <2> HIDE DEF c
  <2> QED BY <1>1 DEF Pushed, PushedImm, ValuesOf
<1>3. \A t : [c EXCEPT !.stack = t] = Cpu(regs, t, iflag, serving)
  BY DEF Cpu
<1> QED BY <1>2, <1>3

LEMMA Dropping ==
  ASSUME NEW regs, NEW stack, NEW iflag, NEW serving, NEW n
  PROVE  Dropped(Cpu(regs, stack, iflag, serving), n)
           = Cpu(regs, SubSeq(stack, 1, Len(stack) - n), iflag, serving)
<1> DEFINE c == Cpu(regs, stack, iflag, serving)
<1>1. c.stack = stack
  BY DEF Cpu
<1>2. Dropped(c, n) = [c EXCEPT !.stack = SubSeq(stack, 1, Len(stack) - n)]
  <2> HIDE DEF c
  <2> QED BY <1>1 DEF Dropped
<1>3. \A t : [c EXCEPT !.stack = t] = Cpu(regs, t, iflag, serving)
  BY DEF Cpu
<1> QED BY <1>2, <1>3

(* What was pushed last is what is popped, whatever the registers hold by  *)
(* then.                                                                   *)
LEMMA Popping ==
  ASSUME NEW U, NEW rs \in Seq(U), \A i, j \in DOMAIN rs : rs[i] = rs[j] => i = j,
         NEW V, NEW base \in Seq(V), NEW saved, \A i \in DOMAIN rs : saved[rs[i]] \in V,
         NEW regs, NEW iflag, NEW serving
  PROVE  Popped(Cpu(regs, base \o ValuesOf(saved, rs), iflag, serving), rs)
           = Cpu([r \in DOMAIN regs |-> IF r \in RegsOf(rs) THEN saved[r] ELSE regs[r]],
                 base, iflag, serving)
<1> DEFINE v     == ValuesOf(saved, rs)
           stack == base \o v
           c     == Cpu(regs, stack, iflag, serving)
           top(r) == c.stack[Len(c.stack) - Len(rs) + CHOOSE i \in DOMAIN rs : rs[i] = r]
           back  == [r \in DOMAIN c.regs |-> IF r \in RegsOf(rs) THEN top(r) ELSE c.regs[r]]
<1>1. /\ v \in Seq(V) /\ Len(v) = Len(rs) /\ \A i \in DOMAIN rs : v[i] = saved[rs[i]]
      /\ DOMAIN rs = 1 .. Len(rs) /\ Len(rs) \in Nat /\ Len(base) \in Nat
  BY DEF ValuesOf
<1>2. /\ stack \in Seq(V) /\ Len(stack) = Len(base) + Len(rs)
      /\ \A i \in 1 .. Len(base) + Len(rs) :
           stack[i] = IF i <= Len(base) THEN base[i] ELSE v[i - Len(base)]
  <2>1. \A t \in Seq(V) :
          /\ base \o t \in Seq(V) /\ Len(base \o t) = Len(base) + Len(t)
          /\ \A i \in 1 .. Len(base) + Len(t) :
               (base \o t)[i] = IF i <= Len(base) THEN base[i] ELSE t[i - Len(base)]
    BY ConcatProperties
  <2> HIDE DEF v
  <2> QED BY <1>1, <2>1
<1>3. c.stack = stack /\ c.regs = regs
  BY DEF Cpu
<1>4. back = [r \in DOMAIN regs |-> IF r \in RegsOf(rs) THEN saved[r] ELSE regs[r]]
  <2>1. ASSUME NEW r \in RegsOf(rs)
        PROVE  top(r) = saved[r]
    <3>1. PICK j \in DOMAIN rs : rs[j] = r
      BY <2>1 DEF RegsOf
    <3>2. (CHOOSE i \in DOMAIN rs : rs[i] = r) = j
      BY <3>1
    <3> HIDE DEF v, stack, c
    <3>3. Len(c.stack) - Len(rs) + j = Len(base) + j /\ j \in 1 .. Len(rs)
      BY <1>1, <1>2, <1>3
    <3>4. stack[Len(base) + j] = v[j]
      BY <1>1, <1>2, <3>3
    <3> QED BY <1>1, <1>3, <3>1, <3>2, <3>3, <3>4
  <2> HIDE DEF c, top
  <2> QED BY <1>3, <2>1
<1>5. SubSeq(stack, 1, Len(base)) = base
  <2> HIDE DEF stack
  <2>1. /\ SubSeq(stack, 1, Len(base)) \in Seq(V) /\ Len(SubSeq(stack, 1, Len(base))) = Len(base)
        /\ \A i \in 1 .. Len(base) : SubSeq(stack, 1, Len(base))[i] = base[i]
    BY <1>1, <1>2
  <2> QED BY <2>1
<1>6. Len(stack) - Len(rs) = Len(base)
  <2> HIDE DEF stack
  <2> QED BY <1>1, <1>2
<1>7. Popped(c, rs) = Dropped([c EXCEPT !.regs = back], Len(rs))
  BY DEF Popped
<1>8. [c EXCEPT !.regs = back] = Cpu(back, stack, iflag, serving)
  <2> HIDE DEF back, stack
  <2> QED BY DEF Cpu
<1>9. Dropped(Cpu(back, stack, iflag, serving), Len(rs)) = Cpu(back, base, iflag, serving)
  <2> HIDE DEF back, stack
  <2>1. Dropped(Cpu(back, stack, iflag, serving), Len(rs))
          = Cpu(back, SubSeq(stack, 1, Len(stack) - Len(rs)), iflag, serving)
    BY Dropping
  <2> QED BY <1>5, <1>6, <2>1
<1> HIDE DEF back, stack, v
<1> QED BY <1>4, <1>7, <1>8, <1>9 DEF stack, v

(* The program's processor between two interrupts, and what an event puts  *)
(* on its stack below the registers: two words besides what it returns to. *)
Idle(i, s)       == Cpu(ProgramRegs, << >>, i, s)
Frame            == << >> \o ValuesOf(ProgramRegs, Frame3)
Taken(vec, err)  == (Frame \o err) \o Stub(vec)
OfProgram(rs)    == ValuesOf(ProgramRegs, rs)

Fits(vec, err) ==
  /\ vec \in Nat /\ err \in Seq(Int)
  /\ Len(err) = IF vec \in WithErrorCode THEN 1 ELSE 0

RegNames == {"ds", "es", "fs", "gs", "eax", "ecx", "edx", "ebx", "esp", "ebp", "esi", "edi",
             "eflags", "cs", "eip"}
Words    == Int \cup RegNames

LEMMA Registers ==
  /\ DOMAIN ProgramRegs = RegsOf(SegRegs) \cup RegsOf(Pusha) \cup RegsOf(Frame3)
  /\ \A r \in DOMAIN ProgramRegs : ProgramRegs[r] \in Words
  /\ \A r \in RegsOf(SegRegs) : ProgramRegs[r] = DataSeg
  /\ \A rs \in {SegRegs, Pusha, Frame3} :
       /\ rs \in Seq(RegNames) /\ \A i, j \in DOMAIN rs : rs[i] = rs[j] => i = j
       /\ \A i \in DOMAIN rs : rs[i] \in DOMAIN ProgramRegs
<1>1. /\ SegRegs \in Seq(RegNames) /\ Pusha \in Seq(RegNames) /\ Frame3 \in Seq(RegNames)
      /\ Len(SegRegs) = 4 /\ Len(Pusha) = 8 /\ Len(Frame3) = 3
  <2>1. SegRegs \in Seq(RegNames) /\ Len(SegRegs) = 4
    BY DEF SegRegs, RegNames
  <2>2. Pusha \in Seq(RegNames) /\ Len(Pusha) = 8
    BY DEF Pusha, RegNames
  <2>3. Frame3 \in Seq(RegNames) /\ Len(Frame3) = 3
    BY DEF Frame3, RegNames
  <2> QED BY <2>1, <2>2, <2>3
<1>2. DOMAIN ProgramRegs = RegsOf(SegRegs \o Pusha \o Frame3)
  BY DEF ProgramRegs
<1>3. \A s, t \in Seq(RegNames) : s \o t \in Seq(RegNames) /\ RegsOf(s \o t) = RegsOf(s) \cup RegsOf(t)
  <2> TAKE s, t \in Seq(RegNames)
  <2>1. /\ s \o t \in Seq(RegNames) /\ Len(s \o t) = Len(s) + Len(t)
        /\ \A i \in 1 .. Len(s) + Len(t) : (s \o t)[i] = IF i <= Len(s) THEN s[i] ELSE t[i - Len(s)]
    BY ConcatProperties
  <2>2. ASSUME NEW r \in RegsOf(s \o t) PROVE r \in RegsOf(s) \cup RegsOf(t)
    <3>1. PICK i \in 1 .. Len(s) + Len(t) : r = (s \o t)[i]
      BY <2>1, <2>2 DEF RegsOf
    <3>2. CASE i <= Len(s)
      BY <2>1, <3>1, <3>2 DEF RegsOf
    <3>3. CASE i > Len(s)
      <4>1. i - Len(s) \in 1 .. Len(t) /\ r = t[i - Len(s)]
        BY <2>1, <3>1, <3>3
      <4> QED BY <4>1 DEF RegsOf
    <3> QED BY <3>1, <3>2, <3>3
  <2>3. ASSUME NEW r \in RegsOf(s) PROVE r \in RegsOf(s \o t)
    <3>1. PICK i \in 1 .. Len(s) : r = s[i]
      BY <2>3 DEF RegsOf
    <3>2. i \in DOMAIN (s \o t) /\ r = (s \o t)[i]
      BY <2>1, <3>1
    <3> QED BY <3>2 DEF RegsOf
  <2>4. ASSUME NEW r \in RegsOf(t) PROVE r \in RegsOf(s \o t)
    <3>1. PICK i \in 1 .. Len(t) : r = t[i]
      BY <2>4 DEF RegsOf
    <3>2. i + Len(s) \in DOMAIN (s \o t) /\ r = (s \o t)[i + Len(s)]
      BY <2>1, <3>1
    <3> QED BY <3>2 DEF RegsOf
  <2> QED BY <2>1, <2>2, <2>3, <2>4
<1>4. DOMAIN ProgramRegs = RegsOf(SegRegs) \cup RegsOf(Pusha) \cup RegsOf(Frame3)
  BY <1>1, <1>2, <1>3
<1>5. \A rs \in Seq(RegNames) : RegsOf(rs) \subseteq RegNames /\ \A i \in DOMAIN rs : rs[i] \in RegsOf(rs)
  BY DEF RegsOf
<1>6. DOMAIN ProgramRegs \subseteq RegNames
  BY <1>1, <1>4, <1>5
<1>7. \A r \in DOMAIN ProgramRegs :
        ProgramRegs[r] = IF r \in RegsOf(SegRegs) THEN DataSeg ELSE r
  BY DEF ProgramRegs
<1>8. \A r \in RegsOf(SegRegs) : ProgramRegs[r] = DataSeg
  BY <1>4, <1>7
<1>9. \A r \in DOMAIN ProgramRegs : ProgramRegs[r] \in Words
  BY <1>6, <1>7 DEF Words, DataSeg
<1>10. \A i, j \in DOMAIN SegRegs : SegRegs[i] = SegRegs[j] => i = j
  BY DEF SegRegs
<1>11. \A i, j \in DOMAIN Pusha : Pusha[i] = Pusha[j] => i = j
  BY DEF Pusha
<1>12. \A i, j \in DOMAIN Frame3 : Frame3[i] = Frame3[j] => i = j
  BY DEF Frame3
<1>13. \A rs \in {SegRegs, Pusha, Frame3} : \A i \in DOMAIN rs : rs[i] \in DOMAIN ProgramRegs
  BY <1>1, <1>4, <1>5
<1> QED BY <1>1, <1>4, <1>8, <1>9, <1>10, <1>11, <1>12, <1>13

LEMMA TakenSeq ==
  ASSUME NEW vec, NEW err, Fits(vec, err)
  PROVE  /\ Frame \in Seq(Words) /\ Len(Frame) = 3 /\ Frame = OfProgram(Frame3)
         /\ \A i \in 1 .. 3 : Frame[i] = ProgramRegs[Frame3[i]]
         /\ err \o Stub(vec) \in Seq(Words) /\ Len(err \o Stub(vec)) = 2
         /\ Taken(vec, err) \in Seq(Words) /\ Len(Taken(vec, err)) = 5
         /\ Taken(vec, err) = Frame \o (err \o Stub(vec))
<1>1. /\ OfProgram(Frame3) \in Seq(Words) /\ Len(OfProgram(Frame3)) = 3
      /\ \A i \in 1 .. 3 : OfProgram(Frame3)[i] = ProgramRegs[Frame3[i]]
  <2>1. DOMAIN Frame3 = 1 .. 3 /\ \A i \in DOMAIN Frame3 : ProgramRegs[Frame3[i]] \in Words
    <3>1. Len(Frame3) = 3
      BY DEF Frame3
    <3> QED BY <3>1, Registers
  <2> QED BY <2>1 DEF OfProgram, ValuesOf
<1>2. Frame = OfProgram(Frame3)
  BY <1>1, ConcatEmptySeq DEF Frame, OfProgram
<1>3. err \in Seq(Words) /\ vec \in Words /\ 0 \in Words
  BY DEF Fits, Words
<1>4. Stub(vec) \in Seq(Words) /\ Len(err) + Len(Stub(vec)) = 2
  <2>1. CASE vec \in WithErrorCode
    <3>1. Stub(vec) = <<vec>> /\ Len(err) = 1
      BY <2>1 DEF Stub, ISR_ERR, Fits
    <3> QED BY <3>1, <1>3
  <2>2. CASE vec \notin WithErrorCode
    <3>1. Stub(vec) = <<0, vec>> /\ Len(err) = 0
      <4>1. 32 + (vec - 32) = vec
        BY DEF Fits
      <4> QED BY <2>2, <4>1 DEF Stub, ISR_NOERR, IRQ_S, Fits
    <3> QED BY <3>1, <1>3
  <2> QED BY <2>1, <2>2
<1>5. err \o Stub(vec) \in Seq(Words) /\ Len(err \o Stub(vec)) = 2
  BY <1>3, <1>4, ConcatProperties
<1>6. Taken(vec, err) = Frame \o (err \o Stub(vec))
  BY <1>1, <1>2, <1>3, <1>4, ConcatAssociative DEF Taken
<1>7. Frame \o (err \o Stub(vec)) \in Seq(Words) /\ Len(Frame \o (err \o Stub(vec))) = 3 + 2
  <2>1. \A x, y \in Seq(Words) : x \o y \in Seq(Words) /\ Len(x \o y) = Len(x) + Len(y)
    BY ConcatProperties
  <2> QED BY <1>1, <1>2, <1>5, <2>1
<1> QED BY <1>1, <1>2, <1>5, <1>6, <1>7

DataSegments(c) ==
  [c EXCEPT !.iflag = FALSE,
            !.regs = [r \in DOMAIN @ |-> IF r \in RegsOf(SegRegs) THEN DataSeg ELSE @[r]]]

LEMMA DataSegmentsIs ==
  ASSUME NEW regs, NEW stack, NEW iflag, NEW serving
  PROVE  DataSegments(Cpu(regs, stack, iflag, serving))
           = Cpu([r \in DOMAIN regs |-> IF r \in RegsOf(SegRegs) THEN DataSeg ELSE regs[r]],
                 stack, FALSE, serving)
<1> DEFINE c == Cpu(regs, stack, iflag, serving)
           f == [r \in DOMAIN regs |-> IF r \in RegsOf(SegRegs) THEN DataSeg ELSE regs[r]]
<1>1. c.regs = regs
  BY DEF Cpu
<1>2. DataSegments(c) = [c EXCEPT !.iflag = FALSE, !.regs = f]
  <2> HIDE DEF c
  <2> QED BY <1>1 DEF DataSegments
<1>3. [c EXCEPT !.iflag = FALSE, !.regs = f] = Cpu(f, stack, FALSE, serving)
  <2> HIDE DEF f
  <2>1. \A x : [c EXCEPT !.iflag = x] = Cpu(regs, stack, x, serving)
    BY DEF Cpu
  <2>2. \A x : [Cpu(regs, stack, x, serving) EXCEPT !.regs = f] = Cpu(f, stack, x, serving)
    BY DEF Cpu
  <2> HIDE DEF c
  <2>3. [c EXCEPT !.iflag = FALSE, !.regs = f] = [[c EXCEPT !.iflag = FALSE] EXCEPT !.regs = f]
    OBVIOUS
  <2>4. [c EXCEPT !.iflag = FALSE] = Cpu(regs, stack, FALSE, serving)
    BY <2>1, Zenon
  <2>5. [Cpu(regs, stack, FALSE, serving) EXCEPT !.regs = f] = Cpu(f, stack, FALSE, serving)
    BY <2>2, Zenon
  <2> QED BY <2>3, <2>4, <2>5, Zenon
<1> QED BY <1>2, <1>3

(* What the C handler finds.                                               *)
LEMMA EnteredIs ==
  ASSUME NEW i, NEW s, NEW vec, NEW err
  PROVE  Entered(Idle(i, s), vec, err)
           = Cpu(ProgramRegs, (Taken(vec, err) \o OfProgram(SegRegs)) \o OfProgram(Pusha), FALSE, s)
<1> DEFINE a == Pushed(Idle(i, s), Frame3)
           b == PushedImm(a, err)
           c == PushedImm(b, Stub(vec))
           d == Pushed(c, SegRegs)
           e == Pushed(d, Pusha)
           stack == (Taken(vec, err) \o OfProgram(SegRegs)) \o OfProgram(Pusha)
           f == [r \in DOMAIN ProgramRegs |->
                   IF r \in RegsOf(SegRegs) THEN DataSeg ELSE ProgramRegs[r]]
<1>1. a = Cpu(ProgramRegs, Frame, i, s)
  <2>1. \A x : Pushed(Cpu(ProgramRegs, x, i, s), Frame3)
              = Cpu(ProgramRegs, x \o ValuesOf(ProgramRegs, Frame3), i, s)
    BY Pushing
  <2> QED BY <2>1, Zenon DEF Idle, Frame
<1>2. b = Cpu(ProgramRegs, Frame \o err, i, s)
  <2> HIDE DEF a
  <2> QED BY <1>1, Pushing
<1>3. c = Cpu(ProgramRegs, Taken(vec, err), i, s)
  <2> HIDE DEF b
  <2> QED BY <1>2, Pushing DEF Taken
<1>4. d = Cpu(ProgramRegs, Taken(vec, err) \o OfProgram(SegRegs), i, s)
  <2> HIDE DEF c
  <2> QED BY <1>3, Pushing DEF OfProgram
<1>5. e = Cpu(ProgramRegs, stack, i, s)
  <2> HIDE DEF d
  <2> QED BY <1>4, Pushing DEF OfProgram
<1>6. f = ProgramRegs
  <2>1. \A r \in RegsOf(SegRegs) : ProgramRegs[r] = DataSeg
    BY Registers
  <2>2. ProgramRegs = [r \in DOMAIN ProgramRegs |-> ProgramRegs[r]]
    BY DEF ProgramRegs
  <2> QED BY <2>1, <2>2
<1>7. Entered(Idle(i, s), vec, err) = DataSegments(e)
  BY DEF Entered, DataSegments
<1>8. DataSegments(Cpu(ProgramRegs, stack, i, s)) = Cpu(f, stack, FALSE, s)
  <2> HIDE DEF stack
  <2> QED BY DataSegmentsIs
<1> HIDE DEF e, f, stack
<1> QED BY <1>5, <1>6, <1>7, <1>8 DEF stack

(* The handler may leave any registers of its own and end both requests.   *)
LEMMA EoiClobbered ==
  ASSUME NEW stack, NEW iflag, NEW s
  PROVE  \E regs : /\ DOMAIN regs = DOMAIN ProgramRegs
                   /\ Eoi(Clobbered(Cpu(ProgramRegs, stack, iflag, s)))
                        = Cpu(regs, stack, iflag, s \ {"slave", "master"})
<1> DEFINE c    == Cpu(ProgramRegs, stack, iflag, s)
           regs == [ProgramRegs EXCEPT !.eax = "?", !.ecx = "?", !.edx = "?", !.eip = "?",
                                       !.eflags = "?"]
<1>1. c.regs = ProgramRegs
  BY DEF Cpu
<1>2. DOMAIN regs = DOMAIN ProgramRegs
  OBVIOUS
<1>3. Clobbered(c) = [c EXCEPT !.regs = regs]
  <2> HIDE DEF c
  <2> QED BY <1>1 DEF Clobbered
<1>4. [c EXCEPT !.regs = regs] = Cpu(regs, stack, iflag, s)
  <2>1. \A x : [c EXCEPT !.regs = x] = Cpu(x, stack, iflag, s)
    BY DEF Cpu
  <2> QED BY <2>1, Zenon
<1>5. Eoi(Cpu(regs, stack, iflag, s)) = Cpu(regs, stack, iflag, s \ {"slave", "master"})
  <2> HIDE DEF regs
  <2> DEFINE d == Cpu(regs, stack, iflag, s)
  <2>1. d.serving = s
    BY DEF Cpu
  <2>2. Eoi(d) = [d EXCEPT !.serving = s \ {"slave", "master"}]
    <3> HIDE DEF d
    <3> QED BY <2>1 DEF Eoi
  <2>3. \A x : [d EXCEPT !.serving = x] = Cpu(regs, stack, iflag, x)
    BY DEF Cpu
  <2> QED BY <2>2, <2>3, Zenon
<1> HIDE DEF regs
<1> QED BY <1>2, <1>3, <1>4, <1>5

(* The stubs give back what they have saved: the handler is transparent.   *)
LEMMA ReturnedIs ==
  ASSUME NEW i, NEW s \in SUBSET {"slave", "master"}, NEW vec, NEW err, Fits(vec, err)
  PROVE  \E x \in BOOLEAN : Returned(Entered(Idle(i, s), vec, err)) = Idle(x, {})
<1> DEFINE off    == FALSE
           t      == s \ {"slave", "master"}
           segs   == Taken(vec, err) \o OfProgram(SegRegs)
           stack  == segs \o OfProgram(Pusha)
<1>e. Entered(Idle(i, s), vec, err) = Cpu(ProgramRegs, stack, off, s)
  BY EnteredIs
<1> HIDE DEF off
<1>1. /\ DOMAIN ProgramRegs = RegsOf(SegRegs) \cup RegsOf(Pusha) \cup RegsOf(Frame3)
      /\ ProgramRegs = [r \in DOMAIN ProgramRegs |-> ProgramRegs[r]]
  BY Registers DEF ProgramRegs
<1>2. \A rs \in {SegRegs, Pusha, Frame3} : \A base \in Seq(Words) : \A x, iflag, serving :
        /\ base \o OfProgram(rs) \in Seq(Words)
        /\ Popped(Cpu(x, base \o OfProgram(rs), iflag, serving), rs)
             = Cpu([r \in DOMAIN x |-> IF r \in RegsOf(rs) THEN ProgramRegs[r] ELSE x[r]],
                   base, iflag, serving)
  <2> TAKE rs \in {SegRegs, Pusha, Frame3}
  <2> TAKE base \in Seq(Words)
  <2> TAKE x, iflag, serving
  <2>1. /\ rs \in Seq(RegNames) /\ \A k, j \in DOMAIN rs : rs[k] = rs[j] => k = j
        /\ \A k \in DOMAIN rs : ProgramRegs[rs[k]] \in Words
    BY Registers
  <2>2. OfProgram(rs) \in Seq(Words)
    BY <2>1 DEF OfProgram, ValuesOf
  <2>3. base \o OfProgram(rs) \in Seq(Words)
    BY <2>2, ConcatProperties
  <2>4. Popped(Cpu(x, base \o ValuesOf(ProgramRegs, rs), iflag, serving), rs)
          = Cpu([r \in DOMAIN x |-> IF r \in RegsOf(rs) THEN ProgramRegs[r] ELSE x[r]],
                base, iflag, serving)
    BY <2>1, Popping
  <2> QED BY <2>3, <2>4 DEF OfProgram
<1>3. PICK x : /\ DOMAIN x = DOMAIN ProgramRegs
               /\ Eoi(Clobbered(Cpu(ProgramRegs, stack, off, s))) = Cpu(x, stack, off, t)
  <2> HIDE DEF stack
  <2> QED BY EoiClobbered
<1> DEFINE y == [r \in DOMAIN x |-> IF r \in RegsOf(Pusha) THEN ProgramRegs[r] ELSE x[r]]
           z == [r \in DOMAIN y |-> IF r \in RegsOf(SegRegs) THEN ProgramRegs[r] ELSE y[r]]
           w == [r \in DOMAIN z |-> IF r \in RegsOf(Frame3) THEN ProgramRegs[r] ELSE z[r]]
<1>4. w = ProgramRegs
  BY <1>1, <1>3
<1>5. Taken(vec, err) \in Seq(Words) /\ segs \in Seq(Words)
  BY <1>2, TakenSeq
<1>6. Popped(Cpu(x, stack, off, t), Pusha) = Cpu(y, segs, off, t)
  <2> HIDE DEF segs, t
  <2>1. Pusha \in {SegRegs, Pusha, Frame3}
    OBVIOUS
  <2> QED BY <1>2, <1>5, <2>1
<1>7. Popped(Cpu(y, segs, off, t), SegRegs) = Cpu(z, Taken(vec, err), off, t)
  <2> HIDE DEF y, t
  <2>1. SegRegs \in {SegRegs, Pusha, Frame3}
    OBVIOUS
  <2> QED BY <1>2, <1>5, <2>1
<1>8. Dropped(Cpu(z, Taken(vec, err), off, t), 2) = Cpu(z, Frame, off, t)
  <2>1. SubSeq(Taken(vec, err), 1, Len(Taken(vec, err)) - 2) = Frame
    <3> DEFINE u == err \o Stub(vec)
    <3>1. /\ Frame \in Seq(Words) /\ Len(Frame) = 3 /\ u \in Seq(Words) /\ Len(u) = 2
          /\ Taken(vec, err) = Frame \o u /\ Len(Taken(vec, err)) = 5
      BY TakenSeq
    <3> HIDE DEF u
    <3>2. /\ Frame \o u \in Seq(Words) /\ Len(Frame \o u) = 5
          /\ \A k \in 1 .. 5 : (Frame \o u)[k] = IF k <= 3 THEN Frame[k] ELSE u[k - 3]
      <4>1. \A f, g \in Seq(Words) :
              /\ f \o g \in Seq(Words) /\ Len(f \o g) = Len(f) + Len(g)
              /\ \A k \in 1 .. Len(f) + Len(g) : (f \o g)[k] = IF k <= Len(f) THEN f[k] ELSE g[k - Len(f)]
        BY ConcatProperties
      <4> QED BY <3>1, <4>1
    <3> DEFINE v == SubSeq(Frame \o u, 1, 3)
    <3>3. v \in Seq(Words) /\ Len(v) = 3 /\ \A k \in 1 .. 3 : v[k] = Frame[k]
      BY <3>2
    <3> QED BY <3>1, <3>3
  <2> HIDE DEF z, t
  <2>2. Dropped(Cpu(z, Taken(vec, err), off, t), 2)
          = Cpu(z, SubSeq(Taken(vec, err), 1, Len(Taken(vec, err)) - 2), off, t)
    BY Dropping
  <2> QED BY <2>1, <2>2
<1>9. Popped(Cpu(z, Frame, off, t), Frame3) = Cpu(w, << >>, off, t)
  <2> DEFINE bottom == << >>
  <2>1. Frame = bottom \o OfProgram(Frame3) /\ bottom \in Seq(Words)
    BY DEF Frame, OfProgram
  <2> HIDE DEF z, t, bottom
  <2>2. Frame3 \in {SegRegs, Pusha, Frame3}
    OBVIOUS
  <2>3. Popped(Cpu(z, bottom \o OfProgram(Frame3), off, t), Frame3) = Cpu(w, bottom, off, t)
    BY <1>2, <2>1, <2>2
  <2> QED BY <2>1, <2>3 DEF bottom
<1>10. Returned(Cpu(ProgramRegs, stack, off, s))
         = [Cpu(w, << >>, off, t) EXCEPT !.iflag = TRUE]
  <2> HIDE DEF stack, segs, y, z, w, t
  <2> QED BY <1>3, <1>6, <1>7, <1>8, <1>9 DEF Returned
<1>11. [Cpu(w, << >>, off, t) EXCEPT !.iflag = TRUE] = Cpu(w, << >>, TRUE, t)
  <2> HIDE DEF w, t
  <2>1. \A k : [Cpu(w, << >>, off, t) EXCEPT !.iflag = k] = Cpu(w, << >>, k, t)
    BY DEF Cpu
  <2> QED BY <2>1, Zenon
<1> HIDE DEF w, t, stack
<1>12. Returned(Entered(Idle(i, s), vec, err)) = Cpu(ProgramRegs, << >>, TRUE, t)
  BY <1>4, <1>10, <1>11, <1>e, Zenon
<1>13. t = {}
  BY DEF t
<1> QED BY <1>12, <1>13 DEF Idle

-----------------------------------------------------------------------------
(* Between two events the processor is the program's; in a handler it is   *)
(* what entering for that event has made of it.                            *)
CpuInv ==
  /\ at # Done => stage \in {"boot", "start"} /\ have_mouse = FALSE /\ ~inside /\ ~cpu.iflag
  /\ ~inside => \E i \in BOOLEAN : cpu = Idle(i, {})
  /\ inside  => /\ Fits(event.vec, event.err)
                /\ \E i \in BOOLEAN, s \in SUBSET {"slave", "master"} :
                     cpu = Entered(Idle(i, s), event.vec, event.err)

LEMMA IdleFields ==
  ASSUME NEW i, NEW s
  PROVE  /\ Idle(i, s).regs = ProgramRegs /\ Idle(i, s).stack = << >>
         /\ Idle(i, s).iflag = i /\ Idle(i, s).serving = s
BY DEF Idle, Cpu

LEMMA CpuInvInit == Init => CpuInv
<1> SUFFICES ASSUME Init PROVE CpuInv
  OBVIOUS
<1>1. stage = "boot" /\ have_mouse = FALSE /\ ~inside /\ cpu = Program
  BY DEF Init, StartInit
<1>2. Program = Idle(FALSE, {})
  BY DEF Program, Idle, Cpu
<1>3. ~cpu.iflag
  BY <1>1 DEF Program
<1> QED BY <1>1, <1>2, <1>3 DEF CpuInv

(* The steps that leave the processor alone ...                            *)
LEMMA CpuSame ==
  ASSUME CpuInv, UNCHANGED <<at, have_mouse, cpu, inside, event>>,
         at # Done => stage' \in {"boot", "start"}
  PROVE  CpuInv'
BY DEF CpuInv

(* ... those that set or clear the interrupt flag of the program ...       *)
LEMMA CpuFlag ==
  ASSUME CpuInv, ~inside, NEW x \in BOOLEAN, cpu' = [cpu EXCEPT !.iflag = x],
         inside' = inside, at' # Done => stage' \in {"boot", "start"} /\ have_mouse' = FALSE /\ ~x
  PROVE  CpuInv'
<1>1. PICK i \in BOOLEAN : cpu = Idle(i, {})
  BY DEF CpuInv
<1>2. cpu' = Idle(x, {})
  <2> DEFINE none == {}
  <2>1. \A s, y : [Idle(i, s) EXCEPT !.iflag = y] = Idle(y, s)
    BY DEF Idle, Cpu
  <2> HIDE DEF none
  <2>2. [Idle(i, none) EXCEPT !.iflag = x] = Idle(x, none)
    BY <2>1, Zenon
  <2> QED BY <1>1, <2>2 DEF none
<1>3. cpu'.iflag = x
  BY <1>2, IdleFields
<1> QED BY <1>2, <1>3 DEF CpuInv

(* ... and those that enter a handler.                                     *)
LEMMA CpuEnters ==
  ASSUME CpuInv, NEW i \in BOOLEAN, NEW s \in SUBSET {"slave", "master"},
         at' = Done, inside', Fits(event'.vec, event'.err),
         cpu' = Entered(Idle(i, s), event'.vec, event'.err)
  PROVE  CpuInv'
BY DEF CpuInv

LEMMA CpuStart == CpuInv /\ Start => CpuInv'
<1> SUFFICES ASSUME CpuInv, Start PROVE CpuInv'
  OBVIOUS
<1>1. CASE kernel_main
  BY <1>1, CpuSame DEF kernel_main, startVars
<1>2. CASE pic_remap
  BY <1>2, CpuSame DEF pic_remap, startVars, progVars, CpuInv
<1>3. CASE InMouseInit
  <2>1. stage' = "start" /\ inside' = inside /\ cpu' = [cpu EXCEPT !.iflag = have_mouse']
    BY <1>3 DEF InMouseInit, progVars
  <2>2. at # Done
    <3>1. at < Done
      BY <1>3 DEF InMouseInit, mouse_init_step, WaitOver, TimeOut, Write, ReadMode, ReadAnswer, At
    <3> QED BY <3>1, Begins
  <2>3. have_mouse = FALSE /\ ~inside
    BY <2>2 DEF CpuInv
  <2>4. have_mouse' \in BOOLEAN /\ (at' # Done => have_mouse' = FALSE)
    BY <1>3, <2>3 DEF InMouseInit, mouse_init_step, WaitOver, TimeOut, Write, ReadMode, ReadAnswer,
                NextOp, ReturnWith
  <2> QED BY <2>1, <2>3, <2>4, CpuFlag
<1>4. CASE ShellBegins
  BY <1>4, CpuSame DEF ShellBegins, startVars, cpuVars
<1> QED BY <1>1, <1>2, <1>3, <1>4 DEF Start

LEMMA CpuDevices == CpuInv /\ (Devices \/ Person) => CpuInv'
<1> SUFFICES ASSUME CpuInv, Devices \/ Person PROVE CpuInv'
  OBVIOUS
<1>1. UNCHANGED <<at, have_mouse>>
  BY DEF Devices, Person, TakeInput, MouseSend, KeyPressed
<1>2. UNCHANGED <<stage, cpu, inside, event>>
  BY DEF Devices, Person, progVars, cpuVars
<1> QED BY <1>1, <1>2, CpuSame DEF CpuInv

LEMMA CpuWrites == CpuInv /\ Writes => CpuInv'
<1> SUFFICES ASSUME CpuInv, Writes PROVE CpuInv'
  OBVIOUS
<1>1. UNCHANGED <<at, have_mouse, stage, cpu, inside, event>>
  BY DEF Writes, startVars, cpuVars
<1> QED BY <1>1, CpuSame DEF CpuInv

LEMMA CpuShell == CpuInv /\ (Shell \/ EwordKeys \/ EwordEsc) => CpuInv'
<1> SUFFICES ASSUME CpuInv, Shell \/ EwordKeys \/ EwordEsc PROVE CpuInv'
  OBVIOUS
<1>1. ASSUME NEW s \in {"prompt", "eword"}, GetKey(s) PROVE CpuInv'
  <2>1. at = Done /\ at' = at
    BY <1>1 DEF GetKey, CpuInv, startVars
  <2>2. ~inside /\ inside' = inside /\ cpu' = [cpu EXCEPT !.iflag = TRUE]
    BY <1>1 DEF GetKey
  <2> DEFINE x == TRUE
  <2>3. x \in BOOLEAN /\ cpu' = [cpu EXCEPT !.iflag = x]
    BY <2>2
  <2> HIDE DEF x
  <2> QED BY <2>1, <2>2, <2>3, CpuFlag
<1>2. ASSUME NEW f \in Faults, Fault(f) PROVE CpuInv'
  <2>1. /\ stage = "command" /\ ~inside /\ event' = f
        /\ UNCHANGED <<at, have_mouse>>
    BY <1>2 DEF Fault, Command, startVars
  <2>2. at = Done
    BY <2>1 DEF CpuInv
  <2>3. CASE gdt
    <3>1. PICK i \in BOOLEAN : cpu = Idle(i, {})
      BY <2>1 DEF CpuInv
    <3>2. Fits(f.vec, f.err)
      <4> DEFINE vec == f.vec
                 err == f.err
      <4>1. vec \in 0 .. 31 /\ err \in Seq(Int) /\ Len(err) = IF vec \in WithErrorCode THEN 1 ELSE 0
        BY FaultsAssumption, Zenon
      <4> HIDE DEF vec, err
      <4>2. vec \in Nat
        BY <4>1
      <4>3. Fits(vec, err)
        BY <4>1, <4>2, Zenon DEF Fits
      <4> QED BY <4>3 DEF vec, err
    <3>3. inside' = TRUE /\ cpu' = Entered(cpu, f.vec, f.err)
      BY <1>2, <2>3 DEF Fault
    <3> QED BY <2>1, <2>2, <3>1, <3>2, <3>3, CpuEnters
  <2>4. CASE ~gdt
    <3>1. UNCHANGED <<cpu, inside>>
      BY <1>2, <2>4 DEF Fault
    <3> QED BY <2>1, <2>2, <3>1 DEF CpuInv
  <2> QED BY <2>3, <2>4
<1>3. CASE \E f \in Faults : Fault(f)
  BY <1>2, <1>3
<1>4. CASE Shell /\ ~ \E f \in Faults : Fault(f)
  <2>1. CASE GetKey("prompt")
    BY <2>1, <1>1
  <2>2. CASE Command /\ UNCHANGED <<cpu, inside, event>>
    <3>1. at = Done /\ UNCHANGED <<at, have_mouse>>
      BY <2>2 DEF Command, CpuInv, startVars
    <3> QED BY <2>2, <3>1, CpuSame
  <2>3. GetKey("prompt") \/ (Command /\ UNCHANGED <<cpu, inside, event>>)
    BY <1>4 DEF Shell, Arrow, Erase, EnterEmpty, EnterLine, Type, ClearScreen, sys_reboot,
                eword_open, Prints, WriteFile, ExecDraws, Shows, AtPrompt
  <2> QED BY <2>1, <2>2, <2>3
<1>5. CASE EwordKeys \/ EwordEsc
  <2>1. GetKey("eword")
    BY <1>5 DEF EwordKeys, EwordEsc, EwordKey
  <2> QED BY <2>1, <1>1
<1> QED BY <1>3, <1>4, <1>5

LEMMA CpuInterrupts ==
  CpuInv /\ SetUp /\ (PollByte \/ Interrupt \/ irq_handler \/ fault_handler) => CpuInv'
<1> SUFFICES ASSUME CpuInv, SetUp, PollByte \/ Interrupt \/ irq_handler \/ fault_handler
             PROVE  CpuInv'
  OBVIOUS
<1>1. CASE PollByte
  <2>1. at = Done /\ at' = at
    BY <1>1 DEF PollByte, CpuInv
  <2>2. ~inside /\ inside' = inside /\ cpu' = [cpu EXCEPT !.iflag = TRUE]
    BY <1>1 DEF PollByte
  <2> DEFINE x == TRUE
  <2>3. x \in BOOLEAN /\ cpu' = [cpu EXCEPT !.iflag = x]
    BY <2>2
  <2> HIDE DEF x
  <2> QED BY <2>1, <2>2, <2>3, CpuFlag
<1>2. CASE Interrupt
  <2> DEFINE s == {"master"} \cup (IF irr = 12 THEN {"slave"} ELSE {})
  <2>1. ~inside /\ at = Done /\ at' = at /\ have_mouse' = have_mouse
    BY <1>2 DEF Interrupt, CpuInv
  <2>2. event' = [vec |-> Vector(irr), err |-> << >>]
    BY <1>2 DEF Interrupt
  <2>3. CASE gdt /\ Vector(irr) \in gates
    <3>1. PICK i \in BOOLEAN : cpu = Idle(i, {})
      BY <2>1 DEF CpuInv
    <3>2. inside' /\ cpu' = Entered([cpu EXCEPT !.serving = s], Vector(irr), << >>)
      BY <1>2, <2>3 DEF Interrupt
    <3>3. [cpu EXCEPT !.serving = s] = Idle(i, s)
      <4> HIDE DEF s
      <4> DEFINE none == {}
      <4>1. \A t : [Idle(i, t) EXCEPT !.serving = s] = Idle(i, s)
        BY DEF Idle, Cpu
      <4>2. cpu = Idle(i, none)
        BY <3>1
      <4> HIDE DEF none
      <4> QED BY <4>1, <4>2, Zenon
    <3>4. Fits(Vector(irr), << >>)
      <4>1. irr \in {12, 15}
        BY <1>2 DEF Interrupt, SetUp, Lines
      <4> QED BY <4>1 DEF Vector, Fits, WithErrorCode
    <3>5. s \in SUBSET {"slave", "master"}
      OBVIOUS
    <3>6. event'.vec = Vector(irr) /\ event'.err = << >>
      BY <2>2
    <3> HIDE DEF s
    <3> QED BY <2>1, <3>2, <3>3, <3>4, <3>5, <3>6, CpuEnters
  <2>4. CASE ~(gdt /\ Vector(irr) \in gates)
    <3>1. UNCHANGED <<cpu, inside>>
      BY <1>2, <2>4 DEF Interrupt
    <3> QED BY <2>1, <3>1 DEF CpuInv
  <2> QED BY <2>3, <2>4
<1>3. CASE irq_handler
  <2>1. inside /\ inside' = FALSE /\ cpu' = Returned(cpu) /\ at' = at /\ have_mouse' = have_mouse
    BY <1>3 DEF irq_handler
  <2>2. at = Done
    BY <2>1 DEF CpuInv
  <2>3. PICK i \in BOOLEAN, s \in SUBSET {"slave", "master"} :
          cpu = Entered(Idle(i, s), event.vec, event.err)
    BY <2>1 DEF CpuInv
  <2>4. Fits(event.vec, event.err)
    BY <2>1 DEF CpuInv
  <2>5. \E x \in BOOLEAN : cpu' = Idle(x, {})
    <3> DEFINE vec == event.vec
               err == event.err
    <3>1. Fits(vec, err) /\ cpu = Entered(Idle(i, s), vec, err)
      BY <2>3, <2>4
    <3> HIDE DEF vec, err
    <3>2. \E x \in BOOLEAN : Returned(Entered(Idle(i, s), vec, err)) = Idle(x, {})
      BY <3>1, ReturnedIs
    <3> QED BY <2>1, <3>1, <3>2
  <2> QED BY <2>1, <2>2, <2>5 DEF CpuInv
<1>4. CASE fault_handler
  <2>1. inside /\ UNCHANGED <<at, have_mouse, cpu, inside, event>>
    BY <1>4 DEF fault_handler, startVars, cpuVars
  <2>2. at = Done
    BY <2>1 DEF CpuInv
  <2> QED BY <2>1, <2>2, CpuSame
<1> QED BY <1>1, <1>2, <1>3, <1>4

(* For every exception and every IRQ of the mouse, wherever it comes: the  *)
(* processor in a handler is the program's with the frame on top, and the  *)
(* program's again after it (isr.asm, irq_handler, fault_handler).         *)
THEOREM KernelCpuInvariant == Spec => []CpuInv
<1>1. CpuInv /\ SetUp /\ [Next]_vars => CpuInv'
  <2> SUFFICES ASSUME CpuInv, SetUp, [Next]_vars PROVE CpuInv'
    OBVIOUS
  <2>1. CASE UNCHANGED vars
    BY <2>1 DEF vars, startVars, progVars, cpuVars, CpuInv
  <2>2. CASE Next
    BY <2>2, CpuStart, CpuDevices, CpuWrites, CpuShell, CpuInterrupts DEF Next
  <2> QED BY <2>1, <2>2
<1> QED BY <1>1, CpuInvInit, KernelSetUp, PTL DEF Spec

(* The program goes on with its registers and its stack as they were when  *)
(* it was interrupted, and both interrupt controllers have had their EOI   *)
(* (isr.asm, irq_handler).                                                 *)
THEOREM KernelHandlerTransparent == Spec => []HandlerTransparent
<1>1. CpuInv => HandlerTransparent
  <2> SUFFICES ASSUME CpuInv, ~inside
               PROVE  cpu.regs = ProgramRegs /\ cpu.stack = << >> /\ cpu.serving = {}
    BY DEF HandlerTransparent
  <2>1. PICK i \in BOOLEAN : cpu = Idle(i, {})
    BY DEF CpuInv
  <2> QED BY <2>1, IdleFields
<1> QED BY <1>1, KernelCpuInvariant, PTL

LEMMA ConcatAt ==
  ASSUME NEW V, NEW x \in Seq(V), NEW y \in Seq(V)
  PROVE  /\ x \o y \in Seq(V) /\ Len(x \o y) = Len(x) + Len(y)
         /\ \A k \in 1 .. Len(x) : (x \o y)[k] = x[k]
         /\ \A k \in 1 .. Len(y) : (x \o y)[Len(x) + k] = y[k]
BY ConcatProperties

Place(f) == CHOOSE i \in DOMAIN Fields : Fields[i] = f

LEMMA FieldPlaces ==
  /\ \A i \in 1 .. 17 : Place(Fields[i]) = i
  /\ Fields[13] = "int_no" /\ Fields[14] = "err_code"
  /\ Fields[15] = "eip" /\ Fields[16] = "cs" /\ Fields[17] = "eflags"
<1>1. DOMAIN Fields = 1 .. 17
  BY DEF Fields
<1>2. /\ Fields[13] = "int_no" /\ Fields[14] = "err_code"
      /\ Fields[15] = "eip" /\ Fields[16] = "cs" /\ Fields[17] = "eflags"
  BY DEF Fields
<1>3. \A i, k \in 1 .. 17 : Fields[i] = Fields[k] => i = k
  BY DEF Fields
<1> HIDE DEF Fields
<1>4. ASSUME NEW i \in 1 .. 17 PROVE Place(Fields[i]) = i
  <2>1. \E k \in DOMAIN Fields : Fields[k] = Fields[i]
    BY <1>1
  <2>2. Place(Fields[i]) \in 1 .. 17 /\ Fields[Place(Fields[i])] = Fields[i]
    BY <1>1, <2>1 DEF Place
  <2> QED BY <1>3, <2>2
<1> QED BY <1>2, <1>4

(* What fault_regs_t lies over, of the stack that the processor and the    *)
(* stubs have built, with an error code and without one (idt.h, isr.asm):  *)
(* the upper five words under their names, the twelve registers below them *)
(* in the reverse order of their pushes, whatever the struct calls them.   *)
THEOREM KernelFrameRead == Spec => []FrameRead
<1>1. CpuInv => FrameRead
  <2> SUFFICES ASSUME CpuInv, inside PROVE FrameRead
    BY DEF FrameRead
  <2> DEFINE vec   == event.vec
             err   == event.err
             words == err \o Stub(vec)
             segs  == OfProgram(SegRegs)
             all   == OfProgram(Pusha)
             stack == (Taken(vec, err) \o segs) \o all
  <2>1. Fits(vec, err) /\ \E i, s : cpu = Entered(Idle(i, s), vec, err)
    BY DEF CpuInv
  <2>2. cpu.stack = stack
    <3>1. PICK i, s : cpu = Entered(Idle(i, s), vec, err)
      BY <2>1
    <3>2. cpu = Cpu(ProgramRegs, stack, FALSE, s)
      BY <3>1, EnteredIs
    <3> HIDE DEF stack
    <3> QED BY <3>2 DEF Cpu
  <2> HIDE DEF vec, err
  <2>3. segs \in Seq(Words) /\ Len(segs) = 4 /\ all \in Seq(Words) /\ Len(all) = 8
    <3>1. DOMAIN SegRegs = 1 .. 4 /\ DOMAIN Pusha = 1 .. 8
      BY DEF SegRegs, Pusha
    <3>2. \A i \in DOMAIN SegRegs : ProgramRegs[SegRegs[i]] \in Words
      BY Registers
    <3>3. \A i \in DOMAIN Pusha : ProgramRegs[Pusha[i]] \in Words
      BY Registers
    <3> QED BY <3>1, <3>2, <3>3 DEF OfProgram, ValuesOf
  <2>4. /\ Frame \in Seq(Words) /\ Len(Frame) = 3 /\ words \in Seq(Words) /\ Len(words) = 2
        /\ Taken(vec, err) = Frame \o words /\ Frame[3] = ProgramRegs[Frame3[3]]
    BY <2>1, TakenSeq
  <2> HIDE DEF segs, all
  <2>5. /\ Len(stack) = 17 /\ \A k \in 1 .. 3 : stack[k] = Frame[k]
        /\ stack[4] = words[1] /\ stack[5] = words[2]
        /\ \A k \in 1 .. 4 : stack[5 + k] = segs[k]
        /\ \A k \in 1 .. 8 : stack[9 + k] = all[k]
    <3> HIDE DEF words
    <3>0. \A x, y \in Seq(Words) :
            /\ x \o y \in Seq(Words) /\ Len(x \o y) = Len(x) + Len(y)
            /\ \A k \in 1 .. Len(x) : (x \o y)[k] = x[k]
            /\ \A k \in 1 .. Len(y) : (x \o y)[Len(x) + k] = y[k]
      BY ConcatAt
    <3> DEFINE taken == Frame \o words
               lower == taken \o segs
    <3>1. /\ taken \in Seq(Words) /\ Len(taken) = 5
          /\ \A k \in 1 .. 3 : taken[k] = Frame[k]
          /\ taken[4] = words[1] /\ taken[5] = words[2]
      <4>1. /\ taken \in Seq(Words) /\ Len(taken) = Len(Frame) + Len(words)
            /\ \A k \in 1 .. Len(Frame) : taken[k] = Frame[k]
            /\ \A k \in 1 .. Len(words) : taken[Len(Frame) + k] = words[k]
        BY <2>4, <3>0, Zenon
      <4> HIDE DEF taken
      <4> QED BY <2>4, <4>1
    <3> HIDE DEF taken
    <3>2. /\ lower \in Seq(Words) /\ Len(lower) = 9
          /\ \A k \in 1 .. 5 : lower[k] = taken[k]
          /\ \A k \in 1 .. 4 : lower[5 + k] = segs[k]
      <4>1. /\ lower \in Seq(Words) /\ Len(lower) = Len(taken) + Len(segs)
            /\ \A k \in 1 .. Len(taken) : lower[k] = taken[k]
            /\ \A k \in 1 .. Len(segs) : lower[Len(taken) + k] = segs[k]
        BY <2>3, <3>0, <3>1, Zenon
      <4> HIDE DEF lower
      <4> QED BY <2>3, <3>1, <4>1
    <3> HIDE DEF lower
    <3> DEFINE whole == lower \o all
    <3>3. /\ Len(whole) = 17 /\ \A k \in 1 .. 9 : whole[k] = lower[k]
          /\ \A k \in 1 .. 8 : whole[9 + k] = all[k]
      <4>1. /\ Len(whole) = Len(lower) + Len(all)
            /\ \A k \in 1 .. Len(lower) : whole[k] = lower[k]
            /\ \A k \in 1 .. Len(all) : whole[Len(lower) + k] = all[k]
        BY <2>3, <3>0, <3>2, Zenon
      <4> HIDE DEF whole
      <4> QED BY <2>3, <3>2, <4>1
    <3>4. stack = whole
      BY <2>4 DEF lower, taken, whole
    <3> HIDE DEF whole
    <3>5. \A k \in 1 .. 4 : whole[5 + k] = segs[k]
      <4>1. \A k \in 1 .. 4 : 5 + k \in 1 .. 9
        OBVIOUS
      <4> QED BY <3>2, <3>3, <4>1
    <3>6. \A k \in 1 .. 3 : whole[k] = Frame[k]
      BY <3>1, <3>2, <3>3
    <3>7. whole[4] = words[1] /\ whole[5] = words[2]
      BY <3>1, <3>2, <3>3
    <3> QED BY <3>3, <3>4, <3>5, <3>6, <3>7
  <2>6. words[2] = vec /\ <<words[1]>> = (IF err = << >> THEN <<0>> ELSE err)
    <3>1. vec \in Nat /\ err \in Seq(Int)
      BY <2>1 DEF Fits
    <3>2. CASE vec \in WithErrorCode
      <4>1. Stub(vec) = <<vec>> /\ Len(err) = 1
        BY <2>1, <3>2 DEF Stub, ISR_ERR, Fits
      <4>2. err = <<err[1]>>
        BY <3>1, <4>1
      <4>3. words[1] = err[1] /\ words[2] = vec
        <5> DEFINE stub == Stub(vec)
        <5>1. err \in Seq(Int) /\ Len(err) = 1 /\ stub \in Seq(Int) /\ Len(stub) = 1 /\ stub[1] = vec
          BY <3>1, <4>1
        <5>2. words = err \o stub
          OBVIOUS
        <5>3. \A x, y \in Seq(Int) :
                /\ \A k \in 1 .. Len(x) : (x \o y)[k] = x[k]
                /\ \A k \in 1 .. Len(y) : (x \o y)[Len(x) + k] = y[k]
          BY ConcatAt
        <5> HIDE DEF stub, words
        <5>4. /\ \A k \in 1 .. Len(err) : words[k] = err[k]
              /\ \A k \in 1 .. Len(stub) : words[Len(err) + k] = stub[k]
          BY <5>1, <5>2, <5>3, Zenon
        <5>5. words[1] = err[1] /\ words[1 + 1] = stub[1]
          BY <5>1, <5>4
        <5> QED BY <5>1, <5>5
      <4> QED BY <4>1, <4>2, <4>3
    <3>3. CASE vec \notin WithErrorCode
      <4>1. Stub(vec) = <<0, vec>> /\ Len(err) = 0
        <5>1. 32 + (vec - 32) = vec
          BY <3>1
        <5> QED BY <2>1, <3>3, <5>1 DEF Stub, ISR_NOERR, IRQ_S, Fits
      <4>2. err = << >>
        BY <3>1, <4>1
      <4>3. words = <<0, vec>>
        BY <4>1, <4>2
      <4> QED BY <4>2, <4>3
    <3> QED BY <3>2, <3>3
  <2>7. \A k \in 1 .. 3 : Frame[k] = ProgramRegs[Frame3[k]]
    <3>1. DOMAIN Frame3 = 1 .. 3
      BY DEF Frame3
    <3> QED BY <3>1 DEF Frame, OfProgram, ValuesOf
  <2>8. /\ \A k \in 1 .. 4 : segs[k] = ProgramRegs[SegRegs[k]]
        /\ \A k \in 1 .. 8 : all[k] = ProgramRegs[Pusha[k]]
    <3>1. DOMAIN SegRegs = 1 .. 4 /\ DOMAIN Pusha = 1 .. 8
      BY DEF SegRegs, Pusha
    <3> QED BY <3>1 DEF OfProgram, ValuesOf, segs, all
  <2> HIDE DEF stack, words
  <2>9. \A i \in 1 .. 17 : Field(cpu, Fields[i]) = stack[18 - i]
    <3>1. \A f : Field(cpu, f) = cpu.stack[Len(cpu.stack) + 1 - Place(f)]
      BY DEF Field, Place
    <3>2. \A i \in 1 .. 17 : 17 + 1 - i = 18 - i
      OBVIOUS
    <3> QED BY <2>2, <2>5, <3>1, <3>2, FieldPlaces
  <2>10. Field(cpu, "int_no") = stack[5] /\ Field(cpu, "err_code") = stack[4]
    <3>1. /\ Field(cpu, Fields[13]) = stack[18 - 13] /\ Field(cpu, Fields[14]) = stack[18 - 14]
      BY <2>9
    <3> QED BY <3>1, FieldPlaces
  <2>11. \A f \in {"eip", "cs", "eflags"} : Field(cpu, f) = ProgramRegs[f]
    <3>1. Frame3[3] = "eip" /\ Frame3[2] = "cs" /\ Frame3[1] = "eflags"
      BY DEF Frame3
    <3>2. /\ Field(cpu, Fields[15]) = stack[18 - 15] /\ Field(cpu, Fields[16]) = stack[18 - 16]
          /\ Field(cpu, Fields[17]) = stack[18 - 17]
      BY <2>9
    <3>3. /\ Field(cpu, "eip") = stack[3] /\ Field(cpu, "cs") = stack[2]
          /\ Field(cpu, "eflags") = stack[1]
      BY <3>2, FieldPlaces
    <3> QED BY <2>5, <2>7, <3>1, <3>3
  <2>12. ASSUME NEW i \in 1 .. 12
         PROVE  Field(cpu, Fields[i]) = ProgramRegs[(SegRegs \o Pusha)[13 - i]]
    <3>1. \A k \in 1 .. 12 : (SegRegs \o Pusha)[k] = IF k <= 4 THEN SegRegs[k] ELSE Pusha[k - 4]
      BY DEF SegRegs, Pusha
    <3>2. 13 - i \in 1 .. 12 /\ i \in 1 .. 17 /\ Field(cpu, Fields[i]) = stack[18 - i]
      BY <2>9
    <3>3. CASE 13 - i <= 4
      <4>1. 13 - i \in 1 .. 4 /\ 18 - i = 5 + (13 - i)
        BY <3>3
      <4>2. stack[5 + (13 - i)] = segs[13 - i] /\ segs[13 - i] = ProgramRegs[SegRegs[13 - i]]
        BY <2>5, <2>8, <4>1
      <4> QED BY <3>1, <3>2, <3>3, <4>1, <4>2
    <3>4. CASE ~(13 - i <= 4)
      <4>1. 9 - i \in 1 .. 8 /\ 18 - i = 9 + (9 - i) /\ 13 - i - 4 = 9 - i
        BY <3>4
      <4>2. stack[9 + (9 - i)] = all[9 - i] /\ all[9 - i] = ProgramRegs[Pusha[9 - i]]
        BY <2>5, <2>8, <4>1
      <4> QED BY <3>1, <3>2, <3>4, <4>1, <4>2
    <3> QED BY <3>3, <3>4
  <2> QED BY <2>5, <2>6, <2>10, <2>11, <2>12 DEF FrameRead, vec, err
<1> QED BY <1>1, KernelCpuInvariant, PTL

-----------------------------------------------------------------------------
(* The console.  Places on the screen:                                     *)
LEMMA Places ==
  ASSUME NEW row \in 0 .. VGA_ROWS - 1, NEW col \in 0 .. VGA_COLS - 1
  PROVE  /\ VGA_COLS \in Nat \ {0} /\ VGA_ROWS \in Nat \ {0}
         /\ VGA_ROWS * VGA_COLS \in Nat /\ (VGA_ROWS - 1) * VGA_COLS \in Nat
         /\ VGA_ROWS * VGA_COLS = (VGA_ROWS - 1) * VGA_COLS + VGA_COLS
         /\ row * VGA_COLS \in Nat
         /\ row = VGA_ROWS - 1 => row * VGA_COLS = (VGA_ROWS - 1) * VGA_COLS
         /\ row < VGA_ROWS - 1 => row * VGA_COLS + VGA_COLS <= (VGA_ROWS - 1) * VGA_COLS
         /\ row <= VGA_ROWS - 1 => row * VGA_COLS <= (VGA_ROWS - 1) * VGA_COLS
         /\ (row + 1) * VGA_COLS = row * VGA_COLS + VGA_COLS
         /\ row > 0 => (row - 1) * VGA_COLS = row * VGA_COLS - VGA_COLS /\ row * VGA_COLS >= VGA_COLS
         /\ row = 0 => row * VGA_COLS = 0
<1>0. VGA_COLS \in Nat \ {0} /\ VGA_ROWS \in Nat \ {0}
  BY ConsoleAssumption
<1> DEFINE C == VGA_COLS
           R == VGA_ROWS
<1>1. C \in Nat \ {0} /\ R \in Nat \ {0} /\ row \in 0 .. R - 1
  BY <1>0
<1> HIDE DEF C, R
<1>2. /\ R * C \in Nat /\ (R - 1) * C \in Nat /\ R * C = (R - 1) * C + C /\ row * C \in Nat
      /\ (row + 1) * C = row * C + C
  BY <1>1
<1>3. \A m \in Nat : row + m = R - 1 => row * C + m * C = (R - 1) * C /\ m * C \in Nat
  BY <1>1
<1>4. \A m \in Nat : m > 0 => m * C >= C
  BY <1>1
<1>5. row < R - 1 => row * C + C <= (R - 1) * C
  <2>1. row < R - 1 => R - 1 - row \in Nat /\ R - 1 - row > 0 /\ row + (R - 1 - row) = R - 1
    BY <1>1
  <2>2. row < R - 1 => /\ row * C + (R - 1 - row) * C = (R - 1) * C
                       /\ (R - 1 - row) * C >= C /\ (R - 1 - row) * C \in Nat
    BY <1>3, <1>4, <2>1
  <2> DEFINE m == (R - 1 - row) * C
  <2> HIDE DEF m
  <2>3. row < R - 1 => row * C + m = (R - 1) * C /\ m >= C /\ m \in Nat
    BY <2>2 DEF m
  <2> QED BY <1>1, <1>2, <2>3
<1>6. row = R - 1 => row * C = (R - 1) * C
  OBVIOUS
<1>7. row > 0 => (row - 1) * C = row * C - C /\ row * C >= C
  BY <1>1, <1>4
<1>8. row = 0 => row * C = 0
  BY <1>1
<1>9. row <= R - 1 => row * C <= (R - 1) * C
  BY <1>1, <1>2, <1>5, <1>6
<1> QED BY <1>1, <1>2, <1>5, <1>6, <1>7, <1>8, <1>9 DEF C, R

(* One character: a new line, the cursor to the start of the row, or a     *)
(* cell.                                                                   *)
Rolled(v) == [c \in Cells |-> IF c + VGA_COLS \in Cells THEN v[c + VGA_COLS] ELSE Space]

LEMMA NewlineIs ==
  ASSUME NEW s, NEW t, s.vga \in [Cells -> Chars], s.row \in 0 .. VGA_ROWS - 1,
         s = [vga |-> s.vga, row |-> s.row, col |-> s.col],
         t = vga_newline(s)
  PROVE  /\ t \in Screens /\ t.col = 0
         /\ \/ s.row < VGA_ROWS - 1 /\ t.row = s.row + 1 /\ t.vga = s.vga
            \/ s.row = VGA_ROWS - 1 /\ t.row = s.row /\ t.vga = Rolled(s.vga)
<1>0. VGA_COLS \in Nat \ {0} /\ VGA_ROWS \in Nat \ {0} /\ Space \in Chars
  BY ConsoleAssumption
<1>1. CASE s.row + 1 >= VGA_ROWS
  <2>1. t = [vga |-> Rolled(s.vga), row |-> s.row, col |-> 0]
    BY <1>1 DEF vga_newline, vga_scroll, Rolled
  <2>2. Rolled(s.vga) \in [Cells -> Chars]
    BY <1>0 DEF Rolled
  <2> QED BY <1>0, <1>1, <2>1, <2>2 DEF Screens, ScreensOf
<1>2. CASE ~(s.row + 1 >= VGA_ROWS)
  <2>1. t = [vga |-> s.vga, row |-> s.row + 1, col |-> 0]
    BY <1>2 DEF vga_newline
  <2> QED BY <1>0, <1>2, <2>1 DEF Screens, ScreensOf
<1> QED BY <1>1, <1>2

LEMMA CursorAt ==
  ASSUME NEW s, s.row \in 0 .. VGA_ROWS - 1, s.col \in 0 .. VGA_COLS - 1
  PROVE  /\ CursorCell(s) = s.row * VGA_COLS + s.col /\ CursorCell(s) \in Cells
         /\ CursorCell(s) \in Nat
<1> DEFINE x == s.row * VGA_COLS
           y == (VGA_ROWS - 1) * VGA_COLS
           z == VGA_ROWS * VGA_COLS
<1>2. x \in Nat /\ y \in Nat /\ z = y + VGA_COLS /\ x <= y /\ VGA_COLS \in Nat
  BY Places
<1> HIDE DEF x, y, z
<1>3. x + s.col \in 0 .. z - 1
  BY <1>2
<1> QED BY <1>3 DEF CursorCell, CellOf, Cells, x, z

LEMMA CursorIn ==
  ASSUME NEW s \in Screens
  PROVE  /\ CursorCell(s) = s.row * VGA_COLS + s.col /\ CursorCell(s) \in Cells
         /\ CursorCell(s) \in Nat
<1>1. s.row \in 0 .. VGA_ROWS - 1 /\ s.col \in 0 .. VGA_COLS - 1
  BY DEF Screens, ScreensOf
<1> QED BY <1>1, CursorAt

LEMMA CharIs ==
  ASSUME NEW s \in Screens, NEW ch \in Chars \ {Newline, Return}, NEW t, t = vga_putchar(s, ch)
  PROVE  LET at_ == CursorCell(s)
             v   == [s.vga EXCEPT ![at_] = ch]
         IN  /\ t \in Screens
             /\ \/ CursorCell(t) = at_ + 1 /\ t.vga = v /\ ~Scrolls(s, ch)
                \/ /\ at_ = VGA_ROWS * VGA_COLS - 1 /\ s.row = VGA_ROWS - 1 /\ Scrolls(s, ch)
                   /\ CursorCell(t) = (VGA_ROWS - 1) * VGA_COLS
                   /\ t.vga = Rolled(v)
             /\ t.row \in {s.row, s.row + 1} /\ (t.vga = v \/ t.row = s.row)
<1> DEFINE k == CursorCell(s)
           v == [s.vga EXCEPT ![k] = ch]
           w == [vga |-> v, row |-> s.row, col |-> s.col + 1]
<1>0. /\ s.vga \in [Cells -> Chars] /\ s.row \in 0 .. VGA_ROWS - 1 /\ s.col \in 0 .. VGA_COLS - 1
      /\ VGA_COLS \in Nat \ {0} /\ VGA_ROWS \in Nat \ {0}
      /\ s = [vga |-> s.vga, row |-> s.row, col |-> s.col]
  BY ConsoleAssumption DEF Screens, ScreensOf
<1>1. v \in [Cells -> Chars]
  BY <1>0
<1>2. t = IF s.col + 1 >= VGA_COLS THEN vga_newline(w) ELSE w
  BY <1>0 DEF vga_putchar, vga_put_at, CursorCell, CellOf, Screens, ScreensOf
<1> HIDE DEF v
<1>3. CASE s.col + 1 < VGA_COLS
  <2>1. t = w
    BY <1>0, <1>2, <1>3
  <2>2. t \in Screens
    BY <1>0, <1>1, <1>3, <2>1 DEF Screens, ScreensOf
  <2>3. CursorCell(t) = k + 1
    BY <1>0, <1>3, <2>1, Places DEF CursorCell, CellOf
  <2>4. ~Scrolls(s, ch)
    BY <1>0, <1>3 DEF Scrolls
  <2> QED BY <2>1, <2>2, <2>3, <2>4 DEF v
<1>4. CASE s.col + 1 >= VGA_COLS
  <2>1. t = vga_newline(w) /\ s.col = VGA_COLS - 1
    BY <1>0, <1>2, <1>4
  <2>2. w.vga = v /\ w.row = s.row /\ w = [vga |-> w.vga, row |-> w.row, col |-> w.col]
    OBVIOUS
  <2> HIDE DEF w
  <2>3. /\ t \in Screens /\ t.col = 0
        /\ \/ s.row < VGA_ROWS - 1 /\ t.row = s.row + 1 /\ t.vga = v
           \/ s.row = VGA_ROWS - 1 /\ t.row = s.row /\ t.vga = Rolled(v)
    BY <1>0, <1>1, <2>1, <2>2, NewlineIs
  <2>4. k = s.row * VGA_COLS + (VGA_COLS - 1)
    BY <2>1 DEF CursorCell, CellOf
  <2>5. CursorCell(t) = t.row * VGA_COLS
    BY <1>0, <2>3, Places DEF CursorCell, CellOf, Screens, ScreensOf
  <2>6. CASE s.row < VGA_ROWS - 1 /\ t.row = s.row + 1 /\ t.vga = v
    <3>1. CursorCell(t) = s.row * VGA_COLS + VGA_COLS
      BY <1>0, <2>5, <2>6, Places
    <3>2. CursorCell(t) = k + 1
      BY <1>0, <2>4, <3>1, Places
    <3>3. ~Scrolls(s, ch)
      BY <1>0, <2>6 DEF Scrolls
    <3> QED BY <2>3, <2>6, <3>2, <3>3 DEF v
  <2>7. CASE s.row = VGA_ROWS - 1 /\ t.row = s.row /\ t.vga = Rolled(v)
    <3>1. CursorCell(t) = (VGA_ROWS - 1) * VGA_COLS
      BY <2>5, <2>7
    <3>2. k = VGA_ROWS * VGA_COLS - 1
      BY <1>0, <2>4, <2>7, Places
    <3>3. Scrolls(s, ch)
      BY <1>0, <1>4, <2>7 DEF Scrolls
    <3> QED BY <2>3, <2>7, <3>1, <3>2, <3>3 DEF v
  <2> QED BY <2>3, <2>6, <2>7
<1> QED BY <1>0, <1>3, <1>4

(* What the console has left: nothing at and behind the cursor (Clean),    *)
(* nothing below its row (CleanBelow), a string in front of it (Holds).    *)
Empties == {Space, Ink}

Clean(s)      == \A c \in Cells : c >= CursorCell(s) => s.vga[c] \in Empties
CleanBelow(s) == \A c \in Cells : c >= s.row * VGA_COLS + VGA_COLS => s.vga[c] \in Empties

Holds(s, str) ==
  /\ CursorCell(s) - Len(str) >= 0
  /\ \A i \in 1 .. Len(str) : s.vga[CursorCell(s) - Len(str) + i - 1] = str[i]

LEMMA CleanIsBelow ==
  ASSUME NEW s \in Screens, Clean(s)
  PROVE  CleanBelow(s)
<1>1. s.row \in 0 .. VGA_ROWS - 1 /\ s.col \in 0 .. VGA_COLS - 1
  BY DEF Screens, ScreensOf
<1>2. CursorCell(s) = s.row * VGA_COLS + s.col /\ s.row * VGA_COLS \in Nat /\ VGA_COLS \in Nat
  BY <1>1, CursorIn, Places
<1>3. CursorCell(s) <= s.row * VGA_COLS + VGA_COLS
  BY <1>1, <1>2
<1>4. \A c \in Cells : c \in Int
  BY DEF Cells
<1>5. \A c \in Cells : c >= s.row * VGA_COLS + VGA_COLS => c >= CursorCell(s)
  BY <1>1, <1>2, <1>3, <1>4
<1> QED BY <1>5 DEF Clean, CleanBelow

(* Scrolling rolls the empty cells up with the others.                     *)
LEMMA RolledEmpties ==
  ASSUME NEW v, NEW k \in Int, \A c \in Cells : c >= k => v[c] \in Empties
  PROVE  \A c \in Cells : c >= k - VGA_COLS => Rolled(v)[c] \in Empties
<1>1. VGA_COLS \in Nat /\ \A c \in Cells : c \in Int
  BY ConsoleAssumption DEF Cells
<1>2. ASSUME NEW c \in Cells, c >= k - VGA_COLS PROVE Rolled(v)[c] \in Empties
  <2>1. CASE c + VGA_COLS \in Cells
    <3>1. c + VGA_COLS >= k
      BY <1>1, <1>2
    <3> QED BY <2>1, <3>1 DEF Rolled
  <2>2. CASE c + VGA_COLS \notin Cells
    BY <2>2 DEF Rolled, Empties
  <2> QED BY <2>1, <2>2
<1> QED BY <1>2

LEMMA NewlineClean ==
  ASSUME NEW s \in Screens, CleanBelow(s), NEW t, t = vga_newline(s)
  PROVE  t \in Screens /\ Clean(t)
<1>0. /\ s.vga \in [Cells -> Chars] /\ s.row \in 0 .. VGA_ROWS - 1 /\ s.col \in 0 .. VGA_COLS - 1
      /\ s = [vga |-> s.vga, row |-> s.row, col |-> s.col]
  BY DEF Screens, ScreensOf
<1>1. /\ t \in Screens /\ t.col = 0
      /\ \/ s.row < VGA_ROWS - 1 /\ t.row = s.row + 1 /\ t.vga = s.vga
         \/ s.row = VGA_ROWS - 1 /\ t.row = s.row /\ t.vga = Rolled(s.vga)
  BY <1>0, NewlineIs
<1>2. CursorCell(t) = t.row * VGA_COLS
  BY <1>1, CursorIn, Places DEF Screens, ScreensOf
<1>3. /\ s.row * VGA_COLS \in Nat /\ VGA_COLS \in Nat
      /\ (s.row + 1) * VGA_COLS = s.row * VGA_COLS + VGA_COLS
  BY <1>0, Places
<1>4. CASE s.row < VGA_ROWS - 1 /\ t.row = s.row + 1 /\ t.vga = s.vga
  <2>1. CursorCell(t) = s.row * VGA_COLS + VGA_COLS
    BY <1>2, <1>3, <1>4
  <2> QED BY <1>1, <1>4, <2>1 DEF CleanBelow, Clean
<1>5. CASE s.row = VGA_ROWS - 1 /\ t.row = s.row /\ t.vga = Rolled(s.vga)
  <2> DEFINE k == s.row * VGA_COLS + VGA_COLS
  <2>1. k \in Int /\ CursorCell(t) = k - VGA_COLS
    BY <1>2, <1>3, <1>5
  <2>2. \A c \in Cells : c >= k => s.vga[c] \in Empties
    BY DEF CleanBelow
  <2> HIDE DEF k
  <2>3. \A c \in Cells : c >= k - VGA_COLS => Rolled(s.vga)[c] \in Empties
    BY <2>1, <2>2, RolledEmpties
  <2> QED BY <1>1, <1>5, <2>1, <2>3 DEF Clean
<1> QED BY <1>1, <1>4, <1>5

LEMMA CharBelow ==
  ASSUME NEW s \in Screens, CleanBelow(s), NEW ch \in Chars, NEW t, t = vga_putchar(s, ch)
  PROVE  t \in Screens /\ CleanBelow(t) /\ (ch = Newline => Clean(t))
<1>0. /\ s.vga \in [Cells -> Chars] /\ s.row \in 0 .. VGA_ROWS - 1 /\ s.col \in 0 .. VGA_COLS - 1
      /\ s = [vga |-> s.vga, row |-> s.row, col |-> s.col]
      /\ Newline # Return /\ VGA_COLS \in Nat \ {0} /\ \A c \in Cells : c \in Int
  BY ConsoleAssumption DEF Screens, ScreensOf, Cells
<1>1. CASE ch = Newline
  <2>1. t = vga_newline(s)
    BY <1>1 DEF vga_putchar
  <2> QED BY <2>1, NewlineClean, CleanIsBelow
<1>2. CASE ch = Return
  <2>1. t = [vga |-> s.vga, row |-> s.row, col |-> 0]
    BY <1>0, <1>2 DEF vga_putchar
  <2> QED BY <1>0, <1>2, <2>1 DEF Screens, ScreensOf, CleanBelow
<1>3. CASE ch \notin {Newline, Return}
  <2> DEFINE k == CursorCell(s)
             v == [s.vga EXCEPT ![k] = ch]
             e == s.row * VGA_COLS + VGA_COLS
  <2>1. /\ t \in Screens
        /\ t.vga = v \/ (k = VGA_ROWS * VGA_COLS - 1 /\ s.row = VGA_ROWS - 1 /\ t.vga = Rolled(v))
        /\ t.row \in {s.row, s.row + 1} /\ (t.vga = v \/ t.row = s.row)
    BY <1>3, CharIs
  <2>2. /\ k \in Cells /\ k = s.row * VGA_COLS + s.col /\ s.row * VGA_COLS \in Nat
        /\ (s.row + 1) * VGA_COLS = e
    BY <1>0, CursorIn, Places
  <2>3. e \in Int /\ k < e
    BY <1>0, <2>2
  <2>4. ASSUME NEW c \in Cells, c >= e PROVE v[c] \in Empties
    <3>1. c # k
      BY <1>0, <2>3, <2>4
    <3> QED BY <1>0, <2>4, <3>1 DEF CleanBelow
  <2> HIDE DEF v
  <2>5. CASE t.vga = v
    <3>1. t.row * VGA_COLS + VGA_COLS \in {e, e + VGA_COLS}
      BY <2>1, <2>2
    <3>2. \A c \in Cells : c >= t.row * VGA_COLS + VGA_COLS => c >= e
      BY <1>0, <2>3, <3>1
    <3> QED BY <1>3, <2>1, <2>4, <2>5, <3>2 DEF CleanBelow
  <2>6. CASE s.row = VGA_ROWS - 1 /\ t.vga = Rolled(v) /\ t.row = s.row
    <3> HIDE DEF e
    <3>1. \A c \in Cells : c >= e - VGA_COLS => Rolled(v)[c] \in Empties
      BY <2>3, <2>4, RolledEmpties
    <3>2. \A c \in Cells : c >= e => c >= e - VGA_COLS
      BY <1>0, <2>3
    <3> QED BY <1>3, <2>1, <2>6, <3>1, <3>2 DEF CleanBelow, e
  <2> QED BY <2>1, <2>5, <2>6
<1> QED BY <1>1, <1>2, <1>3

(* A character of a line joins the string in front of the cursor; what is  *)
(* in front of that stays, or scrolls by a row.                            *)
Before(s, n) == CursorCell(s) - n       \* where the string of length n begins

AboveKept(s, m, t, n) ==
  LET up == Before(s, m) - Before(t, n)
  IN  /\ up \in {0, VGA_COLS}
      /\ \A c \in 0 .. Before(t, n) - 1 : t.vga[c] = s.vga[c + up]

LEMMA CharHolds ==
  ASSUME NEW s \in Screens, Clean(s), NEW str \in Seq(Chars), Holds(s, str),
         Len(str) + 1 <= (VGA_ROWS - 1) * VGA_COLS,
         NEW ch \in Chars \ {Newline, Return}, NEW t, t = vga_putchar(s, ch)
  PROVE  /\ t \in Screens /\ Clean(t) /\ Holds(t, Append(str, ch))
         /\ AboveKept(s, Len(str), t, Len(str) + 1)
         /\ Before(s, Len(str)) - Before(t, Len(str) + 1) = IF Scrolls(s, ch) THEN VGA_COLS ELSE 0
<1> DEFINE k == CursorCell(s)
           n == Len(str)
           v == [s.vga EXCEPT ![k] = ch]
           size == VGA_ROWS * VGA_COLS
           last == (VGA_ROWS - 1) * VGA_COLS
           str1 == Append(str, ch)
<1>0. /\ s.vga \in [Cells -> Chars] /\ VGA_COLS \in Nat \ {0} /\ n \in Nat /\ k \in Cells /\ k \in Nat
      /\ size \in Nat /\ last \in Nat /\ size = last + VGA_COLS /\ n + 1 <= last
      /\ Cells = 0 .. size - 1 /\ k - n >= 0 /\ \A c \in Cells : c \in Int
  <2>1. s.vga \in [Cells -> Chars] /\ s.row \in 0 .. VGA_ROWS - 1 /\ s.col \in 0 .. VGA_COLS - 1
    BY DEF Screens, ScreensOf
  <2>2. k \in Cells /\ k \in Nat
    BY CursorIn
  <2>3. /\ VGA_COLS \in Nat \ {0} /\ size \in Nat /\ last \in Nat /\ size = last + VGA_COLS
    BY <2>1, Places
  <2>4. Cells = 0 .. size - 1 /\ \A c \in Cells : c \in Int
    BY DEF Cells
  <2>5. n \in Nat /\ n + 1 <= last /\ k - n >= 0
    BY DEF Holds
  <2> QED BY <2>1, <2>2, <2>3, <2>4, <2>5
<1>1. /\ t \in Screens
      /\ \/ CursorCell(t) = k + 1 /\ t.vga = v /\ ~Scrolls(s, ch)
         \/ k = size - 1 /\ CursorCell(t) = last /\ t.vga = Rolled(v) /\ Scrolls(s, ch)
  BY CharIs
<1>2. /\ Len(str1) = n + 1 /\ str1[n + 1] = ch /\ \A i \in 1 .. n : str1[i] = str[i]
  BY <1>0, AppendProperties
<1>3. /\ v[k] = ch /\ \A c \in Cells : c # k => v[c] = s.vga[c]
  BY <1>0
<1> HIDE DEF v, size, last, str1, k
<1>4. ASSUME NEW c \in Cells, c >= k + 1 PROVE v[c] \in Empties
  <2>1. c # k /\ c >= k
    BY <1>0, <1>4
  <2> QED BY <1>3, <2>1 DEF Clean, k
<1>5. ASSUME NEW i \in 1 .. n + 1 PROVE v[k - n + i - 1] = str1[i] /\ k - n + i - 1 \in Cells
  <2>1. i = n + 1 \/ i \in 1 .. n
    BY <1>0
  <2>2. CASE i = n + 1
    BY <1>0, <1>2, <1>3, <2>2
  <2>3. CASE i \in 1 .. n
    <3>1. k - n + i - 1 \in Cells /\ k - n + i - 1 # k
      BY <1>0, <2>3
    <3>2. s.vga[k - n + i - 1] = str[i]
      BY <2>3 DEF Holds, k
    <3> QED BY <1>2, <1>3, <2>3, <3>1, <3>2
  <2> QED BY <2>1, <2>2, <2>3
<1>6. CASE CursorCell(t) = k + 1 /\ t.vga = v /\ ~Scrolls(s, ch)
  <2>1. Clean(t)
    BY <1>4, <1>6 DEF Clean
  <2>2. ASSUME NEW i \in 1 .. n + 1 PROVE t.vga[k + 1 - (n + 1) + i - 1] = str1[i]
    <3>1. k + 1 - (n + 1) + i - 1 = k - n + i - 1
      BY <1>0
    <3> QED BY <1>5, <1>6, <3>1
  <2>3. Holds(t, str1)
    BY <1>0, <1>2, <1>6, <2>2 DEF Holds
  <2>4. Before(s, n) = k - n /\ Before(t, n + 1) = k - n
    BY <1>0, <1>6 DEF Before, k
  <2>5. ASSUME NEW c \in 0 .. k - n - 1 PROVE t.vga[c] = s.vga[c + 0]
    <3>1. c \in Cells /\ c # k /\ c + 0 = c
      BY <1>0
    <3> QED BY <1>3, <1>6, <3>1
  <2>6. AboveKept(s, n, t, n + 1)
    BY <1>0, <2>4, <2>5 DEF AboveKept
  <2> QED BY <1>0, <1>1, <1>6, <2>1, <2>3, <2>4, <2>6 DEF str1
<1>7. CASE k = size - 1 /\ CursorCell(t) = last /\ t.vga = Rolled(v) /\ Scrolls(s, ch)
  <2>0. \A c \in Cells : c + VGA_COLS \in Cells => t.vga[c] = v[c + VGA_COLS]
    BY <1>7 DEF Rolled
  <2>1. Clean(t)
    <3> DEFINE m == k + 1
    <3>1. m \in Int /\ m - VGA_COLS = last /\ \A c \in Cells : c >= m => v[c] \in Empties
      BY <1>0, <1>4, <1>7
    <3> HIDE DEF m
    <3>2. \A c \in Cells : c >= m - VGA_COLS => Rolled(v)[c] \in Empties
      BY <3>1, RolledEmpties
    <3> QED BY <1>7, <3>1, <3>2 DEF Clean
  <2>2. ASSUME NEW i \in 1 .. n + 1 PROVE t.vga[last - (n + 1) + i - 1] = str1[i]
    <3> DEFINE c == last - (n + 1) + i - 1
    <3>1. c \in Cells
      <4>1. c \in 0 .. last - 1
        BY <1>0
      <4> QED BY <1>0, <4>1
    <3>3. c + VGA_COLS = k - n + i - 1
      BY <1>0, <1>7
    <3> HIDE DEF c
    <3>2. t.vga[c] = str1[i]
      BY <1>5, <2>0, <3>1, <3>3
    <3> QED BY <3>2 DEF c
  <2>3. Holds(t, str1)
    BY <1>0, <1>2, <1>7, <2>2 DEF Holds
  <2>4. Before(s, n) = k - n /\ Before(t, n + 1) = k - n - VGA_COLS
    BY <1>0, <1>7 DEF Before, k
  <2>5. ASSUME NEW c \in 0 .. k - n - VGA_COLS - 1 PROVE t.vga[c] = s.vga[c + VGA_COLS]
    <3>1. c \in Cells /\ c + VGA_COLS \in Cells /\ c + VGA_COLS # k
      BY <1>0
    <3> QED BY <1>3, <2>0, <3>1
  <2>6. AboveKept(s, n, t, n + 1)
    <3>1. Before(s, n) - Before(t, n + 1) = VGA_COLS
      BY <1>0, <2>4
    <3>2. \A c \in 0 .. Before(t, n + 1) - 1 : t.vga[c] = s.vga[c + VGA_COLS]
      BY <2>4, <2>5
    <3> QED BY <3>1, <3>2 DEF AboveKept
  <2> QED BY <1>0, <1>1, <1>7, <2>1, <2>3, <2>4, <2>6 DEF str1
<1> QED BY <1>1, <1>6, <1>7

LEMMA CharScreen ==
  ASSUME NEW s \in Screens, NEW ch \in Chars
  PROVE  vga_putchar(s, ch) \in Screens
<1>0. /\ s.vga \in [Cells -> Chars] /\ s.row \in 0 .. VGA_ROWS - 1 /\ s.col \in 0 .. VGA_COLS - 1
      /\ s = [vga |-> s.vga, row |-> s.row, col |-> s.col]
      /\ Newline # Return /\ VGA_COLS \in Nat \ {0}
  BY ConsoleAssumption DEF Screens, ScreensOf
<1>1. CASE ch = Newline
  BY <1>0, <1>1, NewlineIs DEF vga_putchar
<1>2. CASE ch = Return
  <2>1. vga_putchar(s, ch) = [vga |-> s.vga, row |-> s.row, col |-> 0]
    BY <1>0, <1>2 DEF vga_putchar
  <2> QED BY <1>0, <2>1 DEF Screens, ScreensOf
<1>3. CASE ch \notin {Newline, Return}
  BY <1>3, CharIs
<1> QED BY <1>1, <1>2, <1>3

(* vga_print puts one character after the other.                           *)
LEMMA PrintTrace ==
  ASSUME NEW s \in Screens, NEW str \in Seq(Chars)
  PROVE  \E r \in [0 .. Len(str) -> Screens] :
           /\ r[0] = s /\ r[Len(str)] = vga_print(s, str)
           /\ \A k \in 1 .. Len(str) : r[k] = vga_putchar(r[k - 1], str[k])
<1> DEFINE n == Len(str)
           A == Screens
           G == [p \in A \X (1 .. n) |-> vga_putchar(p[1], str[p[2]])]
           Eq(h) == h = [x \in SUBSET (1 .. n) |->
                           IF x = {} THEN s ELSE vga_putchar(h[x \ {Max(x)}], str[Max(x)])]
           H == CHOOSE h : Eq(h)
<1>1. n \in Nat /\ s \in A /\ DOMAIN str = 1 .. n /\ \A k \in 1 .. n : str[k] \in Chars
  BY ElementOfSeq
<1>2. vga_print(s, str) = H[1 .. n]
  BY <1>1 DEF vga_print, FoldLeft, MapThenFoldSet
<1>3. \A a \in A, k \in 1 .. n : vga_putchar(a, str[k]) \in A
  BY <1>1, CharScreen
<1>4. \A a \in A, k \in 1 .. n : G[<<a, k>>] = vga_putchar(a, str[k])
  OBVIOUS
<1>5. G \in Steps(n, A)
  BY <1>3 DEF Steps
<1> HIDE DEF n, A, G
<1>6. PICK g \in Values(n, A) : IsFold(g, n, s, G)
  BY <1>1, <1>5, FoldExists
<1>7. Eq(g)
  <2>1. g \in [SUBSET (1 .. n) -> A]
    BY DEF Values
  <2>2. ASSUME NEW x \in SUBSET (1 .. n)
        PROVE  g[x] = IF x = {} THEN s ELSE vga_putchar(g[x \ {Max(x)}], str[Max(x)])
    <3>1. CASE x = {}
      BY <1>6, <3>1 DEF IsFold
    <3>2. CASE x # {}
      <4>1. Max(x) \in 1 .. n /\ g[x \ {Max(x)}] \in A
        BY <1>1, <2>1, <3>2, HighestIn
      <4>2. g[x] = G[<<g[x \ {Max(x)}], Max(x)>>]
        BY <1>6, <3>2 DEF IsFold
      <4> QED BY <1>4, <3>2, <4>1, <4>2
    <3> QED BY <3>1, <3>2
  <2> QED BY <2>1, <2>2
<1> HIDE DEF Eq
<1>8. Eq(H)
  BY <1>7
<1> HIDE DEF H
<1>9. Follows(H, n, A, s, G)
  <2>1. /\ H[{}] = s
        /\ \A x \in SUBSET (1 .. n) : x # {} => H[x] = vga_putchar(H[x \ {Max(x)}], str[Max(x)])
    BY <1>8 DEF Eq
  <2>2. \A x \in SUBSET (1 .. n) : x # {} => Max(x) \in 1 .. n
    BY <1>1, HighestIn
  <2> QED BY <1>4, <2>1, <2>2 DEF Follows
<1>10. PICK r \in Trace(n, A) : IsTrace(r, n, s, G) /\ r[n] = H[1 .. n]
  BY <1>1, <1>5, <1>9, FoldTrace
<1>11. r \in [0 .. n -> A] /\ r[0] = s /\ \A k \in 1 .. n : r[k] = G[<<r[k - 1], k>>]
  BY <1>10 DEF Trace, IsTrace
<1>12. \A k \in 1 .. n : r[k - 1] \in A
  BY <1>1, <1>11
<1>13. \A k \in 1 .. n : r[k] = vga_putchar(r[k - 1], str[k])
  BY <1>4, <1>11, <1>12
<1> QED BY <1>2, <1>10, <1>11, <1>13 DEF n, A

LEMMA PrintScreen ==
  ASSUME NEW s \in Screens, NEW str \in Seq(Chars)
  PROVE  vga_print(s, str) \in Screens
<1>1. PICK r \in [0 .. Len(str) -> Screens] : r[Len(str)] = vga_print(s, str)
  BY PrintTrace
<1>2. Len(str) \in 0 .. Len(str)
  OBVIOUS
<1> QED BY <1>1, <1>2

(* A line that is printed, whatever is in it, leaves nothing below itself, *)
(* and nothing behind the cursor when it ends with a new line.             *)
LEMMA PrintBelow ==
  ASSUME NEW s \in Screens, CleanBelow(s), NEW str \in Seq(Chars)
  PROVE  /\ vga_print(s, str) \in Screens /\ CleanBelow(vga_print(s, str))
         /\ str # << >> /\ str[Len(str)] = Newline => Clean(vga_print(s, str))
         /\ str = << >> => vga_print(s, str) = s
<1> DEFINE n == Len(str)
<1>1. PICK r \in [0 .. n -> Screens] :
        /\ r[0] = s /\ r[n] = vga_print(s, str)
        /\ \A k \in 1 .. n : r[k] = vga_putchar(r[k - 1], str[k])
  BY PrintTrace
<1>2. n \in Nat /\ \A k \in 1 .. n : str[k] \in Chars
  BY ElementOfSeq
<1> DEFINE P == {k \in Nat : k <= n => CleanBelow(r[k])}
<1>3. 0 \in P
  BY <1>1
<1>4. ASSUME NEW k \in Nat, k \in P PROVE k + 1 \in P
  <2> SUFFICES ASSUME k + 1 <= n PROVE CleanBelow(r[k + 1])
    OBVIOUS
  <2>1. /\ k + 1 \in 1 .. n /\ k \in 0 .. n /\ k + 1 - 1 = k /\ CleanBelow(r[k])
        /\ r[k] \in Screens
    BY <1>1, <1>2, <1>4
  <2>2. r[k + 1] = vga_putchar(r[k], str[k + 1])
    BY <1>1, <2>1
  <2> QED BY <1>2, <2>1, <2>2, CharBelow
<1> HIDE DEF P
<1>5. \A k \in Nat : k \in P
  BY <1>3, <1>4, AllNumbers
<1>6. \A k \in 0 .. n : CleanBelow(r[k]) /\ r[k] \in Screens
  BY <1>1, <1>2, <1>5 DEF P
<1>7. n \in 0 .. n
  BY <1>2
<1>8. ASSUME str # << >>, str[n] = Newline PROVE Clean(vga_print(s, str))
  <2>1. n \in 1 .. n /\ n - 1 \in 0 .. n
    BY <1>2, <1>8, EmptySeq
  <2>2. vga_print(s, str) = vga_putchar(r[n - 1], str[n])
    BY <1>1, <2>1
  <2> QED BY <1>2, <1>6, <1>8, <2>1, <2>2, CharBelow
<1>9. str = << >> => vga_print(s, str) = s
  BY <1>1
<1> QED BY <1>1, <1>6, <1>7, <1>8, <1>9

(* A string without control characters that fits above the last row.       *)
LEMMA PrintHolds ==
  ASSUME NEW s \in Screens, Clean(s), NEW str \in Seq(Chars),
         \A i \in 1 .. Len(str) : str[i] \notin {Newline, Return},
         Len(str) <= (VGA_ROWS - 1) * VGA_COLS
  PROVE  /\ vga_print(s, str) \in Screens /\ Clean(vga_print(s, str))
         /\ Holds(vga_print(s, str), str)
         /\ CursorCell(vga_print(s, str)) <= CursorCell(s) + Len(str)
<1> DEFINE n == Len(str)
           pre(k) == SubSeq(str, 1, k)
<1>1. PICK r \in [0 .. n -> Screens] :
        /\ r[0] = s /\ r[n] = vga_print(s, str)
        /\ \A k \in 1 .. n : r[k] = vga_putchar(r[k - 1], str[k])
  BY PrintTrace
<1>2. n \in Nat /\ \A k \in 1 .. n : str[k] \in Chars \ {Newline, Return}
  BY ElementOfSeq
<1>3. /\ \A k \in 0 .. n : pre(k) \in Seq(Chars) /\ Len(pre(k)) = k
      /\ \A k \in 0 .. n : k + 1 <= n => pre(k + 1) = Append(pre(k), str[k + 1])
      /\ pre(n) = str
  <2>1. \A k \in 0 .. n : /\ pre(k) \in Seq(Chars) /\ Len(pre(k)) = k
                          /\ \A i \in 1 .. k : pre(k)[i] = str[i]
    BY <1>2
  <2>2. ASSUME NEW k \in 0 .. n, k + 1 <= n PROVE pre(k + 1) = Append(pre(k), str[k + 1])
    <3>1. k + 1 \in 0 .. n /\ str[k + 1] \in Chars
      BY <1>2, <2>2
    <3>2. /\ Append(pre(k), str[k + 1]) \in Seq(Chars) /\ Len(Append(pre(k), str[k + 1])) = k + 1
          /\ Append(pre(k), str[k + 1])[k + 1] = str[k + 1]
          /\ \A i \in 1 .. k : Append(pre(k), str[k + 1])[i] = str[i]
      BY <2>1, <3>1, AppendProperties
    <3> HIDE DEF pre
    <3>3. \A i \in 1 .. k + 1 : i \in 1 .. k \/ i = k + 1
      OBVIOUS
    <3>4. \A i \in 1 .. k + 1 : pre(k + 1)[i] = Append(pre(k), str[k + 1])[i]
      BY <2>1, <3>1, <3>2, <3>3
    <3> QED BY <2>1, <3>1, <3>2, <3>4, SeqEqual
  <2>3. pre(n) = str
    BY <1>2
  <2> QED BY <2>1, <2>2, <2>3
<1> HIDE DEF pre
<1> DEFINE P == {k \in Nat : k <= n => /\ Clean(r[k]) /\ Holds(r[k], pre(k))
                                     /\ CursorCell(r[k]) <= CursorCell(s) + k}
<1>4. 0 \in P
  <2>1. Len(pre(0)) = 0
    BY <1>2, <1>3
  <2>2. CursorCell(s) \in Nat
    BY CursorIn
  <2> QED BY <1>1, <2>1, <2>2 DEF Holds
<1>5. ASSUME NEW k \in Nat, k \in P PROVE k + 1 \in P
  <2> SUFFICES ASSUME k + 1 <= n
                  PROVE  /\ Clean(r[k + 1]) /\ Holds(r[k + 1], pre(k + 1))
                         /\ CursorCell(r[k + 1]) <= CursorCell(s) + (k + 1)
    OBVIOUS
  <2>1. /\ k + 1 \in 1 .. n /\ k \in 0 .. n /\ k + 1 - 1 = k /\ Clean(r[k]) /\ Holds(r[k], pre(k))
        /\ r[k] \in Screens /\ str[k + 1] \in Chars \ {Newline, Return}
        /\ CursorCell(r[k]) <= CursorCell(s) + k
    BY <1>1, <1>2, <1>5
  <2>2. r[k + 1] = vga_putchar(r[k], str[k + 1])
    BY <1>1, <2>1
  <2>3. /\ pre(k) \in Seq(Chars) /\ Len(pre(k)) + 1 <= (VGA_ROWS - 1) * VGA_COLS
        /\ pre(k + 1) = Append(pre(k), str[k + 1])
    <3>1. 0 \in 0 .. VGA_ROWS - 1 /\ 0 \in 0 .. VGA_COLS - 1
      BY ConsoleAssumption
    <3>2. (VGA_ROWS - 1) * VGA_COLS \in Nat
      BY <3>1, Places
    <3> QED BY <1>2, <1>3, <2>1, <3>2
  <2>4. CursorCell(r[k + 1]) <= CursorCell(r[k]) + 1
    <3>1. 0 \in 0 .. VGA_ROWS - 1 /\ 0 \in 0 .. VGA_COLS - 1
      BY ConsoleAssumption
    <3>2. /\ VGA_ROWS * VGA_COLS \in Nat /\ (VGA_ROWS - 1) * VGA_COLS \in Nat
          /\ VGA_ROWS * VGA_COLS = (VGA_ROWS - 1) * VGA_COLS + VGA_COLS /\ VGA_COLS \in Nat
      BY <3>1, Places
    <3> DEFINE a == r[k]
               b == r[k + 1]
    <3>3. a \in Screens /\ b = vga_putchar(a, str[k + 1])
      BY <2>1, <2>2
    <3> HIDE DEF a, b
    <3>5. \/ CursorCell(b) = CursorCell(a) + 1
          \/ CursorCell(a) = VGA_ROWS * VGA_COLS - 1 /\ CursorCell(b) = (VGA_ROWS - 1) * VGA_COLS
      BY <2>1, <3>3, CharIs
    <3>6. \/ CursorCell(r[k + 1]) = CursorCell(r[k]) + 1
          \/ /\ CursorCell(r[k]) = VGA_ROWS * VGA_COLS - 1
             /\ CursorCell(r[k + 1]) = (VGA_ROWS - 1) * VGA_COLS
      BY <3>5 DEF a, b
    <3>4. CursorCell(r[k]) \in Nat
      BY <2>1, CursorIn
    <3> QED BY <3>2, <3>4, <3>6
  <2>5. CursorCell(s) \in Nat /\ CursorCell(r[k]) \in Nat /\ CursorCell(r[k + 1]) \in Nat
    BY <1>1, <2>1, CursorIn
  <2>6. CursorCell(r[k + 1]) <= CursorCell(s) + (k + 1)
    BY <2>1, <2>4, <2>5
  <2> QED BY <2>1, <2>2, <2>3, <2>6, CharHolds
<1> HIDE DEF P
<1>6. n \in P
  BY <1>2, <1>4, <1>5, AllNumbers
<1>7. /\ Clean(r[n]) /\ Holds(r[n], str) /\ r[n] \in Screens
      /\ CursorCell(r[n]) <= CursorCell(s) + n
  BY <1>1, <1>2, <1>3, <1>6 DEF P
<1> QED BY <1>1, <1>7

LEMMA FrontIs ==
  ASSUME NEW S, NEW q \in Seq(S), q # << >>
  PROVE  /\ Front(q) \in Seq(S) /\ Len(q) \in Nat \ {0} /\ Len(Front(q)) = Len(q) - 1
         /\ \A i \in 1 .. Len(q) - 1 : Front(q)[i] = q[i]
<1> DEFINE n == Len(q) - 1
<1>1. Len(q) \in Nat \ {0} /\ n \in Nat
  BY EmptySeq
<1>2. \A i \in 1 .. n : q[i] \in S
  BY <1>1, ElementOfSeq
<1>3. Front(q) = SubSeq(q, 1, n)
  BY DEF Front
<1> HIDE DEF n
<1>4. /\ SubSeq(q, 1, n) \in Seq(S) /\ Len(SubSeq(q, 1, n)) = IF 1 <= n THEN n - 1 + 1 ELSE 0
      /\ \A i \in 1 .. n - 1 + 1 : SubSeq(q, 1, n)[i] = q[1 + i - 1]
  BY <1>1, <1>2, SubSeqProperties
<1>5. Len(Front(q)) = n /\ \A i \in 1 .. n : Front(q)[i] = q[i]
  BY <1>1, <1>3, <1>4
<1> QED BY <1>1, <1>3, <1>4, <1>5 DEF n

(* Backspace: the cell before the cursor is emptied, and the cursor there. *)
LEMMA BackIs ==
  ASSUME NEW V, Space \in V, NEW s \in ScreensOf(V), CursorCell(s) # 0,
         NEW t, t = vga_backspace(s)
  PROVE  /\ t \in ScreensOf(V) /\ CursorCell(t) = CursorCell(s) - 1 /\ CursorCell(s) - 1 \in Cells
         /\ t.vga = [s.vga EXCEPT ![CursorCell(s) - 1] = Space]
         /\ t.row = (IF s.col > 0 THEN s.row ELSE s.row - 1)
         /\ t.col = (IF s.col > 0 THEN s.col - 1 ELSE VGA_COLS - 1)
<1> DEFINE k == CursorCell(s)
           size == VGA_ROWS * VGA_COLS
           u == IF s.col > 0 THEN [s EXCEPT !.col = @ - 1]
                ELSE [s EXCEPT !.row = @ - 1, !.col = VGA_COLS - 1]
<1>0. /\ s.vga \in [Cells -> V] /\ s.row \in 0 .. VGA_ROWS - 1 /\ s.col \in 0 .. VGA_COLS - 1
      /\ s = [vga |-> s.vga, row |-> s.row, col |-> s.col]
      /\ VGA_COLS \in Nat \ {0} /\ VGA_ROWS \in Nat \ {0}
      /\ \A c \in Cells : c \in Int
      /\ size \in Nat /\ Cells = 0 .. size - 1
  BY ConsoleAssumption DEF ScreensOf, Cells
<1> HIDE DEF size
<1>1. /\ k = s.row * VGA_COLS + s.col /\ s.row * VGA_COLS \in Nat /\ k \in Cells /\ k \in Nat
      /\ s.row > 0 => (s.row - 1) * VGA_COLS = s.row * VGA_COLS - VGA_COLS
      /\ s.row = 0 => s.row * VGA_COLS = 0
  BY <1>0, CursorAt, Places
<1>2. k # 0
  OBVIOUS
<1>3. /\ u \in ScreensOf(V) /\ u.vga = s.vga
      /\ u.row = (IF s.col > 0 THEN s.row ELSE s.row - 1)
      /\ u.col = (IF s.col > 0 THEN s.col - 1 ELSE VGA_COLS - 1)
      /\ u.row * VGA_COLS + u.col = k - 1
      /\ u.row < VGA_ROWS /\ u.col < VGA_COLS
  <2>1. CASE s.col > 0
    <3>1. u = [vga |-> s.vga, row |-> s.row, col |-> s.col - 1]
      BY <1>0, <2>1
    <3> HIDE DEF u
    <3>2. u \in ScreensOf(V)
      BY <1>0, <2>1, <3>1 DEF ScreensOf
    <3>3. u.vga = s.vga /\ u.row = s.row /\ u.col = s.col - 1
      BY <3>1
    <3>4. u.row * VGA_COLS + u.col = s.row * VGA_COLS + s.col - 1
      BY <1>0, <1>1, <3>3
    <3>5. u.row < VGA_ROWS /\ u.col < VGA_COLS
      BY <1>0, <3>3
    <3>6. u.row * VGA_COLS + u.col = k - 1
      <4> DEFINE x == s.row * VGA_COLS
                 y == u.row * VGA_COLS + u.col
      <4> HIDE DEF k, x, y
      <4>1. k = x + s.col /\ x \in Nat /\ y = x + s.col - 1
        BY <1>1, <3>4 DEF x, y
      <4>2. y = k - 1
        BY <1>0, <4>1
      <4> QED BY <4>2 DEF y
    <3> QED BY <2>1, <3>2, <3>3, <3>5, <3>6
  <2>2. CASE ~(s.col > 0)
    <3>1. s.col = 0 /\ s.row > 0
      BY <1>0, <1>1, <1>2, <2>2
    <3>2. u = [vga |-> s.vga, row |-> s.row - 1, col |-> VGA_COLS - 1]
      BY <1>0, <2>2
    <3> HIDE DEF u
    <3>3. u \in ScreensOf(V)
      BY <1>0, <3>1, <3>2 DEF ScreensOf
    <3>4. u.row * VGA_COLS + u.col = s.row * VGA_COLS - VGA_COLS + (VGA_COLS - 1)
      BY <1>1, <3>1, <3>2
    <3>5. /\ u.row < VGA_ROWS /\ u.col < VGA_COLS /\ u.vga = s.vga
          /\ u.row = s.row - 1 /\ u.col = VGA_COLS - 1
      BY <1>0, <3>1, <3>2
    <3>6. u.row * VGA_COLS + u.col = k - 1
      <4> DEFINE x == s.row * VGA_COLS
                 y == u.row * VGA_COLS + u.col
      <4> HIDE DEF k, x, y
      <4>1. k = x + s.col /\ x \in Nat /\ y = x - VGA_COLS + (VGA_COLS - 1)
        BY <1>1, <3>4 DEF x, y
      <4>2. y = k - 1
        BY <1>0, <3>1, <4>1
      <4> QED BY <4>2 DEF y
    <3> QED BY <2>2, <3>3, <3>5, <3>6
  <2> QED BY <2>1, <2>2
<1> HIDE DEF u
<1>4. t = [u EXCEPT !.vga[k - 1] = Space]
  BY <1>2, <1>3 DEF vga_backspace, vga_put_at, CellOf, u
<1>5. k - 1 \in Cells
  <2>1. k \in 0 .. size - 1 /\ k # 0 /\ k \in Nat
    BY <1>0, <1>1, <1>2
  <2>2. k - 1 \in 0 .. size - 1
    <3> HIDE DEF k
    <3> QED BY <1>0, <2>1
  <2> QED BY <1>0, <2>2
<1>6. t = [vga |-> [s.vga EXCEPT ![k - 1] = Space], row |-> u.row, col |-> u.col]
  BY <1>3, <1>4 DEF ScreensOf
<1>7. /\ t \in ScreensOf(V) /\ CursorCell(t) = k - 1
      /\ t.vga[k - 1] = Space /\ \A c \in Cells : c # k - 1 => t.vga[c] = s.vga[c]
  <2>1. t \in ScreensOf(V)
    <3>1. [s.vga EXCEPT ![k - 1] = Space] \in [Cells -> V]
      BY <1>0, <1>5
    <3> QED BY <1>3, <1>6, <3>1 DEF ScreensOf
  <2> QED BY <1>0, <1>3, <1>5, <1>6, <2>1 DEF CursorCell, CellOf
<1> QED BY <1>3, <1>5, <1>6, <1>7

(* Backspace takes the last character off the line.                        *)
LEMMA BackspaceHolds ==
  ASSUME NEW s \in Screens, Clean(s), NEW str \in Seq(Chars), str # << >>, Holds(s, str),
         NEW t, t = vga_backspace(s)
  PROVE  /\ t \in Screens /\ Clean(t) /\ Holds(t, Front(str))
         /\ AboveKept(s, Len(str), t, Len(str) - 1)
         /\ Before(s, Len(str)) = Before(t, Len(str) - 1) /\ CursorCell(s) # 0
<1> DEFINE k == CursorCell(s)
           n == Len(str)
           size == VGA_ROWS * VGA_COLS
<1>0. /\ s.vga \in [Cells -> Chars] /\ Space \in Chars /\ \A c \in Cells : c \in Int
      /\ VGA_COLS \in Nat \ {0} /\ VGA_ROWS \in Nat \ {0} /\ Cells = 0 .. size - 1
      /\ k \in Nat /\ k \in Cells
  BY ConsoleAssumption, CursorIn DEF Screens, ScreensOf, Cells
<1>1. size \in Nat /\ k \in 0 .. size - 1
  BY <1>0
<1> HIDE DEF size
<1>2. n \in Nat \ {0} /\ k - n >= 0 /\ k # 0
  BY <1>0, EmptySeq DEF Holds
<1>3. /\ t \in Screens /\ CursorCell(t) = k - 1 /\ k - 1 \in Cells
      /\ t.vga = [s.vga EXCEPT ![k - 1] = Space]
  BY <1>0, <1>2, BackIs DEF Screens
<1>5. 0 .. k \subseteq Cells
  <2> HIDE DEF k
  <2> QED BY <1>0, <1>1
<1>7. /\ t \in Screens /\ CursorCell(t) = k - 1
      /\ t.vga[k - 1] = Space /\ \A c \in Cells : c # k - 1 => t.vga[c] = s.vga[c]
  BY <1>0, <1>3
<1>8. Clean(t)
  <2> SUFFICES ASSUME NEW c \in Cells, c >= k - 1 PROVE t.vga[c] \in Empties
    BY <1>7 DEF Clean
  <2>1. c = k - 1 \/ (c # k - 1 /\ c >= k)
    BY <1>0, <1>1
  <2> QED BY <1>7, <2>1 DEF Clean, Empties
<1>9. /\ Len(Front(str)) = n - 1 /\ \A i \in 1 .. n - 1 : Front(str)[i] = str[i]
  BY FrontIs
<1>10. Holds(t, Front(str))
  <2>1. ASSUME NEW i \in 1 .. n - 1 PROVE t.vga[k - 1 - (n - 1) + i - 1] = Front(str)[i]
    <3> DEFINE c == k - n + i - 1
    <3>1. k - 1 - (n - 1) + i - 1 = c /\ c # k - 1 /\ i \in 1 .. n /\ c \in 0 .. k
      BY <1>1, <1>2
    <3>2. c \in Cells
      BY <1>5, <3>1
    <3>3. s.vga[c] = str[i]
      BY <3>1 DEF Holds
    <3> HIDE DEF c
    <3> QED BY <1>7, <1>9, <3>1, <3>2, <3>3
  <2> QED BY <1>1, <1>2, <1>7, <1>9, <2>1 DEF Holds
<1>11. AboveKept(s, n, t, n - 1)
  <2>1. Before(s, n) = k - n /\ Before(t, n - 1) = k - n
    BY <1>1, <1>2, <1>7 DEF Before
  <2>2. ASSUME NEW c \in 0 .. k - n - 1 PROVE t.vga[c] = s.vga[c + 0]
    <3>1. c \in 0 .. k /\ c # k - 1 /\ c + 0 = c
      BY <1>1, <1>2
    <3>2. c \in Cells
      BY <1>5, <3>1
    <3> QED BY <1>7, <3>1, <3>2
  <2> QED BY <1>1, <1>2, <2>1, <2>2 DEF AboveKept
<1>12. Before(s, n) = Before(t, n - 1)
  BY <1>1, <1>2, <1>7 DEF Before
<1> QED BY <1>2, <1>7, <1>8, <1>10, <1>11, <1>12

LEMMA KernelConstants ==
  /\ VGA_ROWS \in Nat \ {0} /\ VGA_COLS \in Nat \ {0} /\ VGA_ROWS > 1
  /\ (VGA_ROWS - 1) * VGA_COLS \in Nat /\ VGA_COLS <= (VGA_ROWS - 1) * VGA_COLS
  /\ Len(Prompt) \in Nat /\ SHELL_MAX \in Nat \ {0}
  /\ Len(Prompt) + SHELL_MAX - 1 <= (VGA_ROWS - 1) * VGA_COLS
  /\ Len(Prompt) <= (VGA_ROWS - 1) * VGA_COLS
  /\ Prompt \in Seq(Chars) /\ \A i \in 1 .. Len(Prompt) : Prompt[i] \notin {Newline, Return}
  /\ Typed \subseteq Chars \ {Newline, Return}
<1>1. VGA_ROWS \in Nat \ {0} /\ VGA_COLS \in Nat \ {0} /\ SHELL_MAX \in Nat \ {0}
  BY ConsoleAssumption, KernelAssumption
<1>2. Prompt \in Seq(Chars) /\ Prompt # << >> /\ DOMAIN Prompt = 1 .. Len(Prompt)
  BY KernelAssumption
<1>3. Len(Prompt) \in Nat \ {0}
  BY <1>2, EmptySeq
<1>4. Len(Prompt) + SHELL_MAX - 1 <= (VGA_ROWS - 1) * VGA_COLS
  BY KernelAssumption
<1>5. VGA_ROWS = 1 => (VGA_ROWS - 1) * VGA_COLS = 0
  BY <1>1
<1>6. VGA_ROWS > 1
  BY <1>1, <1>3, <1>4, <1>5
<1>7. 0 \in 0 .. VGA_ROWS - 1 /\ 0 \in 0 .. VGA_COLS - 1
  BY <1>1
<1>8. (VGA_ROWS - 1) * VGA_COLS \in Nat /\ VGA_COLS <= (VGA_ROWS - 1) * VGA_COLS
  <2>1. 0 < VGA_ROWS - 1 /\ 0 * VGA_COLS = 0
    BY <1>1, <1>6
  <2> QED BY <1>1, <1>7, <2>1, Places
<1>9. Len(Prompt) <= (VGA_ROWS - 1) * VGA_COLS
  BY <1>1, <1>3, <1>4, <1>8
<1>10. \A i \in 1 .. Len(Prompt) : Prompt[i] \notin {Newline, Return}
  BY <1>2, KernelAssumption
<1>11. Typed \subseteq Chars \ {Newline, Return}
  BY KernelAssumption
<1> QED BY <1>1, <1>2, <1>3, <1>4, <1>6, <1>8, <1>9, <1>10, <1>11

LEMMA ClearClean == vga_clear \in Screens /\ Clean(vga_clear) /\ CursorCell(vga_clear) = 0
<1>1. Space \in Chars /\ VGA_COLS \in Nat \ {0} /\ VGA_ROWS \in Nat \ {0}
  BY ConsoleAssumption
<1>2. vga_clear \in Screens
  BY <1>1 DEF vga_clear, Screens, ScreensOf
<1>3. \A c \in Cells : vga_clear.vga[c] = Space
  BY DEF vga_clear
<1>4. CursorCell(vga_clear) = 0
  BY <1>1 DEF vga_clear, CursorCell, CellOf
<1> QED BY <1>2, <1>3, <1>4 DEF Clean, Empties


(***************************************************************************)
(* The pointer.  A screen with the block lifted is compared with a screen  *)
(* nothing of the pointer has ever been on: they agree on the cells that   *)
(* the pointer has not spoilt, whatever is written to both, and the        *)
(* pointer itself changes nothing of that.                                 *)
(***************************************************************************)
Glyphs == Chars \cup {Block}

On(v, p)     == p.shown /\ v[p.pos] = Block
Lifted(v, p) == IF On(v, p) THEN [v EXCEPT ![p.pos] = p.under] ELSE v

Same(v, p, sp, w) == \A c \in Cells \ sp : Lifted(v, p)[c] = w[c]

LEMMA LiftedAt ==
  ASSUME NEW v \in [Cells -> Glyphs], NEW p \in Pointers, NEW c \in Cells
  PROVE  Lifted(v, p)[c] = IF p.shown /\ c = p.pos /\ v[c] = Block THEN p.under ELSE v[c]
<1>1. p.pos \in Cells
  BY DEF Pointers
<1> QED BY <1>1 DEF Lifted, On

(* A block anywhere but under the pointer is on a spoilt cell.             *)
LEMMA NoStrayBlock ==
  ASSUME NEW v \in [Cells -> Glyphs], NEW p \in Pointers, NEW sp, NEW w \in [Cells -> Chars],
         Same(v, p, sp, w), NEW c \in Cells, c \notin sp, ~(On(v, p) /\ c = p.pos)
  PROVE  v[c] = w[c] /\ v[c] # Block
<1>1. Lifted(v, p)[c] = v[c]
  BY LiftedAt DEF On
<1>2. v[c] = w[c]
  BY <1>1 DEF Same
<1> QED BY <1>2, ConsoleAssumption

LEMMA SameWrite ==
  ASSUME NEW v \in [Cells -> Glyphs], NEW p \in Pointers, NEW sp, NEW w \in [Cells -> Chars],
         Same(v, p, sp, w), NEW k \in Cells, NEW g \in Chars
  PROVE  LET v1 == [v EXCEPT ![k] = g]
             w1 == [w EXCEPT ![k] = g]
         IN  /\ Same(v1, p, sp \ {k}, w1)
             /\ v1 \in [Cells -> Glyphs] /\ w1 \in [Cells -> Chars]
             /\ On(v1, p) <=> On(v, p) /\ p.pos # k
<1> DEFINE v1 == [v EXCEPT ![k] = g]
           w1 == [w EXCEPT ![k] = g]
<1>1. v1 \in [Cells -> Glyphs] /\ w1 \in [Cells -> Chars] /\ g # Block /\ p.pos \in Cells
  BY ConsoleAssumption DEF Glyphs, Pointers
<1>2. /\ v1[k] = g /\ w1[k] = g
      /\ \A c \in Cells : c # k => v1[c] = v[c] /\ w1[c] = w[c]
  OBVIOUS
<1> HIDE DEF v1, w1
<1>3. ASSUME NEW c \in Cells \ (sp \ {k}) PROVE Lifted(v1, p)[c] = w1[c]
  <2>1. CASE c = k
    BY <1>1, <1>2, <2>1, LiftedAt
  <2>2. CASE c # k
    <3>1. v1[c] = v[c] /\ w1[c] = w[c] /\ Lifted(v, p)[c] = w[c]
      BY <1>2, <2>2 DEF Same
    <3>2. Lifted(v, p)[c] = IF p.shown /\ c = p.pos /\ v[c] = Block THEN p.under ELSE v[c]
      BY LiftedAt
    <3>3. Lifted(v1, p)[c] = IF p.shown /\ c = p.pos /\ v1[c] = Block THEN p.under ELSE v1[c]
      BY <1>1, LiftedAt
    <3> QED BY <3>1, <3>2, <3>3
  <2> QED BY <2>1, <2>2
<1>4. On(v1, p) <=> On(v, p) /\ p.pos # k
  BY <1>1, <1>2 DEF On
<1>5. Same(v1, p, sp \ {k}, w1)
  BY <1>3 DEF Same
<1> QED BY <1>1, <1>4, <1>5 DEF v1, w1

LEMMA SameRoll ==
  ASSUME NEW v \in [Cells -> Glyphs], NEW p \in Pointers, NEW sp, NEW w \in [Cells -> Chars],
         Same(v, p, sp, w),
         NEW sp1, sp1 = {c \in Cells : c + VGA_COLS \in sp \cup (IF On(v, p) THEN {p.pos} ELSE {})}
  PROVE  /\ Same(Rolled(v), p, sp1, Rolled(w))
         /\ Rolled(v) \in [Cells -> Glyphs] /\ Rolled(w) \in [Cells -> Chars]
<1>1. Space \in Chars /\ Space # Block /\ Chars \subseteq Glyphs
  BY ConsoleAssumption DEF Glyphs
<1>2. Rolled(v) \in [Cells -> Glyphs] /\ Rolled(w) \in [Cells -> Chars]
  BY <1>1 DEF Rolled
<1>3. ASSUME NEW c \in Cells \ sp1
      PROVE  Rolled(v)[c] = Rolled(w)[c] /\ Rolled(v)[c] # Block
  <2>1. CASE c + VGA_COLS \in Cells
    <3> DEFINE d == c + VGA_COLS
    <3>1. d \in Cells /\ d \notin sp /\ ~(On(v, p) /\ d = p.pos)
      BY <1>3, <2>1
    <3>2. Rolled(v)[c] = v[d] /\ Rolled(w)[c] = w[d]
      BY <2>1 DEF Rolled
    <3> HIDE DEF d
    <3> QED BY <3>1, <3>2, NoStrayBlock
  <2>2. CASE c + VGA_COLS \notin Cells
    BY <1>1, <2>2 DEF Rolled
  <2> QED BY <2>1, <2>2
<1>4. \A c \in Cells \ sp1 : Lifted(Rolled(v), p)[c] = Rolled(w)[c]
  BY <1>2, <1>3, LiftedAt
<1> QED BY <1>2, <1>4 DEF Same

LEMMA BareIs == \A s, p : Bare(s, p) = Lifted(s.vga, p) /\ (Covered(s, p) <=> On(s.vga, p))
BY DEF Bare, Covered, Lifted, On

(* The two screens with their cursors.                                     *)
Agrees(s, p, sp, t) ==
  /\ t \in Screens /\ s.row = t.row /\ s.col = t.col
  /\ \A c \in Cells \ sp : Bare(s, p)[c] = t.vga[c]

LEMMA AgreesIs ==
  ASSUME NEW s \in Displays, NEW p \in Pointers, NEW sp, NEW t, Agrees(s, p, sp, t)
  PROVE  /\ s.vga \in [Cells -> Glyphs] /\ t.vga \in [Cells -> Chars] /\ t \in Screens
         /\ s.row = t.row /\ s.col = t.col
         /\ s.row \in 0 .. VGA_ROWS - 1 /\ s.col \in 0 .. VGA_COLS - 1
         /\ s = [vga |-> s.vga, row |-> s.row, col |-> s.col]
         /\ t = [vga |-> t.vga, row |-> t.row, col |-> t.col]
         /\ CursorCell(s) = CursorCell(t) /\ CursorCell(s) \in Cells
         /\ Same(s.vga, p, sp, t.vga)
<1>1. t \in Screens /\ s.row = t.row /\ s.col = t.col
  BY DEF Agrees
<1>2. Same(s.vga, p, sp, t.vga)
  BY BareIs DEF Agrees, Same
<1>3. CursorCell(s) = CursorCell(t) /\ CursorCell(t) \in Cells
  BY <1>1, CursorIn DEF CursorCell
<1> QED BY <1>1, <1>2, <1>3 DEF Displays, Screens, ScreensOf, Glyphs

LEMMA AgreesWith ==
  ASSUME NEW p \in Pointers, NEW sp,
         NEW v \in [Cells -> Glyphs], NEW w \in [Cells -> Chars], Same(v, p, sp, w),
         NEW row \in 0 .. VGA_ROWS - 1, NEW col \in 0 .. VGA_COLS - 1,
         NEW s, s = [vga |-> v, row |-> row, col |-> col],
         NEW t, t = [vga |-> w, row |-> row, col |-> col]
  PROVE  s \in Displays /\ t \in Screens /\ Agrees(s, p, sp, t)
<1>1. s \in Displays /\ t \in Screens
  BY DEF Displays, Screens, ScreensOf, Glyphs
<1>2. s.row = t.row /\ s.col = t.col /\ s.vga = v /\ t.vga = w
  OBVIOUS
<1>3. \A c \in Cells \ sp : Bare(s, p)[c] = t.vga[c]
  BY <1>2, BareIs DEF Same
<1> QED BY <1>1, <1>2, <1>3 DEF Agrees

(* vga_putchar in parts: the cell, the row that scrolls, the cursor.       *)
Put(s, ch)      == IF ch \in {Newline, Return} THEN s.vga ELSE [s.vga EXCEPT ![CursorCell(s)] = ch]
Wraps(s, ch)    == ch = Newline \/ (ch # Return /\ s.col + 1 >= VGA_COLS)
RowAfter(s, ch) == IF Wraps(s, ch) /\ s.row + 1 < VGA_ROWS THEN s.row + 1 ELSE s.row
ColAfter(s, ch) == IF Wraps(s, ch) \/ ch = Return THEN 0 ELSE s.col + 1

LEMMA CharParts ==
  ASSUME NEW s, NEW ch, s.row \in 0 .. VGA_ROWS - 1, s.col \in 0 .. VGA_COLS - 1,
         s = [vga |-> s.vga, row |-> s.row, col |-> s.col]
  PROVE  /\ vga_putchar(s, ch) =
              [vga |-> IF Scrolls(s, ch) THEN Rolled(Put(s, ch)) ELSE Put(s, ch),
               row |-> RowAfter(s, ch), col |-> ColAfter(s, ch)]
         /\ RowAfter(s, ch) \in 0 .. VGA_ROWS - 1 /\ ColAfter(s, ch) \in 0 .. VGA_COLS - 1
<1>0. /\ Newline # Return /\ VGA_COLS \in Nat \ {0} /\ VGA_ROWS \in Nat \ {0}
  BY ConsoleAssumption
<1>1. RowAfter(s, ch) \in 0 .. VGA_ROWS - 1 /\ ColAfter(s, ch) \in 0 .. VGA_COLS - 1
  BY <1>0 DEF RowAfter, ColAfter, Wraps
<1> DEFINE nl(v) == IF s.row + 1 >= VGA_ROWS
                      THEN [vga |-> Rolled(v), row |-> s.row, col |-> 0]
                      ELSE [vga |-> v, row |-> s.row + 1, col |-> 0]
<1>2. ASSUME NEW v, NEW c PROVE vga_newline([vga |-> v, row |-> s.row, col |-> c]) = nl(v)
  <2> DEFINE r == [vga |-> v, row |-> s.row, col |-> c]
             q == [vga |-> v, row |-> s.row, col |-> 0]
  <2>1. r.row = s.row /\ [r EXCEPT !.col = 0] = q
    OBVIOUS
  <2>2. q.vga = v /\ q.row = s.row
    OBVIOUS
  <2> HIDE DEF r
  <2>3. vga_newline(r) = IF s.row + 1 >= VGA_ROWS THEN vga_scroll(q) ELSE [q EXCEPT !.row = @ + 1]
    BY <2>1 DEF vga_newline
  <2>4. vga_scroll(q) = [vga |-> Rolled(v), row |-> s.row, col |-> 0]
    BY DEF vga_scroll, Rolled
  <2>5. [q EXCEPT !.row = @ + 1] = [vga |-> v, row |-> s.row + 1, col |-> 0]
    OBVIOUS
  <2>6. vga_newline(r) = nl(v)
    BY <2>3, <2>4, <2>5
  <2> QED BY <2>6 DEF r
<1>3. CASE ch = Newline
  <2>1. vga_putchar(s, ch) = nl(s.vga)
    <3>1. vga_putchar(s, ch) = vga_newline(s)
      BY <1>3 DEF vga_putchar
    <3> QED BY <1>2, <3>1
  <2>2. /\ Put(s, ch) = s.vga /\ ColAfter(s, ch) = 0 /\ (Scrolls(s, ch) <=> s.row + 1 >= VGA_ROWS)
        /\ RowAfter(s, ch) = IF s.row + 1 < VGA_ROWS THEN s.row + 1 ELSE s.row
    BY <1>3 DEF Put, ColAfter, RowAfter, Wraps, Scrolls
  <2> QED BY <1>0, <1>1, <2>1, <2>2
<1>4. CASE ch = Return
  <2>1. vga_putchar(s, ch) = [vga |-> s.vga, row |-> s.row, col |-> 0]
    BY <1>0, <1>4 DEF vga_putchar
  <2>2. /\ Put(s, ch) = s.vga /\ ColAfter(s, ch) = 0 /\ ~Scrolls(s, ch) /\ RowAfter(s, ch) = s.row
    BY <1>0, <1>4 DEF Put, ColAfter, RowAfter, Wraps, Scrolls
  <2> QED BY <1>1, <2>1, <2>2
<1>5. CASE ch \notin {Newline, Return}
  <2> DEFINE v == [s.vga EXCEPT ![CursorCell(s)] = ch]
             w == [vga |-> v, row |-> s.row, col |-> s.col + 1]
  <2>1. vga_putchar(s, ch) = IF s.col + 1 >= VGA_COLS THEN vga_newline(w) ELSE w
    <3>1. s.row < VGA_ROWS /\ s.col < VGA_COLS
      BY <1>0
    <3> DEFINE q == [s EXCEPT !.vga[CursorCell(s)] = ch]
    <3>2. q = [vga |-> v, row |-> s.row, col |-> s.col]
      OBVIOUS
    <3> HIDE DEF q, v
    <3>3. [q EXCEPT !.col = @ + 1] = w
      BY <3>2
    <3>4. vga_put_at(s, ch, s.row, s.col) = q
      BY <3>1 DEF vga_put_at, CursorCell, q
    <3> HIDE DEF w
    <3>5. w.col = s.col + 1
      BY DEF w
    <3> QED BY <1>5, <3>3, <3>4, <3>5 DEF vga_putchar
  <2>2. vga_newline(w) = nl(v)
    BY <1>2
  <2>3. /\ Put(s, ch) = v /\ ColAfter(s, ch) = (IF s.col + 1 >= VGA_COLS THEN 0 ELSE s.col + 1)
        /\ Scrolls(s, ch) <=> s.row + 1 >= VGA_ROWS /\ s.col + 1 >= VGA_COLS
        /\ RowAfter(s, ch) = IF s.col + 1 >= VGA_COLS /\ s.row + 1 < VGA_ROWS THEN s.row + 1
                             ELSE s.row
    BY <1>5 DEF Put, ColAfter, RowAfter, Wraps, Scrolls
  <2> HIDE DEF v
  <2> QED BY <1>0, <1>1, <2>1, <2>2, <2>3
<1> QED BY <1>3, <1>4, <1>5

(* The writes of the console keep the two screens together.                *)
LEMMA PutAgrees ==
  ASSUME NEW s \in Displays, NEW p \in Pointers, NEW sp, NEW t, Agrees(s, p, sp, t), NEW ch \in Chars
  PROVE  /\ vga_putchar(s, ch) \in Displays /\ vga_putchar(t, ch) \in Screens
         /\ Agrees(vga_putchar(s, ch), p, SpoiltByPut(s, p, sp, ch), vga_putchar(t, ch))
<1> DEFINE k  == CursorCell(s)
           v  == s.vga
           w  == t.vga
           v1 == Put(s, ch)
           w1 == Put(t, ch)
           whole == IF ch \in {Newline, Return} THEN {} ELSE {k}
           old   == sp \cup (IF Covered(s, p) THEN {p.pos} ELSE {})
<1>0. /\ v \in [Cells -> Glyphs] /\ w \in [Cells -> Chars] /\ Same(v, p, sp, w) /\ k \in Cells
      /\ s.row = t.row /\ s.col = t.col /\ k = CursorCell(t)
      /\ s.row \in 0 .. VGA_ROWS - 1 /\ s.col \in 0 .. VGA_COLS - 1
      /\ s = [vga |-> s.vga, row |-> s.row, col |-> s.col]
      /\ t = [vga |-> t.vga, row |-> t.row, col |-> t.col]
      /\ Covered(s, p) <=> On(v, p)
  BY AgreesIs, BareIs
<1>1. /\ RowAfter(t, ch) = RowAfter(s, ch) /\ ColAfter(t, ch) = ColAfter(s, ch)
      /\ Scrolls(t, ch) <=> Scrolls(s, ch)
  BY <1>0 DEF RowAfter, ColAfter, Wraps, Scrolls
<1>2. /\ RowAfter(s, ch) \in 0 .. VGA_ROWS - 1 /\ ColAfter(s, ch) \in 0 .. VGA_COLS - 1
      /\ vga_putchar(s, ch) = [vga |-> IF Scrolls(s, ch) THEN Rolled(v1) ELSE v1,
                               row |-> RowAfter(s, ch), col |-> ColAfter(s, ch)]
  BY <1>0, CharParts
<1>3. vga_putchar(t, ch) = [vga |-> IF Scrolls(t, ch) THEN Rolled(w1) ELSE w1,
                            row |-> RowAfter(t, ch), col |-> ColAfter(t, ch)]
  <2>1. t.row \in 0 .. VGA_ROWS - 1 /\ t.col \in 0 .. VGA_COLS - 1
    BY <1>0
  <2> QED BY <1>0, <2>1, CharParts
<1>4. /\ Same(v1, p, sp \ whole, w1) /\ v1 \in [Cells -> Glyphs] /\ w1 \in [Cells -> Chars]
      /\ On(v1, p) <=> On(v, p) /\ p.pos \notin whole
  <2>1. CASE ch \in {Newline, Return}
    <3>1. v1 = v /\ w1 = w /\ sp \ whole = sp /\ whole = {}
      BY <2>1 DEF Put
    <3> QED BY <1>0, <3>1
  <2>2. CASE ch \notin {Newline, Return}
    <3>1. v1 = [v EXCEPT ![k] = ch] /\ w1 = [w EXCEPT ![k] = ch] /\ whole = {k}
      BY <1>0, <2>2 DEF Put
    <3> HIDE DEF v1, w1, v, w, k
    <3> QED BY <1>0, <3>1, SameWrite
  <2> QED BY <2>1, <2>2
<1>5. CASE ~Scrolls(s, ch)
  <2>1. SpoiltByPut(s, p, sp, ch) = sp \ whole
    BY <1>5 DEF SpoiltByPut
  <2> HIDE DEF v1, w1, whole
  <2> QED BY <1>1, <1>2, <1>3, <1>4, <1>5, <2>1, AgreesWith
<1>6. CASE Scrolls(s, ch)
  <2>1. SpoiltByPut(s, p, sp, ch) = {c \in Cells : c + VGA_COLS \in old \ whole}
    BY <1>6 DEF SpoiltByPut
  <2>2. old \ whole = (sp \ whole) \cup (IF On(v1, p) THEN {p.pos} ELSE {})
    BY <1>0, <1>4
  <2>3. SpoiltByPut(s, p, sp, ch) =
          {c \in Cells : c + VGA_COLS \in (sp \ whole) \cup (IF On(v1, p) THEN {p.pos} ELSE {})}
    BY <2>1, <2>2
  <2> HIDE DEF v1, w1, whole
  <2>4. /\ Same(Rolled(v1), p, SpoiltByPut(s, p, sp, ch), Rolled(w1))
        /\ Rolled(v1) \in [Cells -> Glyphs] /\ Rolled(w1) \in [Cells -> Chars]
    BY <1>4, <2>3, SameRoll
  <2> QED BY <1>1, <1>2, <1>3, <1>6, <2>4, AgreesWith
<1> QED BY <1>5, <1>6

LEMMA PokeAgrees ==
  ASSUME NEW s \in Displays, NEW p \in Pointers, NEW sp, NEW t, Agrees(s, p, sp, t),
         NEW c \in Cells, NEW g \in Chars
  PROVE  /\ [s EXCEPT !.vga[c] = g] \in Displays /\ [t EXCEPT !.vga[c] = g] \in Screens
         /\ Agrees([s EXCEPT !.vga[c] = g], p, sp \ {c}, [t EXCEPT !.vga[c] = g])
<1> DEFINE v1 == [s.vga EXCEPT ![c] = g]
           w1 == [t.vga EXCEPT ![c] = g]
<1>0. /\ s.vga \in [Cells -> Glyphs] /\ t.vga \in [Cells -> Chars] /\ Same(s.vga, p, sp, t.vga)
      /\ s.row = t.row /\ s.col = t.col
      /\ s.row \in 0 .. VGA_ROWS - 1 /\ s.col \in 0 .. VGA_COLS - 1
      /\ s = [vga |-> s.vga, row |-> s.row, col |-> s.col]
      /\ t = [vga |-> t.vga, row |-> t.row, col |-> t.col]
  BY AgreesIs
<1>1. /\ Same(v1, p, sp \ {c}, w1) /\ v1 \in [Cells -> Glyphs] /\ w1 \in [Cells -> Chars]
  BY <1>0, SameWrite
<1>2. /\ [s EXCEPT !.vga[c] = g] = [vga |-> v1, row |-> s.row, col |-> s.col]
      /\ [t EXCEPT !.vga[c] = g] = [vga |-> w1, row |-> s.row, col |-> s.col]
  BY <1>0
<1> HIDE DEF v1, w1
<1> QED BY <1>0, <1>1, <1>2, AgreesWith

LEMMA BackAgrees ==
  ASSUME NEW s \in Displays, NEW p \in Pointers, NEW sp, NEW t, Agrees(s, p, sp, t),
         CursorCell(s) # 0
  PROVE  /\ vga_backspace(s) \in Displays /\ vga_backspace(t) \in Screens
         /\ CursorCell(vga_backspace(s)) = CursorCell(s) - 1
         /\ Agrees(vga_backspace(s), p, sp \ {CursorCell(s) - 1}, vga_backspace(t))
<1> DEFINE k == CursorCell(s) - 1
           row == IF s.col > 0 THEN s.row ELSE s.row - 1
           col == IF s.col > 0 THEN s.col - 1 ELSE VGA_COLS - 1
           v1 == [s.vga EXCEPT ![k] = Space]
           w1 == [t.vga EXCEPT ![k] = Space]
           a  == vga_backspace(s)
           b  == vga_backspace(t)
<1>0. /\ s.vga \in [Cells -> Glyphs] /\ t.vga \in [Cells -> Chars] /\ Same(s.vga, p, sp, t.vga)
      /\ s.row = t.row /\ s.col = t.col /\ CursorCell(t) = CursorCell(s) /\ t \in Screens
  BY AgreesIs
<1>1. Space \in Chars /\ Space \in Chars \cup {Block}
  BY ConsoleAssumption
<1> HIDE DEF a, b
<1>2. /\ a \in ScreensOf(Chars \cup {Block}) /\ CursorCell(a) = k /\ k \in Cells
      /\ a.vga = v1 /\ a.row = row /\ a.col = col
  BY <1>1, BackIs DEF Displays, a
<1>3. /\ b \in ScreensOf(Chars) /\ b.vga = w1 /\ b.row = row /\ b.col = col
  BY <1>0, <1>1, BackIs DEF Screens, b
<1>4. Same(v1, p, sp \ {k}, w1)
  <2> HIDE DEF k
  <2> QED BY <1>0, <1>1, <1>2, SameWrite
<1>5. a \in Displays /\ b \in Screens
  BY <1>2, <1>3 DEF Displays, Screens
<1> HIDE DEF v1, w1, row, col
<1>6. \A c \in Cells \ (sp \ {k}) : Bare(a, p)[c] = b.vga[c]
  BY <1>2, <1>3, <1>4, BareIs DEF Same
<1>7. Agrees(a, p, sp \ {k}, b)
  BY <1>2, <1>3, <1>5, <1>6 DEF Agrees
<1> QED BY <1>2, <1>5, <1>7 DEF a, b

LEMMA PlainAgrees ==
  ASSUME NEW t \in Screens, NEW p \in Pointers, NEW sp
  PROVE  t \in Displays /\ Agrees(t, p, sp, t)
<1>1. /\ t.vga \in [Cells -> Chars] /\ t.row \in 0 .. VGA_ROWS - 1 /\ t.col \in 0 .. VGA_COLS - 1
      /\ t = [vga |-> t.vga, row |-> t.row, col |-> t.col]
  BY DEF Screens, ScreensOf
<1>2. t.vga \in [Cells -> Glyphs] /\ \A c \in Cells : t.vga[c] # Block
  BY <1>1, ConsoleAssumption DEF Glyphs
<1>3. Same(t.vga, p, sp, t.vga)
  BY <1>2, LiftedAt DEF Same
<1> QED BY <1>1, <1>2, <1>3, AgreesWith

(* The block is lifted and put down: the screen under it stays, but for    *)
(* the cells that are then spoilt.                                         *)
LEMMA HideAgrees ==
  ASSUME NEW s \in Displays, NEW p \in Pointers, NEW sp, NEW t, Agrees(s, p, sp, t)
  PROVE  /\ mouse_hide(s, p) \in Displays /\ [p EXCEPT !.shown = FALSE] \in Pointers
         /\ Agrees(mouse_hide(s, p), [p EXCEPT !.shown = FALSE], SpoiltByHide(s, p, sp), t)
<1> DEFINE v  == s.vga
           v1 == IF p.shown THEN [v EXCEPT ![p.pos] = p.under] ELSE v
           p1 == [p EXCEPT !.shown = FALSE]
           sp1 == SpoiltByHide(s, p, sp)
<1>0. /\ v \in [Cells -> Glyphs] /\ t.vga \in [Cells -> Chars] /\ Same(v, p, sp, t.vga)
      /\ s.row = t.row /\ s.col = t.col
      /\ s.row \in 0 .. VGA_ROWS - 1 /\ s.col \in 0 .. VGA_COLS - 1
      /\ s = [vga |-> v, row |-> s.row, col |-> s.col]
      /\ t = [vga |-> t.vga, row |-> t.row, col |-> t.col]
  BY AgreesIs
<1>1. p1 \in Pointers /\ ~p1.shown /\ p.under \in Glyphs /\ p.pos \in Cells
  BY DEF Pointers, Glyphs
<1>2. mouse_hide(s, p) = [vga |-> v1, row |-> s.row, col |-> s.col]
  BY <1>0 DEF mouse_hide
<1>3. v1 \in [Cells -> Glyphs]
  BY <1>0, <1>1
<1>4. sp1 = sp \cup (IF p.shown /\ ~On(v, p) THEN {p.pos} ELSE {})
  BY BareIs DEF SpoiltByHide
<1>5. ASSUME NEW c \in Cells \ sp1 PROVE Lifted(v1, p1)[c] = t.vga[c]
  <2>1. Lifted(v1, p1)[c] = v1[c]
    <3> HIDE DEF p1, v1
    <3> QED BY <1>1 DEF Lifted, On
  <2>2. Lifted(v, p)[c] = IF p.shown /\ c = p.pos /\ v[c] = Block THEN p.under ELSE v[c]
    BY <1>0, LiftedAt
  <2>3. Lifted(v, p)[c] = t.vga[c]
    BY <1>0, <1>4 DEF Same
  <2>4. c = p.pos /\ p.shown => v[c] = Block
    BY <1>4 DEF On
  <2> QED BY <1>0, <1>1, <2>1, <2>2, <2>3, <2>4
<1> HIDE DEF v1, p1, sp1, v
<1>6. Same(v1, p1, sp1, t.vga)
  BY <1>5 DEF Same
<1>7. /\ mouse_hide(s, p) \in Displays /\ Agrees(mouse_hide(s, p), p1, sp1, t)
  BY <1>0, <1>1, <1>2, <1>3, <1>6, AgreesWith
<1> QED BY <1>1, <1>7 DEF p1, sp1

LEMMA DrawAgrees ==
  ASSUME NEW s \in Displays, NEW p \in Pointers, NEW sp, NEW t, Agrees(s, p, sp, t),
         NEW k \in Cells, NEW q,
         q = [shown |-> TRUE, pos |-> k, under |-> IF p.shown THEN p.under ELSE s.vga[k]]
  PROVE  /\ mouse_draw(s, k) \in Displays /\ q \in Pointers
         /\ Agrees(mouse_draw(s, k), q, SpoiltByDraw(s, p, sp, k), t)
<1> DEFINE v  == s.vga
           v1 == [v EXCEPT ![k] = Block]
           sp1 == SpoiltByDraw(s, p, sp, k)
<1>0. /\ v \in [Cells -> Glyphs] /\ t.vga \in [Cells -> Chars] /\ Same(v, p, sp, t.vga)
      /\ s.row = t.row /\ s.col = t.col
      /\ s.row \in 0 .. VGA_ROWS - 1 /\ s.col \in 0 .. VGA_COLS - 1
      /\ s = [vga |-> v, row |-> s.row, col |-> s.col]
      /\ t = [vga |-> t.vga, row |-> t.row, col |-> t.col]
  BY AgreesIs
<1>1. q \in Pointers /\ p.under \in Glyphs /\ p.pos \in Cells /\ Block \in Glyphs
  BY <1>0 DEF Pointers, Glyphs
<1>2. mouse_draw(s, k) = [vga |-> v1, row |-> s.row, col |-> s.col]
  BY <1>0 DEF mouse_draw
<1>3. v1 \in [Cells -> Glyphs] /\ v1[k] = Block /\ \A c \in Cells : c # k => v1[c] = v[c]
  BY <1>0, <1>1
<1>4. sp1 = sp \cup (IF p.shown /\ ~(On(v, p) /\ k = p.pos) THEN {p.pos, k} ELSE {})
  BY BareIs DEF SpoiltByDraw
<1>5. ASSUME NEW c \in Cells \ sp1 PROVE Lifted(v1, q)[c] = t.vga[c]
  <2>1. Lifted(v1, q)[c] = IF c = k THEN q.under ELSE v[c]
    BY <1>1, <1>3, LiftedAt
  <2>2. Lifted(v, p)[c] = IF p.shown /\ c = p.pos /\ v[c] = Block THEN p.under ELSE v[c]
    BY <1>0, LiftedAt
  <2>3. Lifted(v, p)[c] = t.vga[c]
    BY <1>0, <1>4 DEF Same
  <2>4. CASE ~p.shown
    BY <2>1, <2>2, <2>3, <2>4
  <2>5. CASE p.shown /\ On(v, p) /\ k = p.pos
    BY <2>1, <2>2, <2>3, <2>5 DEF On
  <2>6. CASE p.shown /\ ~(On(v, p) /\ k = p.pos)
    <3>1. c # p.pos /\ c # k
      BY <1>4, <2>6
    <3> QED BY <2>1, <2>2, <2>3, <3>1
  <2> QED BY <2>4, <2>5, <2>6
<1> HIDE DEF v1, sp1, v
<1>6. Same(v1, q, sp1, t.vga)
  BY <1>5 DEF Same
<1>7. /\ mouse_draw(s, k) \in Displays /\ Agrees(mouse_draw(s, k), q, sp1, t)
  BY <1>0, <1>1, <1>2, <1>3, <1>6, AgreesWith
<1> QED BY <1>1, <1>7 DEF sp1

LEMMA MotionAgrees ==
  ASSUME con \in Displays, ptr \in Pointers, NEW t, Agrees(con, ptr, spoilt, t),
         NEW k \in Cells, Motion(k)
  PROVE  con' \in Displays /\ ptr' \in Pointers /\ Agrees(con', ptr', spoilt', t)
<1> DEFINE s == mouse_hide(con, ptr)
           p == [ptr EXCEPT !.shown = FALSE]
           sp == SpoiltByHide(con, ptr, spoilt)
<1>1. s \in Displays /\ p \in Pointers /\ Agrees(s, p, sp, t)
  BY HideAgrees
<1>2. ~p.shown
  BY DEF Pointers
<1>3. con' = mouse_draw(s, k) /\ spoilt' = sp
      /\ ptr' = [shown |-> TRUE, pos |-> k, under |-> s.vga[k]]
  BY DEF Motion
<1> HIDE DEF s, p, sp
<1>4. SpoiltByDraw(s, p, sp, k) = sp
  BY <1>2 DEF SpoiltByDraw
<1>5. ptr' = [shown |-> TRUE, pos |-> k, under |-> IF p.shown THEN p.under ELSE s.vga[k]]
  BY <1>2, <1>3
<1> QED BY <1>1, <1>3, <1>4, <1>5, DrawAgrees

(***************************************************************************)
(* What the program has still to do on the screen, done on a screen        *)
(* without the pointer.                                                    *)
(***************************************************************************)
Works == ({"print"} \X Chars) \cup {<<"clear">>} \cup ({"poke"} \X Drawn)
           \cup {<<"hide">>} \cup ({"draw"} \X Spots)

Plain(t, w) ==
  IF w[1] = "print" THEN vga_putchar(t, w[2])
  ELSE IF w[1] = "clear" THEN vga_clear
  ELSE IF w[1] = "poke" THEN [t EXCEPT !.vga[w[2]] = Ink]
  ELSE t

Run(x, t, u) ==
  \E r \in [0 .. Len(x) -> Screens] :
    /\ r[0] = t /\ r[Len(x)] = u
    /\ \A k \in 1 .. Len(x) : r[k] = Plain(r[k - 1], x[k])

LEMMA WorkIs ==
  ASSUME NEW w \in Works
  PROVE  \/ w[1] = "print" /\ w[2] \in Chars
         \/ w[1] = "clear"
         \/ w[1] = "poke" /\ w[2] \in Drawn /\ w[2] \in Cells
         \/ w[1] = "hide"
         \/ w[1] = "draw" /\ w[2] \in Spots /\ w[2] \in Cells
BY KernelAssumption DEF Works

LEMMA PlainScreen ==
  ASSUME NEW t \in Screens, NEW w \in Works
  PROVE  Plain(t, w) \in Screens
<1>1. CASE w[1] = "poke"
  <2>1. w[2] \in Cells /\ Ink \in Chars
    BY <1>1, WorkIs, KernelAssumption
  <2>2. Plain(t, w) = [t EXCEPT !.vga[w[2]] = Ink]
    BY <1>1 DEF Plain
  <2> QED BY <2>1, <2>2 DEF Screens, ScreensOf
<1>2. CASE w[1] # "poke"
  BY <1>2, WorkIs, CharScreen, ClearClean DEF Plain
<1> QED BY <1>1, <1>2

LEMMA RunIn ==
  ASSUME NEW x \in Seq(Works), NEW t, NEW u, Run(x, t, u)
  PROVE  t \in Screens /\ u \in Screens
<1>1. Len(x) \in Nat
  OBVIOUS
<1>2. 0 \in 0 .. Len(x) /\ Len(x) \in 0 .. Len(x)
  BY <1>1
<1> QED BY <1>2 DEF Run

LEMMA RunEmpty ==
  ASSUME NEW t
  PROVE  (t \in Screens => Run(<< >>, t, t)) /\ \A u : Run(<< >>, t, u) => u = t
<1>1. Len(<< >>) = 0
  OBVIOUS
<1>2. ASSUME t \in Screens PROVE Run(<< >>, t, t)
  <2> DEFINE r == [k \in 0 .. 0 |-> t]
  <2>1. r \in [0 .. 0 -> Screens] /\ r[0] = t /\ \A k \in 1 .. 0 : FALSE
    BY <1>2
  <2> HIDE DEF r
  <2> QED BY <1>1, <2>1 DEF Run
<1>3. \A u : Run(<< >>, t, u) => u = t
  BY <1>1 DEF Run
<1> QED BY <1>2, <1>3

LEMMA RunOne ==
  ASSUME NEW t \in Screens, NEW w \in Works
  PROVE  Run(<<w>>, t, Plain(t, w))
<1> DEFINE r == [k \in 0 .. 1 |-> IF k = 0 THEN t ELSE Plain(t, w)]
<1>1. Plain(t, w) \in Screens
  BY PlainScreen
<1>2. Len(<<w>>) = 1 /\ <<w>>[1] = w
  OBVIOUS
<1>3. r \in [0 .. 1 -> Screens] /\ r[0] = t /\ r[1] = Plain(t, w)
  BY <1>1
<1> HIDE DEF r
<1>4. \A k \in 1 .. 1 : r[k] = Plain(r[k - 1], <<w>>[k])
  BY <1>2, <1>3
<1> QED BY <1>2, <1>3, <1>4 DEF Run

LEMMA PrintingIs ==
  ASSUME NEW str \in Seq(Chars)
  PROVE  /\ Printing(str) \in Seq(Works) /\ Len(Printing(str)) = Len(str)
         /\ \A k \in 1 .. Len(str) : Printing(str)[k] = <<"print", str[k]>>
<1>1. DOMAIN str = 1 .. Len(str) /\ Len(str) \in Nat /\ \A k \in 1 .. Len(str) : str[k] \in Chars
  BY ElementOfSeq
<1>2. Printing(str) = [k \in 1 .. Len(str) |-> <<"print", str[k]>>]
  BY <1>1 DEF Printing
<1>3. \A k \in 1 .. Len(str) : <<"print", str[k]>> \in Works
  BY <1>1 DEF Works
<1> QED BY <1>1, <1>2, <1>3

LEMMA RunPrint ==
  ASSUME NEW t \in Screens, NEW str \in Seq(Chars)
  PROVE  Run(Printing(str), t, vga_print(t, str))
<1>1. PICK r \in [0 .. Len(str) -> Screens] :
        /\ r[0] = t /\ r[Len(str)] = vga_print(t, str)
        /\ \A k \in 1 .. Len(str) : r[k] = vga_putchar(r[k - 1], str[k])
  BY PrintTrace
<1>2. \A k \in 1 .. Len(str) : r[k] = Plain(r[k - 1], Printing(str)[k])
  BY <1>1, PrintingIs DEF Plain
<1>3. Len(Printing(str)) = Len(str)
  BY PrintingIs
<1> QED BY <1>1, <1>2, <1>3 DEF Run

LEMMA RunConcat ==
  ASSUME NEW x \in Seq(Works), NEW y \in Seq(Works), NEW t, NEW u, NEW w,
         Run(x, t, u), Run(y, u, w)
  PROVE  x \o y \in Seq(Works) /\ Run(x \o y, t, w)
<1> DEFINE m == Len(x)
           n == Len(y)
           z == x \o y
<1>1. /\ m \in Nat /\ n \in Nat /\ z \in Seq(Works) /\ Len(z) = m + n
      /\ \A k \in 1 .. m : z[k] = x[k]
      /\ \A k \in 1 .. n : z[m + k] = y[k]
  BY ConcatAt
<1>2. PICK r \in [0 .. m -> Screens] :
        r[0] = t /\ r[m] = u /\ \A k \in 1 .. m : r[k] = Plain(r[k - 1], x[k])
  BY DEF Run
<1>3. PICK q \in [0 .. n -> Screens] :
        q[0] = u /\ q[n] = w /\ \A k \in 1 .. n : q[k] = Plain(q[k - 1], y[k])
  BY DEF Run
<1> HIDE DEF m, n, z
<1> DEFINE f == [k \in 0 .. m + n |-> IF k <= m THEN r[k] ELSE q[k - m]]
<1>4. \A k \in 0 .. m + n : k <= m => f[k] = r[k]
  OBVIOUS
<1>5. \A k \in 0 .. m + n : k >= m => f[k] = q[k - m]
  BY <1>1, <1>2, <1>3
<1>6. f \in [0 .. m + n -> Screens]
  BY <1>1
<1> HIDE DEF f
<1>7. f[0] = t /\ f[m + n] = w
  BY <1>1, <1>2, <1>3, <1>4, <1>5
<1>8. ASSUME NEW k \in 1 .. m + n PROVE f[k] = Plain(f[k - 1], z[k])
  <2>1. CASE k <= m
    <3>1. k \in 1 .. m /\ k \in 0 .. m + n /\ k - 1 \in 0 .. m + n /\ k - 1 <= m
      BY <1>1, <2>1
    <3> QED BY <1>1, <1>2, <1>4, <3>1, <2>1
  <2>2. CASE k > m
    <3> DEFINE j == k - m
    <3>1. /\ j \in 1 .. n /\ k = m + j /\ k \in 0 .. m + n /\ k - 1 \in 0 .. m + n /\ k - 1 >= m
          /\ k >= m /\ k - 1 - m = j - 1
      BY <1>1, <2>2
    <3>2. f[k] = q[j] /\ f[k - 1] = q[j - 1] /\ z[k] = y[j]
      BY <1>1, <1>5, <3>1
    <3> HIDE DEF j
    <3> QED BY <1>3, <3>1, <3>2
  <2> QED BY <1>1, <2>1, <2>2
<1>9. Run(z, t, w)
  BY <1>1, <1>6, <1>7, <1>8 DEF Run
<1> QED BY <1>1, <1>9 DEF z

LEMMA RunStep ==
  ASSUME NEW x \in Seq(Works), x # << >>, NEW t, NEW u, Run(x, t, u)
  PROVE  /\ Head(x) \in Works /\ Tail(x) \in Seq(Works)
         /\ Run(Tail(x), Plain(t, Head(x)), u)
<1> DEFINE n == Len(x)
           y == Tail(x)
<1>1. /\ n \in Nat \ {0} /\ Head(x) = x[1] /\ Head(x) \in Works /\ y \in Seq(Works)
      /\ Len(y) = n - 1 /\ \A k \in 1 .. n - 1 : y[k] = x[k + 1]
  BY EmptySeq, HeadTailProperties
<1>2. PICK r \in [0 .. n -> Screens] :
        r[0] = t /\ r[n] = u /\ \A k \in 1 .. n : r[k] = Plain(r[k - 1], x[k])
  BY DEF Run
<1> HIDE DEF n, y
<1> DEFINE f == [k \in 0 .. n - 1 |-> r[k + 1]]
<1>3. f \in [0 .. n - 1 -> Screens] /\ \A k \in 0 .. n - 1 : f[k] = r[k + 1]
  BY <1>1
<1> HIDE DEF f
<1>4. f[0] = Plain(t, x[1]) /\ f[n - 1] = u
  BY <1>1, <1>2, <1>3
<1>5. ASSUME NEW k \in 1 .. n - 1 PROVE f[k] = Plain(f[k - 1], y[k])
  <2>1. k \in 0 .. n - 1 /\ k - 1 \in 0 .. n - 1 /\ k + 1 \in 1 .. n /\ k - 1 + 1 = k /\ k + 1 - 1 = k
    BY <1>1
  <2>2. f[k] = r[k + 1] /\ f[k - 1] = r[k] /\ y[k] = x[k + 1]
    BY <1>1, <1>3, <2>1
  <2> QED BY <1>2, <2>1, <2>2
<1>6. Run(y, Plain(t, Head(x)), u)
  BY <1>1, <1>3, <1>4, <1>5 DEF Run
<1> QED BY <1>1, <1>6 DEF y

(* The pointer writes nothing on such a screen.                            *)
LEMMA RunPointer ==
  ASSUME NEW x \in Seq(Works), NEW t, NEW u, Run(x, t, u),
         \A i \in DOMAIN x : x[i][1] \in {"hide", "draw"}
  PROVE  u = t
<1> DEFINE n == Len(x)
<1>1. n \in Nat /\ DOMAIN x = 1 .. n
  OBVIOUS
<1>2. PICK r \in [0 .. n -> Screens] :
        r[0] = t /\ r[n] = u /\ \A k \in 1 .. n : r[k] = Plain(r[k - 1], x[k])
  BY DEF Run
<1> HIDE DEF n
<1>3. \A k \in 1 .. n : r[k] = r[k - 1]
  BY <1>1, <1>2 DEF Plain
<1> DEFINE P == {k \in Nat : k <= n => r[k] = t}
<1>4. 0 \in P
  BY <1>2
<1>5. ASSUME NEW k \in Nat, k \in P PROVE k + 1 \in P
  <2>1. k + 1 <= n => k <= n /\ k + 1 \in 1 .. n /\ k + 1 - 1 = k
    BY <1>1
  <2> QED BY <1>3, <1>5, <2>1
<1> HIDE DEF P
<1>6. n \in P
  BY <1>1, <1>4, <1>5, AllNumbers
<1> QED BY <1>1, <1>2, <1>6 DEF P

(***************************************************************************)
(* The line of the shell on the screen.  With the pointer lifted, the      *)
(* screen is one the program alone has written (t); when what is still to  *)
(* be written has been (u), the prompt and the line are in front of the    *)
(* cursor and nothing is behind it.                                        *)
(***************************************************************************)
Ends(st, str, u) ==
  /\ st \in {"boot", "start", "command"} => Clean(u)
  /\ st = "prompt" => Clean(u) /\ Holds(u, str)

ConTypes ==
  /\ con \in Displays /\ ptr \in Pointers /\ spoilt \subseteq Cells /\ todo \in Seq(Works)
  /\ line \in Seq(Typed) /\ Len(line) < SHELL_MAX

ConBoot ==
  /\ stage = "boot" => con \in Screens /\ Clean(con) /\ ~inside
  /\ stage \in {"boot", "start"} => todo = << >>
  /\ stage \in {"boot", "start", "eword"} => line = << >>

ConRun ==
  \E t, u : Agrees(con, ptr, spoilt, t) /\ Run(todo, t, u) /\ Ends(stage, Shown, u)

ConInv == ConTypes /\ ConBoot /\ ConRun

LEMMA ConBy ==
  ASSUME con' \in Displays, ptr' \in Pointers, spoilt' \subseteq Cells, todo' \in Seq(Works),
         line' \in Seq(Typed), Len(line') < SHELL_MAX,
         stage' # "boot", stage' = "start" => todo' = << >>,
         stage' \in {"start", "eword"} => line' = << >>,
         NEW t, NEW u, Agrees(con', ptr', spoilt', t), Run(todo', t, u), Ends(stage', Shown', u)
  PROVE  ConInv'
<1>1. ConTypes' /\ ConBoot'
  BY DEF ConTypes, ConBoot
<1>2. ConRun'
  BY DEF ConRun
<1> QED BY <1>1, <1>2 DEF ConInv

(* Steps that leave the console alone.                                     *)
LEMMA ConSame ==
  ASSUME ConInv, UNCHANGED <<con, ptr, spoilt, todo, line>>,
         stage' = stage \/ stage' \in {"halted", "rebooted", "reset"},
         inside' = inside \/ stage # "boot"
  PROVE  ConInv'
<1>1. ConTypes'
  BY DEF ConInv, ConTypes
<1>2. ConBoot'
  BY DEF ConInv, ConBoot
<1>3. PICK t, u : Agrees(con, ptr, spoilt, t) /\ Run(todo, t, u) /\ Ends(stage, Shown, u)
  BY DEF ConInv, ConRun
<1>4. Shown' = Shown
  BY DEF Shown
<1>5. Ends(stage', Shown', u)
  BY <1>3, <1>4 DEF Ends
<1>6. ConRun'
  BY <1>3, <1>5 DEF ConRun
<1> QED BY <1>1, <1>2, <1>6 DEF ConInv

(* A prompt after what leaves a clean line.                                *)
LEMMA PromptRun ==
  ASSUME NEW x \in Seq(Works), NEW t, NEW u, Run(x, t, u), Clean(u)
  PROVE  /\ x \o Prompting \in Seq(Works)
         /\ \E w : Run(x \o Prompting, t, w) /\ Clean(w) /\ Holds(w, Prompt)
<1>1. u \in Screens
  BY RunIn
<1> DEFINE w == vga_print(u, Prompt)
<1>2. Clean(w) /\ Holds(w, Prompt)
  BY <1>1, KernelConstants, PrintHolds
<1>3. Prompting \in Seq(Works) /\ Run(Prompting, u, w)
  BY <1>1, KernelConstants, PrintingIs, RunPrint DEF Prompting
<1> HIDE DEF w
<1>4. x \o Prompting \in Seq(Works) /\ Run(x \o Prompting, t, w)
  BY <1>3, RunConcat
<1> QED BY <1>2, <1>4

LEMMA NewlineRun ==
  ASSUME NEW t \in Screens, Clean(t)
  PROVE  /\ Printing(<<Newline>>) \in Seq(Works)
         /\ \E u : Run(Printing(<<Newline>>), t, u) /\ Clean(u)
<1>1. <<Newline>> \in Seq(Chars) /\ <<Newline>> # << >> /\ <<Newline>>[Len(<<Newline>>)] = Newline
  BY ConsoleAssumption
<1>2. Clean(vga_print(t, <<Newline>>))
  BY <1>1, CleanIsBelow, PrintBelow
<1> QED BY <1>1, <1>2, PrintingIs, RunPrint

LEMMA EmptyLine ==
  << >> \in Seq(Typed) /\ Len(<< >>) < SHELL_MAX /\ Prompt \o << >> = Prompt
BY KernelConstants

LEMMA NoBlockIs == NoBlock \in Pointers
<1> DEFINE s == [row |-> VGA_ROWS \div 2, col |-> VGA_COLS \div 2]
<1>1. s.row \in 0 .. VGA_ROWS - 1 /\ s.col \in 0 .. VGA_COLS - 1
  BY KernelConstants
<1>2. CursorCell(s) \in Cells
  <2> HIDE DEF s
  <2> QED BY <1>1, CursorAt
<1>3. Space \in Chars
  BY ConsoleAssumption
<1> QED BY <1>2, <1>3 DEF NoBlock, Pointers, CursorCell

(* The boot loader prints on row 0, and the cursor goes to row 1.          *)
LEMMA ConInit == Init => ConInv
<1> SUFFICES ASSUME Init PROVE ConInv
  OBVIOUS
<1> DEFINE s == vga_print(vga_clear, Loading)
<1>1. /\ con = [s EXCEPT !.row = 1, !.col = 0] /\ line = << >> /\ stage = "boot"
      /\ todo = << >> /\ ptr = NoBlock /\ spoilt = {} /\ ~inside
  BY DEF Init
<1>2. Loading \in Seq(Chars) /\ Len(Loading) <= VGA_COLS /\ Len(Loading) \in Nat
  BY KernelAssumption, BootAssumption
<1>3. \A i \in 1 .. Len(Loading) : Loading[i] \notin {Newline, Return}
  BY <1>2, BootAssumption
<1>4. Len(Loading) <= (VGA_ROWS - 1) * VGA_COLS
  BY <1>2, KernelConstants
<1>5. /\ s \in Screens /\ Clean(s)
      /\ CursorCell(s) <= CursorCell(vga_clear) + Len(Loading)
  BY <1>2, <1>3, <1>4, ClearClean, PrintHolds
<1>6. CursorCell(s) <= VGA_COLS /\ CursorCell(s) \in Nat
  BY <1>2, <1>5, ClearClean, KernelConstants, CursorIn
<1> HIDE DEF s
<1>7. con = [vga |-> s.vga, row |-> 1, col |-> 0]
  BY <1>1, <1>5 DEF Screens, ScreensOf
<1>8. con \in Screens /\ con.vga = s.vga
  BY <1>5, <1>7, KernelConstants DEF Screens, ScreensOf
<1>9. CursorCell(con) = VGA_COLS
  BY <1>7, KernelConstants DEF CursorCell, CellOf
<1>10. \A c \in Cells : c >= VGA_COLS => c >= CursorCell(s)
  BY <1>6, KernelConstants DEF Cells
<1>11. Clean(con)
  BY <1>5, <1>8, <1>9, <1>10 DEF Clean
<1>12. ptr \in Pointers
  BY <1>1, NoBlockIs
<1>13. con \in Displays /\ Agrees(con, ptr, spoilt, con) /\ Run(todo, con, con)
  BY <1>1, <1>8, <1>12, PlainAgrees, RunEmpty
<1>14. ConTypes /\ ConBoot
  BY <1>1, <1>8, <1>11, <1>12, <1>13, EmptyLine DEF ConTypes, ConBoot
<1>15. ConRun
  BY <1>1, <1>11, <1>13 DEF ConRun, Ends
<1> QED BY <1>14, <1>15 DEF ConInv

(* What is still to be written, write by write.                            *)
LEMMA PerformAgrees ==
  ASSUME con \in Displays, ptr \in Pointers, spoilt \subseteq Cells,
         NEW t, Agrees(con, ptr, spoilt, t), NEW w \in Works, Perform(w)
  PROVE  /\ con' \in Displays /\ ptr' \in Pointers /\ spoilt' \subseteq Cells
         /\ Agrees(con', ptr', spoilt', Plain(t, w))
<1>0. t \in Screens /\ ptr.pos \in Cells
  BY DEF Agrees, Pointers
<1>1. CASE w[1] = "print"
  <2>1. w[2] \in Chars
    BY <1>1, WorkIs
  <2>2. /\ con' = vga_putchar(con, w[2]) /\ ptr' = ptr
        /\ spoilt' = SpoiltByPut(con, ptr, spoilt, w[2]) /\ Plain(t, w) = vga_putchar(t, w[2])
    BY <1>1 DEF Perform, PutChar, Plain
  <2>3. spoilt' \subseteq Cells
    BY <2>2 DEF SpoiltByPut
  <2> QED BY <2>1, <2>2, <2>3, PutAgrees
<1>2. CASE w[1] = "clear"
  <2>1. con' = vga_clear /\ ptr' = ptr /\ spoilt' = {} /\ Plain(t, w) = vga_clear
    BY <1>2 DEF Perform, Clear, Plain
  <2> QED BY <2>1, ClearClean, PlainAgrees
<1>3. CASE w[1] = "poke"
  <2>1. w[2] \in Cells /\ Ink \in Chars
    BY <1>3, WorkIs, KernelAssumption
  <2>2. /\ con' = [con EXCEPT !.vga[w[2]] = Ink] /\ ptr' = ptr /\ spoilt' = spoilt \ {w[2]}
        /\ Plain(t, w) = [t EXCEPT !.vga[w[2]] = Ink]
    BY <1>3 DEF Perform, Poke, Plain
  <2> QED BY <2>1, <2>2, PokeAgrees
<1>4. CASE w[1] = "hide"
  <2>1. /\ con' = mouse_hide(con, ptr) /\ ptr' = [ptr EXCEPT !.shown = FALSE]
        /\ spoilt' = SpoiltByHide(con, ptr, spoilt) /\ Plain(t, w) = t
    BY <1>4 DEF Perform, Hide, Plain
  <2>2. spoilt' \subseteq Cells
    BY <1>0, <2>1 DEF SpoiltByHide
  <2> QED BY <2>1, <2>2, HideAgrees
<1>5. CASE w[1] = "draw"
  <2>1. w[2] \in Cells
    BY <1>5, WorkIs
  <2>2. /\ con' = mouse_draw(con, w[2])
        /\ ptr' = [shown |-> TRUE, pos |-> w[2],
                   under |-> IF ptr.shown THEN ptr.under ELSE con.vga[w[2]]]
        /\ spoilt' = SpoiltByDraw(con, ptr, spoilt, w[2]) /\ Plain(t, w) = t
    BY <1>5 DEF Perform, DrawAt, Plain
  <2>3. spoilt' \subseteq Cells
    BY <1>0, <2>1, <2>2 DEF SpoiltByDraw
  <2> QED BY <2>1, <2>2, <2>3, DrawAgrees
<1> QED BY <1>1, <1>2, <1>3, <1>4, <1>5 DEF Perform

LEMMA ConWrites == ConInv /\ Writes => ConInv'
<1> SUFFICES ASSUME ConInv, Writes PROVE ConInv'
  OBVIOUS
<1>1. /\ todo # << >> /\ Perform(Head(todo)) /\ todo' = Tail(todo) /\ UNCHANGED <<stage, line>>
  BY DEF Writes
<1>2. PICK t, u : Agrees(con, ptr, spoilt, t) /\ Run(todo, t, u) /\ Ends(stage, Shown, u)
  BY DEF ConInv, ConRun
<1>3. ConTypes /\ stage \notin {"boot", "start"} /\ (stage = "eword" => line = << >>)
  BY <1>1 DEF ConInv, ConBoot
<1>4. Head(todo) \in Works /\ todo' \in Seq(Works) /\ Run(todo', Plain(t, Head(todo)), u)
  BY <1>1, <1>2, <1>3, RunStep DEF ConTypes
<1>5. /\ con' \in Displays /\ ptr' \in Pointers /\ spoilt' \subseteq Cells
      /\ Agrees(con', ptr', spoilt', Plain(t, Head(todo)))
  BY <1>1, <1>2, <1>3, <1>4, PerformAgrees DEF ConTypes
<1>6. Shown' = Shown /\ Ends(stage', Shown', u)
  BY <1>1, <1>2 DEF Shown
<1> QED BY <1>1, <1>3, <1>4, <1>5, <1>6, ConBy DEF ConTypes

LEMMA ConStart == ConInv /\ Start => ConInv'
<1> SUFFICES ASSUME ConInv, Start PROVE ConInv'
  OBVIOUS
<1>1. CASE kernel_main
  <2>1. /\ stage = "boot" /\ stage' = "start" /\ con' = vga_print(con, Banner)
        /\ UNCHANGED <<line, ptr, spoilt, todo>>
    BY <1>1 DEF kernel_main
  <2>2. /\ con \in Screens /\ Clean(con) /\ Banner \in Seq(Chars) /\ todo = << >>
        /\ line = << >> /\ ConTypes
    BY <2>1, KernelAssumption DEF ConInv, ConBoot
  <2>3. con' \in Screens /\ Clean(con')
    BY <2>1, <2>2, BootAssumption, CleanIsBelow, PrintBelow
  <2>4. con' \in Displays /\ Agrees(con', ptr', spoilt', con')
    BY <2>1, <2>2, <2>3, PlainAgrees DEF ConTypes
  <2>5. Run(todo', con', con') /\ Ends(stage', Shown', con')
    BY <2>1, <2>2, <2>3, RunEmpty DEF Ends
  <2>6. PICK t : Agrees(con', ptr', spoilt', t) /\ Run(todo', t, t) /\ Ends(stage', Shown', t)
    BY <2>4, <2>5
  <2>7. /\ ptr' \in Pointers /\ spoilt' \subseteq Cells /\ todo' \in Seq(Works)
        /\ line' \in Seq(Typed) /\ Len(line') < SHELL_MAX
    BY <2>1, <2>2 DEF ConTypes
  <2> QED BY <2>1, <2>2, <2>4, <2>6, <2>7, ConBy
<1>2. CASE pic_remap
  <2>1. UNCHANGED <<con, ptr, spoilt, todo, line, stage, inside>>
    BY <1>2 DEF pic_remap, progVars, screenVars
  <2> QED BY <2>1, ConSame
<1>3. CASE InMouseInit
  <2>1. UNCHANGED <<con, ptr, spoilt, todo, line, stage, inside>>
    BY <1>3 DEF InMouseInit, progVars, screenVars
  <2> QED BY <2>1, ConSame
<1>4. CASE ShellBegins
  <2>1. /\ stage = "start" /\ stage' = "prompt" /\ todo' = Prompting
        /\ UNCHANGED <<con, ptr, spoilt, line>>
    BY <1>4 DEF ShellBegins
  <2>2. todo = << >> /\ line = << >> /\ ConTypes
    BY <2>1 DEF ConInv, ConBoot
  <2>3. PICK t, u : Agrees(con, ptr, spoilt, t) /\ Run(todo, t, u) /\ Ends(stage, Shown, u)
    BY DEF ConInv, ConRun
  <2>4. t = u /\ Clean(t) /\ t \in Screens /\ << >> \in Seq(Works)
    BY <2>1, <2>2, <2>3, RunEmpty DEF Ends, Agrees
  <2>5. PICK w : /\ << >> \o Prompting \in Seq(Works) /\ Run(<< >> \o Prompting, t, w)
                 /\ Clean(w) /\ Holds(w, Prompt)
    BY <2>2, <2>3, <2>4, PromptRun
  <2>6. Prompting \in Seq(Works)
    BY KernelConstants, PrintingIs DEF Prompting
  <2>7. << >> \o Prompting = Prompting
    BY <2>6
  <2>8. Shown' = Prompt
    BY <2>1, <2>2, EmptyLine DEF Shown
  <2>9. Ends(stage', Shown', w)
    BY <2>1, <2>5, <2>8 DEF Ends
  <2> QED BY <2>1, <2>2, <2>3, <2>5, <2>6, <2>7, <2>9, ConBy DEF ConTypes
<1> QED BY <1>1, <1>2, <1>3, <1>4 DEF Start

(* What is above the prompt stays, or scrolls by a row, the spoilt cells   *)
(* with it.                                                                *)
KeptAbove ==
  LET up == First - First'
  IN  /\ up \in {0, VGA_COLS}
      /\ \A c \in 0 .. First' - 1 :
           IF c \in spoilt' THEN c + up \in spoilt \cup {ptr.pos, ptr'.pos}
           ELSE Text'[c] = Text[c + up]

LEMMA ShownLength ==
  ASSUME line \in Seq(Typed)
  PROVE  /\ Shown \in Seq(Chars) /\ Len(Shown) \in Nat /\ Len(Shown) = Len(Prompt) + Len(line)
         /\ Len(line) \in Nat /\ line \in Seq(Chars)
<1>1. line \in Seq(Chars) /\ Prompt \in Seq(Chars)
  <2>1. \A i \in 1 .. Len(line) : line[i] \in Chars
    BY KernelConstants, ElementOfSeq
  <2> QED BY <2>1, KernelConstants
<1> QED BY <1>1, ConcatProperties DEF Shown

LEMMA LowerCell ==
  ASSUME NEW k \in Cells, NEW c \in Int, c >= 0, c <= k
  PROVE  c \in Cells
<1> DEFINE size == VGA_ROWS * VGA_COLS
<1>1. size \in Int
  BY KernelConstants
<1>2. k \in 0 .. size - 1
  BY DEF Cells
<1> HIDE DEF size
<1>3. c \in 0 .. size - 1
  BY <1>1, <1>2
<1> QED BY <1>3 DEF Cells, size

LEMMA AboveBy ==
  ASSUME con \in Displays, ptr \in Pointers, con' \in Displays, ptr' \in Pointers,
         NEW m \in Nat, m = Len(Shown), NEW n \in Nat, n = Len(Shown'),
         NEW t, Agrees(con, ptr, spoilt, t), NEW t1, Agrees(con', ptr', spoilt', t1),
         AboveKept(t, m, t1, n),
         NEW up, up = Before(t, m) - Before(t1, n),
         \A c \in 0 .. Before(t1, n) - 1 :
           IF c \in spoilt' THEN c + up \in spoilt \cup {ptr.pos, ptr'.pos}
           ELSE c + up \notin spoilt
  PROVE  KeptAbove
<1>1. /\ CursorCell(con) = CursorCell(t) /\ CursorCell(con') = CursorCell(t1)
      /\ CursorCell(t) \in Cells /\ CursorCell(t1) \in Cells
  BY AgreesIs
<1>2. First = Before(t, m) /\ First' = Before(t1, n)
  BY <1>1 DEF First, Before
<1>3. VGA_COLS \in Nat /\ up \in {0, VGA_COLS}
  BY KernelConstants DEF AboveKept
<1>4. \A c \in Int : c >= 0 /\ c <= CursorCell(t) => c \in Cells
  BY <1>1, LowerCell
<1>5. \A c \in Int : c >= 0 /\ c <= CursorCell(t1) => c \in Cells
  BY <1>1, LowerCell
<1>6. CursorCell(t) \in Nat /\ CursorCell(t1) \in Nat
  BY CursorIn DEF Agrees
<1>7. ASSUME NEW c \in 0 .. Before(t1, n) - 1, c \notin spoilt'
      PROVE  Text'[c] = Text[c + up]
  <2>1. c + up \notin spoilt /\ t1.vga[c] = t.vga[c + up]
    BY <1>7 DEF AboveKept
  <2>2. c \in Int /\ c >= 0 /\ c < Before(t1, n) /\ c + up < Before(t, m)
    BY <1>3, <1>6 DEF Before
  <2>3. c \in Cells /\ c + up \in Cells
    BY <1>3, <1>4, <1>5, <1>6, <2>2 DEF Before
  <2>4. Text[c + up] = t.vga[c + up]
    BY <2>1, <2>3 DEF Text, Agrees
  <2>5. Text'[c] = t1.vga[c]
    BY <1>7, <2>3 DEF Text, Agrees
  <2> QED BY <2>1, <2>4, <2>5
<1>8. First - First' = up
  BY <1>2
<1> QED BY <1>2, <1>3, <1>7, <1>8 DEF KeptAbove

(* The pointer alone.                                                      *)
LEMMA StillAbove ==
  ASSUME ConTypes, con' \in Displays, ptr' \in Pointers, line' = line,
         NEW t, Agrees(con, ptr, spoilt, t), Agrees(con', ptr', spoilt', t),
         spoilt \subseteq spoilt', spoilt' \subseteq spoilt \cup {ptr.pos, ptr'.pos}
  PROVE  KeptAbove
<1> DEFINE m == Len(Shown)
<1>1. m \in Nat /\ m = Len(Shown) /\ m = Len(Shown')
  BY ShownLength DEF Shown, ConTypes
<1>2. con \in Displays /\ ptr \in Pointers
  BY DEF ConTypes
<1>3. CursorCell(t) \in Nat
  BY CursorIn DEF Agrees
<1> HIDE DEF m
<1>4. Before(t, m) - Before(t, m) = 0
  BY <1>1, <1>3 DEF Before
<1>5. \A c \in 0 .. Before(t, m) - 1 : c + 0 = c
  BY <1>1, <1>3 DEF Before
<1>6. AboveKept(t, m, t, m)
  BY <1>4, <1>5 DEF AboveKept
<1> DEFINE up == Before(t, m) - Before(t, m)
<1>7. up = 0
  BY <1>4
<1> HIDE DEF up
<1>8. \A c \in 0 .. Before(t, m) - 1 :
           IF c \in spoilt' THEN c + up \in spoilt \cup {ptr.pos, ptr'.pos}
           ELSE c + up \notin spoilt
  BY <1>5, <1>7
<1>9. up = Before(t, m) - Before(t, m)
  BY DEF up
<1> QED BY <1>1, <1>2, <1>6, <1>8, <1>9, AboveBy

(* At the prompt, with nothing to be written, both screens are one.        *)
LEMMA AtPromptRun ==
  ASSUME ConInv, todo = << >>
  PROVE  \E t : Agrees(con, ptr, spoilt, t) /\ t \in Screens /\ Ends(stage, Shown, t)
<1>1. PICK t, u : Agrees(con, ptr, spoilt, t) /\ Run(todo, t, u) /\ Ends(stage, Shown, u)
  BY DEF ConInv, ConRun
<1>2. t = u
  BY <1>1, RunEmpty
<1> QED BY <1>1, <1>2 DEF Agrees

LEMMA TypeShown ==
  ASSUME ConInv, NEW c \in Typed, Type(c), Len(line) < SHELL_MAX - 1
  PROVE  ConInv' /\ KeptAbove
<1>1. /\ stage = "prompt" /\ todo = << >> /\ todo' = todo /\ stage' = stage /\ ptr' = ptr
      /\ line' = Append(line, c) /\ con' = vga_putchar(con, c)
      /\ spoilt' = SpoiltByPut(con, ptr, spoilt, c)
  BY DEF Type, AtPrompt, GetKey, PutChar
<1>2. PICK t : Agrees(con, ptr, spoilt, t) /\ t \in Screens /\ Clean(t) /\ Holds(t, Shown)
  BY <1>1, AtPromptRun DEF Ends
<1>3. /\ con \in Displays /\ ptr \in Pointers /\ spoilt \subseteq Cells /\ line \in Seq(Typed)
      /\ c \in Chars \ {Newline, Return}
  BY KernelConstants DEF ConInv, ConTypes
<1>4. /\ Shown \in Seq(Chars) /\ Len(Shown) \in Nat /\ Len(Shown) = Len(Prompt) + Len(line)
      /\ Len(line) \in Nat /\ line \in Seq(Chars)
  BY <1>3, ShownLength
<1>5. Shown' = Append(Shown, c) /\ Len(Shown') = Len(Shown) + 1
  <2>1. Prompt \o Append(line, c) = Append(Prompt \o line, c)
    BY <1>3, <1>4, KernelConstants
  <2>2. Len(Append(Shown, c)) = Len(Shown) + 1
    BY <1>3, <1>4, AppendProperties
  <2> QED BY <1>1, <2>1, <2>2 DEF Shown
<1>6. Len(Shown) + 1 <= (VGA_ROWS - 1) * VGA_COLS
  BY <1>1, <1>4, KernelConstants
<1> DEFINE t1 == vga_putchar(t, c)
           m  == Len(Shown)
           k  == CursorCell(con)
           up == Before(t, m) - Before(t1, m + 1)
<1>7. /\ t1 \in Screens /\ Clean(t1) /\ Holds(t1, Shown') /\ AboveKept(t, m, t1, m + 1)
      /\ up = IF Scrolls(t, c) THEN VGA_COLS ELSE 0
  BY <1>2, <1>3, <1>4, <1>5, <1>6, CharHolds
<1>8. con' \in Displays /\ Agrees(con', ptr', spoilt', t1)
  BY <1>1, <1>2, <1>3, PutAgrees
<1>9. spoilt' \subseteq Cells
  BY <1>1, <1>3 DEF SpoiltByPut
<1>10. line' \in Seq(Typed) /\ Len(line') < SHELL_MAX
  BY <1>1, <1>3, <1>4, KernelConstants, AppendProperties
<1> HIDE DEF t1
<1>11. Run(todo', t1, t1) /\ Ends(stage', Shown', t1)
  BY <1>1, <1>7, RunEmpty DEF Ends
<1>12. ConInv'
  <2>1. todo' \in Seq(Works) /\ ptr' \in Pointers /\ stage' \notin {"boot", "start", "eword"}
    BY <1>1, <1>3 DEF ConInv, ConTypes
  <2> QED BY <1>8, <1>9, <1>10, <1>11, <2>1, ConBy
<1>13. /\ CursorCell(t) = k /\ (Scrolls(con, c) <=> Scrolls(t, c)) /\ k \in Nat
       /\ CursorCell(t1) \in Nat /\ VGA_COLS \in Nat
  BY <1>2, <1>3, <1>7, AgreesIs, CursorIn, KernelConstants DEF Scrolls
<1>14. Before(t, m) <= k /\ Before(t, m) \in Int /\ Before(t1, m + 1) \in Int /\ up \in Nat
  BY <1>4, <1>7, <1>13 DEF Before
<1> HIDE DEF k, m
<1>15. ASSUME NEW d \in 0 .. Before(t1, m + 1) - 1
       PROVE  IF d \in spoilt' THEN d + up \in spoilt \cup {ptr.pos, ptr'.pos}
              ELSE d + up \notin spoilt
  <2>1. d \in Nat /\ d + up < Before(t, m)
    BY <1>14
  <2>2. d + up # k
    BY <1>13, <1>14, <2>1
  <2> DEFINE old == spoilt \cup (IF Covered(con, ptr) THEN {ptr.pos} ELSE {})
  <2>3. CASE ~Scrolls(con, c)
    <3>1. spoilt' = spoilt \ {k} /\ up = 0 /\ d + up = d
      BY <1>1, <1>3, <1>7, <1>13, <2>1, <2>3 DEF SpoiltByPut, k
    <3> QED BY <2>2, <3>1
  <2>4. CASE Scrolls(con, c)
    <3>1. spoilt' = {e \in Cells : e + VGA_COLS \in old \ {k}} /\ up = VGA_COLS
      BY <1>1, <1>3, <1>7, <1>13, <2>4 DEF SpoiltByPut, k
    <3>2. d \in Cells
      <4>1. k \in Cells
        BY <1>2, <1>3, AgreesIs DEF k
      <4>2. d \in Int /\ d >= 0 /\ d <= k
        BY <1>13, <1>14, <2>1
      <4> QED BY <4>1, <4>2, LowerCell
    <3>3. d \in spoilt' <=> d + up \in old
      BY <2>2, <3>1, <3>2
    <3> QED BY <3>3
  <2> QED BY <2>3, <2>4
<1>16. m \in Nat /\ m + 1 \in Nat /\ m = Len(Shown) /\ m + 1 = Len(Shown')
  BY <1>4, <1>5 DEF m
<1>17. con \in Displays /\ ptr \in Pointers /\ ptr' \in Pointers
  BY <1>1, <1>3
<1> DEFINE n == m + 1
<1>18. n \in Nat /\ n = Len(Shown') /\ AboveKept(t, m, t1, n) /\ up = Before(t, m) - Before(t1, n)
  BY <1>7, <1>16
<1>19. \A d \in 0 .. Before(t1, n) - 1 :
         IF d \in spoilt' THEN d + up \in spoilt \cup {ptr.pos, ptr'.pos} ELSE d + up \notin spoilt
  BY <1>15
<1> HIDE DEF n, up
<1>20. KeptAbove
  BY <1>2, <1>8, <1>16, <1>17, <1>18, <1>19, AboveBy
<1> QED BY <1>12, <1>20

LEMMA EraseShown ==
  ASSUME ConInv, Erase, line # << >>
  PROVE  ConInv' /\ KeptAbove
<1>1. /\ stage = "prompt" /\ todo = << >> /\ todo' = todo /\ stage' = stage /\ ptr' = ptr
      /\ line' = Front(line) /\ con' = vga_backspace(con)
      /\ spoilt' = spoilt \ {CursorCell(con')}
  BY DEF Erase, AtPrompt, GetKey
<1>2. PICK t : Agrees(con, ptr, spoilt, t) /\ t \in Screens /\ Clean(t) /\ Holds(t, Shown)
  BY <1>1, AtPromptRun DEF Ends
<1>a. /\ con \in Displays /\ ptr \in Pointers /\ spoilt \subseteq Cells /\ line \in Seq(Typed)
      /\ Len(line) < SHELL_MAX
  BY DEF ConInv, ConTypes
<1>3. /\ line \in Seq(Chars) /\ Prompt \in Seq(Chars) /\ Len(line) \in Nat \ {0}
      /\ Len(Prompt) \in Nat
  <2>1. line \in Seq(Chars)
    BY <1>a, ShownLength
  <2>2. Len(line) \in Nat \ {0}
    BY <1>a, EmptySeq
  <2> QED BY <2>1, <2>2, KernelConstants
<1>4. /\ Shown \in Seq(Chars) /\ Len(Shown) = Len(Prompt) + Len(line)
      /\ \A i \in 1 .. Len(Prompt) + Len(line) :
           Shown[i] = IF i <= Len(Prompt) THEN Prompt[i] ELSE line[i - Len(Prompt)]
  BY <1>3, ConcatProperties DEF Shown
<1>5. Shown # << >>
  BY <1>3, <1>4
<1>6. /\ line' \in Seq(Typed) /\ Len(line') = Len(line) - 1
      /\ \A i \in 1 .. Len(line) - 1 : line'[i] = line[i]
  BY <1>1, <1>a, FrontIs
<1>7. Shown' = Front(Shown) /\ Len(Shown') = Len(Shown) - 1
  <2> DEFINE m == Len(Prompt) + Len(line) - 1
             f == Front(Shown)
  <2>1. /\ f \in Seq(Chars) /\ Len(f) = Len(Shown) - 1
        /\ \A i \in 1 .. Len(Shown) - 1 : f[i] = Shown[i]
    BY <1>4, <1>5, FrontIs
  <2>2. f \in Seq(Chars) /\ Len(f) = m /\ \A i \in 1 .. m : f[i] = Shown[i]
    BY <1>4, <2>1
  <2>3. line' \in Seq(Chars)
    BY <1>3, <1>6
  <2>4. /\ Prompt \o line' \in Seq(Chars) /\ Len(Prompt \o line') = m
        /\ \A i \in 1 .. m : (Prompt \o line')[i] =
             IF i <= Len(Prompt) THEN Prompt[i] ELSE line'[i - Len(Prompt)]
    BY <1>3, <1>6, <2>3, ConcatProperties
  <2> HIDE DEF f
  <2>5. \A i \in 1 .. m : i \in 1 .. Len(Prompt) + Len(line)
                            /\ (i <= Len(Prompt) \/ i - Len(Prompt) \in 1 .. Len(line) - 1)
    BY <1>3
  <2>6. \A i \in 1 .. m : (Prompt \o line')[i] = f[i]
    BY <1>4, <1>6, <2>2, <2>4, <2>5
  <2>7. Prompt \o line' = f
    BY <2>2, <2>4, <2>6, SeqEqual
  <2> QED BY <1>3, <1>4, <2>2, <2>7 DEF Shown, f
<1> DEFINE t1 == vga_backspace(t)
           m  == Len(Shown)
           n  == Len(Shown) - 1
           k  == CursorCell(con)
<1>8. /\ t1 \in Screens /\ Clean(t1) /\ Holds(t1, Shown') /\ AboveKept(t, m, t1, n)
      /\ Before(t, m) = Before(t1, n) /\ CursorCell(t) # 0
  BY <1>2, <1>4, <1>5, <1>7, BackspaceHolds
<1>9. CursorCell(t) = k /\ k \in Nat
  BY <1>2, <1>a, AgreesIs, CursorIn
<1>10. /\ con' \in Displays /\ CursorCell(con') = k - 1
       /\ Agrees(con', ptr', spoilt', t1)
  BY <1>1, <1>2, <1>a, <1>8, <1>9, BackAgrees
<1> HIDE DEF t1
<1>11. Run(todo', t1, t1) /\ Ends(stage', Shown', t1)
  BY <1>1, <1>8, RunEmpty DEF Ends
<1>12. ConInv'
  <2>1. /\ todo' \in Seq(Works) /\ ptr' \in Pointers /\ stage' \notin {"boot", "start", "eword"}
        /\ spoilt' \subseteq Cells
    BY <1>1, <1>a DEF ConInv, ConTypes
  <2>2. Len(line') < SHELL_MAX
    BY <1>3, <1>6, <1>a, KernelConstants
  <2> QED BY <1>6, <1>10, <1>11, <2>1, <2>2, ConBy
<1> DEFINE up == Before(t, m) - Before(t1, n)
<1>13. m \in Nat /\ n \in Nat /\ m = Len(Shown) /\ n = Len(Shown') /\ n = m - 1
  BY <1>3, <1>4, <1>7
<1>14. CursorCell(t1) = k - 1
  <2>1. CursorCell(t1) = CursorCell(con')
    BY <1>10 DEF Agrees, CursorCell
  <2> QED BY <1>10, <2>1
<1> HIDE DEF m, n, k
<1>15. /\ up = 0 /\ Before(t1, n) = k - 1 - n
  BY <1>8, <1>9, <1>13, <1>14 DEF Before
<1> HIDE DEF up
<1>16. \A d \in 0 .. Before(t1, n) - 1 :
         IF d \in spoilt' THEN d + up \in spoilt \cup {ptr.pos, ptr'.pos} ELSE d + up \notin spoilt
  <2> SUFFICES ASSUME NEW d \in 0 .. Before(t1, n) - 1
               PROVE  (d \in spoilt' <=> d \in spoilt) /\ d + up = d
    OBVIOUS
  <2>1. d # k - 1 /\ d + up = d
    BY <1>9, <1>13, <1>15
  <2> QED BY <1>1, <1>10, <2>1
<1>17. ptr' \in Pointers /\ up = Before(t, m) - Before(t1, n)
  BY <1>1, <1>a DEF up
<1>18. KeptAbove
  BY <1>2, <1>a, <1>8, <1>10, <1>13, <1>16, <1>17, AboveBy
<1> QED BY <1>12, <1>18

(* What a command writes ends on a clean line; the prompt comes behind it. *)
LEMMA ConShows ==
  ASSUME ConInv, NEW x \in Seq(Works), Shows(x),
         \A t \in Screens : Clean(t) => \E u : Run(x, t, u) /\ Clean(u)
  PROVE  ConInv'
<1>1. /\ stage = "command" /\ todo = << >> /\ stage' = "prompt" /\ line' = << >>
      /\ todo' = x \o Prompting /\ UNCHANGED <<con, ptr, spoilt>>
  BY DEF Shows, Command
<1>2. PICK t : Agrees(con, ptr, spoilt, t) /\ t \in Screens /\ Clean(t)
  BY <1>1, AtPromptRun DEF Ends
<1>3. PICK u : Run(x, t, u) /\ Clean(u)
  BY <1>2
<1>4. todo' \in Seq(Works) /\ \E w : Run(todo', t, w) /\ Clean(w) /\ Holds(w, Prompt)
  BY <1>1, <1>3, PromptRun
<1>5. PICK w : Run(todo', t, w) /\ Clean(w) /\ Holds(w, Prompt)
  BY <1>4
<1>6. Ends(stage', Shown', w)
  BY <1>1, <1>5, EmptyLine DEF Ends, Shown
<1>7. con' \in Displays /\ ptr' \in Pointers /\ spoilt' \subseteq Cells
  BY <1>1 DEF ConInv, ConTypes
<1> QED BY <1>1, <1>2, <1>4, <1>5, <1>6, <1>7, EmptyLine, ConBy

LEMMA PrintsRun ==
  ASSUME NEW o \in Outputs
  PROVE  /\ Printing(o) \in Seq(Works)
         /\ \A t \in Screens : Clean(t) => \E u : Run(Printing(o), t, u) /\ Clean(u)
<1>1. o \in Seq(Chars) /\ (o # << >> => o[Len(o)] = Newline)
  BY KernelAssumption
<1>2. ASSUME NEW t \in Screens, Clean(t) PROVE Run(Printing(o), t, vga_print(t, o)) /\ Clean(vga_print(t, o))
  BY <1>1, <1>2, RunPrint, CleanIsBelow, PrintBelow
<1> QED BY <1>1, <1>2, PrintingIs

LEMMA ClearRun ==
  /\ << <<"clear">> >> \in Seq(Works)
  /\ \A t \in Screens : Run(<< <<"clear">> >>, t, vga_clear) /\ Clean(vga_clear)
<1> DEFINE w == <<"clear">>
<1>1. w \in Works /\ w[1] = "clear"
  BY DEF Works
<1>2. \A t : Plain(t, w) = vga_clear
  BY <1>1 DEF Plain
<1> HIDE DEF w
<1>3. <<w>> \in Seq(Works)
  BY <1>1
<1>4. \A t \in Screens : Run(<<w>>, t, vga_clear)
  BY <1>1, <1>2, RunOne
<1> QED BY <1>3, <1>4, ClearClean DEF w

LEMMA PokeRun ==
  ASSUME NEW c \in Drawn
  PROVE  /\ << <<"poke", c>> >> \in Seq(Works)
         /\ \A t \in Screens : Clean(t) => \E u : Run(<< <<"poke", c>> >>, t, u) /\ Clean(u)
<1> DEFINE w == <<"poke", c>>
<1>1. w \in Works /\ w[1] = "poke" /\ w[2] = c
  BY DEF Works
<1> HIDE DEF w
<1>2. <<w>> \in Seq(Works)
  BY <1>1
<1>3. ASSUME NEW t \in Screens, Clean(t) PROVE Run(<<w>>, t, Plain(t, w)) /\ Clean(Plain(t, w))
  <2> DEFINE u == Plain(t, w)
  <2>1. Run(<<w>>, t, u)
    BY <1>1, RunOne
  <2>2. u = [t EXCEPT !.vga[c] = Ink] /\ t = [vga |-> t.vga, row |-> t.row, col |-> t.col]
        /\ t.vga \in [Cells -> Chars]
    BY <1>1 DEF Plain, Screens, ScreensOf
  <2>3. u.vga = [t.vga EXCEPT ![c] = Ink] /\ u.row = t.row /\ u.col = t.col
    BY <2>2
  <2>4. CursorCell(u) = CursorCell(t)
    BY <2>3 DEF CursorCell
  <2>5. \A d \in Cells : u.vga[d] \in {Ink, t.vga[d]}
    BY <2>2, <2>3
  <2>6. Clean(u)
    BY <1>3, <2>4, <2>5 DEF Clean, Empties
  <2> QED BY <2>1, <2>6
<1> QED BY <1>2, <1>3 DEF w

LEMMA ConShell == ConInv /\ (Shell \/ EwordKeys \/ EwordEsc) => ConInv'
<1> SUFFICES ASSUME ConInv, Shell \/ EwordKeys \/ EwordEsc PROVE ConInv'
  OBVIOUS
<1>0. ConTypes
  BY DEF ConInv
<1>1. CASE Arrow
  <2>1. UNCHANGED <<con, ptr, spoilt, todo, line, stage, inside>>
    BY <1>1 DEF Arrow, AtPrompt, GetKey, progVars, screenVars
  <2> QED BY <2>1, ConSame
<1>2. ASSUME NEW c \in Typed, Type(c) PROVE ConInv'
  <2>1. CASE Len(line) < SHELL_MAX - 1
    BY <1>2, <2>1, TypeShown
  <2>2. CASE ~(Len(line) < SHELL_MAX - 1)
    <3>1. UNCHANGED <<con, ptr, spoilt, todo, line, stage, inside>>
      BY <1>2, <2>2 DEF Type, AtPrompt, GetKey
    <3> QED BY <3>1, ConSame
  <2> QED BY <2>1, <2>2
<1>3. CASE Erase
  <2>1. CASE line # << >>
    BY <1>3, <2>1, EraseShown
  <2>2. CASE line = << >>
    <3>1. UNCHANGED <<con, ptr, spoilt, todo, line, stage, inside>>
      BY <1>3, <2>2 DEF Erase, AtPrompt, GetKey
    <3> QED BY <3>1, ConSame
  <2> QED BY <2>1, <2>2
<1>4. CASE EnterEmpty
  <2>1. /\ stage = "prompt" /\ stage' = stage /\ todo = << >> /\ line = << >> /\ line' = line
        /\ todo' = Printing(<<Newline>>) \o Prompting /\ UNCHANGED <<con, ptr, spoilt>>
    BY <1>4 DEF EnterEmpty, AtPrompt, GetKey
  <2>2. PICK t : Agrees(con, ptr, spoilt, t) /\ t \in Screens /\ Clean(t)
    BY <2>1, AtPromptRun DEF Ends
  <2>3. /\ Printing(<<Newline>>) \in Seq(Works)
        /\ \E u : Run(Printing(<<Newline>>), t, u) /\ Clean(u)
    BY <2>2, NewlineRun
  <2>4. todo' \in Seq(Works) /\ \E w : Run(todo', t, w) /\ Clean(w) /\ Holds(w, Prompt)
    BY <2>1, <2>3, PromptRun
  <2>5. PICK w : Run(todo', t, w) /\ Clean(w) /\ Holds(w, Prompt)
    BY <2>4
  <2>6. Ends(stage', Shown', w)
    BY <2>1, <2>5, EmptyLine DEF Ends, Shown
  <2>7. con' \in Displays /\ ptr' \in Pointers /\ spoilt' \subseteq Cells
    BY <1>0, <2>1 DEF ConTypes
  <2> QED BY <2>1, <2>2, <2>4, <2>5, <2>6, <2>7, EmptyLine, ConBy
<1>5. CASE EnterLine
  <2>1. /\ stage = "prompt" /\ stage' = "command" /\ todo = << >>
        /\ todo' = Printing(<<Newline>>) /\ UNCHANGED <<con, ptr, spoilt, line>>
    BY <1>5 DEF EnterLine, AtPrompt, GetKey
  <2>2. PICK t : Agrees(con, ptr, spoilt, t) /\ t \in Screens /\ Clean(t)
    BY <2>1, AtPromptRun DEF Ends
  <2>3. todo' \in Seq(Works) /\ \E u : Run(todo', t, u) /\ Clean(u)
    BY <2>1, <2>2, NewlineRun
  <2>4. PICK u : Run(todo', t, u) /\ Clean(u)
    BY <2>3
  <2>5. Ends(stage', Shown', u)
    BY <2>1, <2>4 DEF Ends
  <2>6. /\ con' \in Displays /\ ptr' \in Pointers /\ spoilt' \subseteq Cells
        /\ line' \in Seq(Typed) /\ Len(line') < SHELL_MAX
    BY <1>0, <2>1 DEF ConTypes
  <2> QED BY <2>1, <2>2, <2>3, <2>4, <2>5, <2>6, ConBy
<1>6. ASSUME NEW o \in Outputs, Prints(o) \/ \E n \in Slots, m \in FileSizes : WriteFile(n, m, o)
      PROVE  ConInv'
  <2>1. Shows(Printing(o))
    BY <1>6 DEF Prints, WriteFile
  <2> QED BY <2>1, PrintsRun, ConShows
<1>7. CASE ClearScreen
  BY <1>7, ClearRun, ConShows DEF ClearScreen
<1>8. ASSUME NEW c \in Drawn, ExecDraws(c) PROVE ConInv'
  BY <1>8, PokeRun, ConShows DEF ExecDraws
<1>9. CASE sys_reboot
  <2>1. UNCHANGED <<con, ptr, spoilt, todo, line, inside>> /\ stage' = "rebooted"
    BY <1>9 DEF sys_reboot, Command
  <2> QED BY <2>1, ConSame
<1>10. ASSUME NEW f, Fault(f) PROVE ConInv'
  <2>1. /\ UNCHANGED <<con, ptr, spoilt, todo, line>> /\ stage = "command"
        /\ stage' = stage \/ stage' = "reset"
    BY <1>10 DEF Fault, Command
  <2> QED BY <2>1, ConSame
<1>11. CASE eword_open
  <2>1. /\ stage = "command" /\ stage' = "eword" /\ todo = << >> /\ todo' = todo /\ line' = << >>
        /\ con' = vga_clear /\ ptr' = NoBlock /\ spoilt' = {}
    BY <1>11 DEF eword_open, Command
  <2>2. con' \in Displays /\ ptr' \in Pointers /\ Agrees(con', ptr', spoilt', vga_clear)
    BY <2>1, NoBlockIs, ClearClean, PlainAgrees
  <2>3. Run(todo', vga_clear, vga_clear) /\ todo' \in Seq(Works)
    BY <1>0, <2>1, RunEmpty, ClearClean DEF ConTypes
  <2>4. Ends(stage', Shown', vga_clear)
    BY <2>1 DEF Ends
  <2>5. spoilt' \subseteq Cells
    BY <2>1
  <2> QED BY <2>1, <2>2, <2>3, <2>4, <2>5, EmptyLine, ConBy
<1>12. CASE EwordKeys
  <2>1. UNCHANGED <<con, ptr, spoilt, todo, line, stage, inside>>
    BY <1>12 DEF EwordKeys, EwordKey, GetKey, progVars, screenVars
  <2> QED BY <2>1, ConSame
<1>13. CASE EwordEsc
  <2>1. /\ stage = "eword" /\ stage' = "prompt" /\ todo = << >> /\ line' = line
        /\ todo' = << <<"clear">> >> \o Prompting /\ UNCHANGED <<con, ptr, spoilt>>
    BY <1>13 DEF EwordEsc, GetKey
  <2>2. line = << >>
    BY <2>1 DEF ConInv, ConBoot
  <2>3. PICK t : Agrees(con, ptr, spoilt, t) /\ t \in Screens
    BY <2>1, AtPromptRun
  <2> DEFINE x == << <<"clear">> >>
  <2>4. x \in Seq(Works) /\ Run(x, t, vga_clear) /\ Clean(vga_clear)
    BY <2>3, ClearRun
  <2> HIDE DEF x
  <2>5. x \o Prompting \in Seq(Works) /\ \E w : Run(x \o Prompting, t, w) /\ Clean(w) /\ Holds(w, Prompt)
    BY <2>4, PromptRun
  <2>6. todo' = x \o Prompting
    BY <2>1 DEF x
  <2>7. PICK w : Run(todo', t, w) /\ Clean(w) /\ Holds(w, Prompt)
    BY <2>5, <2>6
  <2>8. Ends(stage', Shown', w)
    BY <2>1, <2>2, <2>7, EmptyLine DEF Ends, Shown
  <2>9. /\ con' \in Displays /\ ptr' \in Pointers /\ spoilt' \subseteq Cells
        /\ line' \in Seq(Typed) /\ Len(line') < SHELL_MAX /\ todo' \in Seq(Works)
    BY <1>0, <2>1, <2>5, <2>6 DEF ConTypes
  <2> QED BY <2>1, <2>3, <2>7, <2>8, <2>9, ConBy
<1> QED BY <1>1, <1>2, <1>3, <1>4, <1>5, <1>6, <1>7, <1>8, <1>9, <1>10, <1>11, <1>12, <1>13
        DEF Shell

(* A motion, by the handler or by a reader.                                *)
LEMMA HandlerMoves ==
  ASSUME ConInv, irq_handler
  PROVE  \/ UNCHANGED <<con, ptr, spoilt, todo, line, stage>>
         \/ /\ \A t : Agrees(con, ptr, spoilt, t) => Agrees(con', ptr', spoilt', t)
            /\ con' \in Displays /\ ptr' \in Pointers /\ spoilt' \subseteq Cells
            /\ UNCHANGED <<todo, line, stage>>
            /\ spoilt \subseteq spoilt' /\ spoilt' \subseteq spoilt \cup {ptr.pos, ptr'.pos}
<1>0. ConTypes
  BY DEF ConInv
<1>1. UNCHANGED <<todo, line, stage>> /\ (UNCHANGED <<con, ptr, spoilt>> \/ \E s \in Spots : Motion(s))
  BY DEF irq_handler
<1>2. ASSUME NEW s \in Spots, Motion(s)
      PROVE  /\ \A t : Agrees(con, ptr, spoilt, t) => Agrees(con', ptr', spoilt', t)
             /\ con' \in Displays /\ ptr' \in Pointers /\ spoilt' \subseteq Cells
             /\ spoilt \subseteq spoilt' /\ spoilt' \subseteq spoilt \cup {ptr.pos, ptr'.pos}
  <2>1. s \in Cells /\ con \in Displays /\ ptr \in Pointers /\ spoilt \subseteq Cells
    BY <1>0, KernelAssumption DEF ConTypes
  <2>2. \A t : Agrees(con, ptr, spoilt, t) =>
                 con' \in Displays /\ ptr' \in Pointers /\ Agrees(con', ptr', spoilt', t)
    BY <1>2, <2>1, MotionAgrees
  <2>3. \E t : Agrees(con, ptr, spoilt, t)
    BY DEF ConInv, ConRun
  <2>4. ptr.pos \in Cells
    BY <2>1 DEF Pointers
  <2>5. spoilt' = SpoiltByHide(con, ptr, spoilt)
    BY <1>2 DEF Motion
  <2> QED BY <2>1, <2>2, <2>3, <2>4, <2>5 DEF SpoiltByHide
<1> QED BY <1>1, <1>2

LEMMA PairIs ==
  ASSUME NEW V, NEW a \in V, NEW b \in V
  PROVE  <<a>> \in Seq(V) /\ <<b>> \in Seq(V) /\ <<a>> \o <<b>> = <<a, b>>
<1>1. /\ <<a>> \in Seq(V) /\ Len(<<a>>) = 1 /\ <<a>>[1] = a
      /\ <<b>> \in Seq(V) /\ Len(<<b>>) = 1 /\ <<b>>[1] = b
  OBVIOUS
<1>2. /\ <<a>> \o <<b>> \in Seq(V) /\ Len(<<a>> \o <<b>>) = 2
      /\ \A k \in 1 .. 1 : (<<a>> \o <<b>>)[k] = <<a>>[k]
      /\ \A k \in 1 .. 1 : (<<a>> \o <<b>>)[1 + k] = <<b>>[k]
  BY <1>1, ConcatAt
<1> DEFINE r == <<a>> \o <<b>>
<1>3. r \in Seq(V) /\ Len(r) = 2 /\ r[1] = a /\ r[2] = b
  BY <1>1, <1>2
<1> HIDE DEF r
<1>4. r = <<a, b>>
  BY <1>3
<1> QED BY <1>1, <1>4 DEF r

LEMMA PointerWorks ==
  ASSUME NEW s \in Spots
  PROVE  LET x == << <<"hide">>, <<"draw", s>> >>
         IN  /\ x \in Seq(Works) /\ \A t \in Screens : Run(x, t, t)
<1> DEFINE h == <<"hide">>
           d == <<"draw", s>>
<1>1. h \in Works /\ d \in Works /\ h[1] = "hide" /\ d[1] = "draw"
  BY DEF Works
<1>2. \A t : Plain(t, h) = t /\ Plain(t, d) = t
  BY <1>1 DEF Plain
<1> HIDE DEF h, d
<1>3. <<h>> \in Seq(Works) /\ <<d>> \in Seq(Works) /\ <<h>> \o <<d>> = <<h, d>>
  BY <1>1, PairIs
<1>4. \A t \in Screens : Run(<<h>>, t, t) /\ Run(<<d>>, t, t)
  BY <1>1, <1>2, RunOne
<1>5. \A t \in Screens : Run(<<h>> \o <<d>>, t, t)
  BY <1>3, <1>4, RunConcat
<1>6. <<h, d>> \in Seq(Works)
  BY <1>1
<1> QED BY <1>3, <1>5, <1>6 DEF h, d

LEMMA ConInterrupts ==
  ConInv /\ (Devices \/ Person \/ PollByte \/ Interrupt \/ irq_handler \/ fault_handler) => ConInv'
<1> SUFFICES ASSUME ConInv, Devices \/ Person \/ PollByte \/ Interrupt \/ irq_handler \/ fault_handler
             PROVE  ConInv'
  OBVIOUS
<1>0. ConTypes
  BY DEF ConInv
<1>1. CASE Devices \/ Person
  <2>1. UNCHANGED <<con, ptr, spoilt, todo, line, stage, inside>>
    BY <1>1 DEF Devices, Person, progVars, screenVars, cpuVars
  <2> QED BY <2>1, ConSame
<1>2. CASE PollByte
  <2>1. /\ UNCHANGED <<con, ptr, spoilt, line, stage, inside>> /\ todo = << >>
        /\ stage \in {"prompt", "eword"}
        /\ todo' = todo \/ \E s \in Spots : todo' = << <<"hide">>, <<"draw", s>> >>
    BY <1>2 DEF PollByte
  <2>2. CASE todo' = todo
    BY <2>1, <2>2, ConSame
  <2>3. ASSUME NEW s \in Spots, todo' = << <<"hide">>, <<"draw", s>> >> PROVE ConInv'
    <3>1. PICK t : Agrees(con, ptr, spoilt, t) /\ t \in Screens /\ Ends(stage, Shown, t)
      BY <2>1, AtPromptRun
    <3>2. todo' \in Seq(Works) /\ Run(todo', t, t)
      BY <2>3, <3>1, PointerWorks
    <3>3. Agrees(con', ptr', spoilt', t) /\ Ends(stage', Shown', t)
      BY <2>1, <3>1 DEF Shown
    <3>4. stage' = "eword" => line' = << >>
      BY <2>1 DEF ConInv, ConBoot
    <3>5. /\ con' \in Displays /\ ptr' \in Pointers /\ spoilt' \subseteq Cells
          /\ line' \in Seq(Typed) /\ Len(line') < SHELL_MAX
      BY <1>0, <2>1 DEF ConTypes
    <3>6. stage' \notin {"boot", "start"}
      BY <2>1
    <3> QED BY <3>2, <3>3, <3>4, <3>5, <3>6, ConBy
  <2> QED BY <2>1, <2>2, <2>3
<1>3. CASE Interrupt
  <2>1. /\ UNCHANGED <<con, ptr, spoilt, todo, line>> /\ stage # "boot"
        /\ stage' = stage \/ stage' = "reset"
    BY <1>3 DEF Interrupt, screenVars
  <2> QED BY <2>1, ConSame
<1>4. CASE irq_handler
  <2>0. inside /\ stage # "boot" /\ stage' = stage
    BY <1>4 DEF irq_handler, ConInv, ConBoot
  <2>1. CASE UNCHANGED <<con, ptr, spoilt, todo, line, stage>>
    BY <2>0, <2>1, ConSame
  <2>2. CASE /\ \A t : Agrees(con, ptr, spoilt, t) => Agrees(con', ptr', spoilt', t)
             /\ con' \in Displays /\ ptr' \in Pointers /\ spoilt' \subseteq Cells
             /\ UNCHANGED <<todo, line, stage>>
    <3>1. PICK t, u : Agrees(con, ptr, spoilt, t) /\ Run(todo, t, u) /\ Ends(stage, Shown, u)
      BY DEF ConInv, ConRun
    <3>2. Agrees(con', ptr', spoilt', t) /\ Run(todo', t, u) /\ Ends(stage', Shown', u)
      BY <2>2, <3>1 DEF Shown
    <3>3. /\ stage' = "start" => todo' = << >>
          /\ stage' \in {"start", "eword"} => line' = << >>
      BY <2>2 DEF ConInv, ConBoot
    <3>4. todo' \in Seq(Works) /\ line' \in Seq(Typed) /\ Len(line') < SHELL_MAX
      BY <1>0, <2>2 DEF ConTypes
    <3> QED BY <2>0, <2>2, <3>2, <3>3, <3>4, ConBy
  <2> QED BY <1>4, <2>1, <2>2, HandlerMoves
<1>5. CASE fault_handler
  <2>1. /\ UNCHANGED <<con, ptr, spoilt, line>> /\ stage' = "halted"
        /\ todo' = Printing(FaultText) /\ FaultText \in Seq(Chars)
    BY <1>5, KernelAssumption DEF fault_handler
  <2>2. PICK t : Agrees(con, ptr, spoilt, t)
    BY DEF ConInv, ConRun
  <2>3. t \in Screens
    BY <2>2 DEF Agrees
  <2>4. todo' \in Seq(Works) /\ Run(todo', t, vga_print(t, FaultText))
    BY <2>1, <2>3, PrintingIs, RunPrint
  <2>5. Ends(stage', Shown', vga_print(t, FaultText))
    BY <2>1 DEF Ends
  <2>6. /\ con' \in Displays /\ ptr' \in Pointers /\ spoilt' \subseteq Cells
        /\ line' \in Seq(Typed) /\ Len(line') < SHELL_MAX /\ Agrees(con', ptr', spoilt', t)
    BY <1>0, <2>1, <2>2 DEF ConTypes
  <2>7. stage' \notin {"boot", "start", "eword"}
    BY <2>1
  <2> QED BY <2>4, <2>5, <2>6, <2>7, ConBy
<1> QED BY <1>1, <1>2, <1>3, <1>4, <1>5

(* The console, the pointer and the line, whatever the interrupts, the     *)
(* programs and the commands do, and wherever the block is drawn.          *)
THEOREM KernelConsole == Spec => []ConInv
<1>1. ConInv /\ [Next]_vars => ConInv'
  <2>1. ASSUME ConInv, UNCHANGED vars PROVE ConInv'
    <3>1. UNCHANGED <<con, ptr, spoilt, todo, line, stage, inside>>
      BY <2>1 DEF vars, progVars, screenVars, cpuVars
    <3> QED BY <2>1, <3>1, ConSame
  <2>2. ASSUME ConInv, Next PROVE ConInv'
    BY <2>2, ConStart, ConWrites, ConShell, ConInterrupts DEF Next
  <2> QED BY <2>1, <2>2
<1> QED BY <1>1, ConInit, PTL DEF Spec

LEMMA PrintedRun ==
  ASSUME ConInv, Printed
  PROVE  \E t : Agrees(con, ptr, spoilt, t) /\ t \in Screens /\ Ends(stage, Shown, t)
<1>1. PICK t, u : Agrees(con, ptr, spoilt, t) /\ Run(todo, t, u) /\ Ends(stage, Shown, u)
  BY DEF ConInv, ConRun
<1>2. u = t
  BY <1>1, RunPointer DEF Printed, ConInv, ConTypes
<1> QED BY <1>1, <1>2 DEF Agrees

(* The line as the shell has it stands on the screen after the prompt, the *)
(* pointer lifted, and nothing behind the cursor: also when it has wrapped *)
(* and scrolled; only what the pointer has spoilt is lost.                 *)
THEOREM KernelLineShown == Spec => []LineShown
<1>1. ConInv => LineShown
  <2> SUFFICES ASSUME ConInv, stage = "prompt", Printed
               PROVE  /\ First >= 0
                      /\ \A i \in DOMAIN Shown :
                           First + i - 1 \in spoilt \/ Text[First + i - 1] = Shown[i]
                      /\ \A c \in Cells \ spoilt : c >= CursorCell(con) => Text[c] \in {Space, Ink}
    BY DEF LineShown
  <2>1. PICK t : Agrees(con, ptr, spoilt, t) /\ t \in Screens /\ Clean(t) /\ Holds(t, Shown)
    BY PrintedRun DEF Ends
  <2>2. Shown \in Seq(Chars) /\ Len(Shown) \in Nat /\ DOMAIN Shown = 1 .. Len(Shown)
    <3>1. Shown \in Seq(Chars)
      BY ShownLength DEF ConInv, ConTypes
    <3> QED BY <3>1
  <2>3. /\ CursorCell(con) = CursorCell(t) /\ CursorCell(t) \in Cells /\ CursorCell(t) \in Nat
    BY <2>1, AgreesIs, CursorIn DEF ConInv, ConTypes
  <2>4. \A c \in Cells \ spoilt : Text[c] = t.vga[c]
    BY <2>1 DEF Text, Agrees
  <2>5. First >= 0 /\ First \in Int
    BY <2>1, <2>2, <2>3 DEF Holds, First
  <2>6. ASSUME NEW i \in 1 .. Len(Shown), First + i - 1 \notin spoilt
        PROVE  Text[First + i - 1] = Shown[i]
    <3>1. First + i - 1 \in Int /\ First + i - 1 >= 0 /\ First + i - 1 <= CursorCell(t)
      BY <2>2, <2>3, <2>5 DEF First
    <3>2. First + i - 1 \in Cells
      BY <2>3, <3>1, LowerCell
    <3>3. t.vga[First + i - 1] = Shown[i]
      BY <2>1, <2>3 DEF Holds, First
    <3> QED BY <2>4, <2>6, <3>2, <3>3
  <2> QED BY <2>1, <2>2, <2>3, <2>4, <2>5, <2>6 DEF Clean, Empties
<1> QED BY <1>1, KernelConsole, PTL

(* Steps at the prompt while nothing but the pointer is to be drawn.       *)
LEMMA PromptSteps ==
  ASSUME ConInv, Next, stage = "prompt", stage' = stage, Printed, Printed'
  PROVE  KeptAbove
<1>0. ConTypes
  BY DEF ConInv
<1>1. PICK t : Agrees(con, ptr, spoilt, t)
  BY DEF ConInv, ConRun
<1>2. ASSUME UNCHANGED <<con, ptr, spoilt, line>> PROVE KeptAbove
  <2>1. con' \in Displays /\ ptr' \in Pointers /\ Agrees(con', ptr', spoilt', t)
    BY <1>0, <1>1, <1>2 DEF ConTypes
  <2>2. line' = line /\ spoilt' = spoilt
    BY <1>2
  <2> QED BY <1>0, <1>1, <2>1, <2>2, StillAbove
<1>3. CASE Start
  BY <1>3 DEF Start, kernel_main, pic_remap, InMouseInit, ShellBegins
<1>4. CASE Devices \/ Person
  <2>1. UNCHANGED <<con, ptr, spoilt, line>>
    BY <1>4 DEF Devices, Person, progVars, screenVars
  <2> QED BY <2>1, <1>2
<1>5. CASE Writes
  <2>1. /\ todo # << >> /\ Perform(Head(todo)) /\ UNCHANGED line
    BY <1>5 DEF Writes
  <2>2. Head(todo) \in Works /\ Head(todo) = todo[1] /\ 1 \in DOMAIN todo
    <3>1. todo \in Seq(Works)
      BY <1>0 DEF ConTypes
    <3>2. Len(todo) \in Nat \ {0}
      BY <2>1, <3>1, EmptySeq
    <3>3. Head(todo) \in Works
      BY <2>1, <3>1, HeadTailProperties
    <3> QED BY <3>1, <3>2, <3>3
  <2>3. Head(todo)[1] \in {"hide", "draw"}
    BY <2>2 DEF Printed
  <2>4. Plain(t, Head(todo)) = t
    BY <2>3 DEF Plain
  <2>5. con' \in Displays /\ ptr' \in Pointers /\ Agrees(con', ptr', spoilt', t)
    BY <1>0, <1>1, <2>1, <2>2, <2>4, PerformAgrees DEF ConTypes
  <2>6. spoilt \subseteq spoilt' /\ spoilt' \subseteq spoilt \cup {ptr.pos, ptr'.pos}
    BY <2>1, <2>3 DEF Perform, Hide, DrawAt, SpoiltByHide, SpoiltByDraw
  <2> QED BY <1>0, <1>1, <2>1, <2>5, <2>6, StillAbove
<1>6. CASE Shell
  <2>1. CASE Arrow
    <3>1. UNCHANGED <<con, ptr, spoilt, line>>
      BY <2>1 DEF Arrow, progVars, screenVars
    <3> QED BY <3>1, <1>2
  <2>2. ASSUME NEW c \in Typed, Type(c) PROVE KeptAbove
    <3>1. CASE Len(line) < SHELL_MAX - 1
      BY <2>2, <3>1, TypeShown
    <3>2. CASE ~(Len(line) < SHELL_MAX - 1)
      <4>1. UNCHANGED <<con, ptr, spoilt, line>>
        BY <2>2, <3>2 DEF Type
      <4> QED BY <4>1, <1>2
    <3> QED BY <3>1, <3>2
  <2>3. CASE Erase
    <3>1. CASE line # << >>
      BY <2>3, <3>1, EraseShown
    <3>2. CASE line = << >>
      <4>1. UNCHANGED <<con, ptr, spoilt, line>>
        BY <2>3, <3>2 DEF Erase
      <4> QED BY <4>1, <1>2
    <3> QED BY <3>1, <3>2
  <2>4. ~EnterEmpty
    <3> SUFFICES ASSUME EnterEmpty PROVE FALSE
      OBVIOUS
    <3> DEFINE x == Printing(<<Newline>>)
    <3>1. todo' = x \o Prompting
      BY DEF EnterEmpty
    <3>2. <<Newline>> \in Seq(Chars) /\ Len(<<Newline>>) = 1 /\ <<Newline>>[1] = Newline
      BY ConsoleAssumption
    <3>3. x \in Seq(Works) /\ Len(x) = 1 /\ x[1] = <<"print", Newline>>
      <4> DEFINE s == <<Newline>>
      <4>1. s \in Seq(Chars) /\ Len(s) = 1 /\ s[1] = Newline
        BY <3>2
      <4> HIDE DEF s
      <4>2. /\ Printing(s) \in Seq(Works) /\ Len(Printing(s)) = Len(s)
            /\ \A k \in 1 .. Len(s) : Printing(s)[k] = <<"print", s[k]>>
        BY <4>1, PrintingIs
      <4>3. Printing(s) \in Seq(Works) /\ Len(Printing(s)) = 1 /\ Printing(s)[1] = <<"print", Newline>>
        BY <4>1, <4>2
      <4> QED BY <4>3 DEF s
    <3>4. Prompting \in Seq(Works)
      BY KernelConstants, PrintingIs DEF Prompting
    <3> HIDE DEF x
    <3>5. x \o Prompting \in Seq(Works) /\ Len(x \o Prompting) >= 1 /\ (x \o Prompting)[1] = x[1]
      <4>1. /\ x \o Prompting \in Seq(Works) /\ Len(x \o Prompting) = Len(x) + Len(Prompting)
            /\ \A k \in 1 .. Len(x) : (x \o Prompting)[k] = x[k]
        BY <3>3, <3>4, ConcatAt
      <4>2. Len(Prompting) \in Nat
        BY <3>4
      <4> QED BY <3>3, <4>1, <4>2
    <3>6. 1 \in DOMAIN todo' /\ todo'[1][1] = "print"
      BY <3>1, <3>3, <3>5
    <3> QED BY <3>6 DEF Printed
  <2>5. /\ ~EnterLine /\ ~ClearScreen /\ ~sys_reboot /\ ~eword_open
        /\ \A o \in Outputs : ~Prints(o) /\ \A n \in Slots, m \in FileSizes : ~WriteFile(n, m, o)
        /\ \A c \in Drawn : ~ExecDraws(c)
        /\ \A f \in Faults : ~Fault(f)
    BY DEF EnterLine, ClearScreen, sys_reboot, eword_open, Prints, WriteFile, ExecDraws, Fault,
           Shows, Command
  <2> QED BY <1>6, <2>1, <2>2, <2>3, <2>4, <2>5 DEF Shell
<1>7. CASE EwordKeys \/ EwordEsc
  BY <1>7 DEF EwordKeys, EwordKey, EwordEsc, GetKey
<1>8. CASE PollByte \/ Interrupt
  <2>1. UNCHANGED <<con, ptr, spoilt, line>>
    BY <1>8 DEF PollByte, Interrupt, screenVars
  <2> QED BY <2>1, <1>2
<1>9. CASE irq_handler
  <2>1. CASE UNCHANGED <<con, ptr, spoilt, todo, line, stage>>
    BY <2>1, <1>2
  <2>2. CASE /\ \A r : Agrees(con, ptr, spoilt, r) => Agrees(con', ptr', spoilt', r)
             /\ con' \in Displays /\ ptr' \in Pointers /\ UNCHANGED <<todo, line, stage>>
             /\ spoilt \subseteq spoilt' /\ spoilt' \subseteq spoilt \cup {ptr.pos, ptr'.pos}
    <3>1. Agrees(con', ptr', spoilt', t) /\ line' = line
      BY <1>1, <2>2
    <3> QED BY <1>0, <1>1, <2>2, <3>1, StillAbove
  <2> QED BY <1>9, <2>1, <2>2, HandlerMoves
<1>10. CASE fault_handler
  BY <1>10 DEF fault_handler
<1> QED BY <1>3, <1>4, <1>5, <1>6, <1>7, <1>8, <1>9, <1>10 DEF Next

(* Typing, erasing and motions of the pointer scroll what is above the     *)
(* prompt by a row at most; of the rest of it they lose a cell the block   *)
(* was on.                                                                 *)
THEOREM KernelOutputAboveKept == Spec => OutputAboveKept
<1> DEFINE A == stage = "prompt" /\ stage' = stage /\ Printed /\ Printed' =>
                  LET up == First - First'
                  IN  /\ up >= 0 /\ up % VGA_COLS = 0
                      /\ \A c \in 0 .. First' - 1 :
                           IF c \in spoilt' THEN c + up \in spoilt \cup {ptr.pos, ptr'.pos}
                           ELSE Text'[c] = Text[c + up]
<1>1. ConInv /\ [Next]_vars => [A]_vars
  <2> SUFFICES ASSUME ConInv, Next, stage = "prompt", stage' = stage, Printed, Printed'
               PROVE  LET up == First - First'
                      IN  /\ up >= 0 /\ up % VGA_COLS = 0
                          /\ \A c \in 0 .. First' - 1 :
                               IF c \in spoilt' THEN c + up \in spoilt \cup {ptr.pos, ptr'.pos}
                               ELSE Text'[c] = Text[c + up]
    OBVIOUS
  <2> DEFINE up == First - First'
  <2>1. /\ up \in {0, VGA_COLS}
        /\ \A c \in 0 .. First' - 1 :
             IF c \in spoilt' THEN c + up \in spoilt \cup {ptr.pos, ptr'.pos}
             ELSE Text'[c] = Text[c + up]
    BY PromptSteps DEF KeptAbove
  <2> HIDE DEF up
  <2>2. \A m \in Nat \ {0} : 0 % m = 0 /\ m % m = 0
    OBVIOUS
  <2>3. up >= 0 /\ up % VGA_COLS = 0
    BY <2>1, <2>2, KernelConstants
  <2> QED BY <2>1, <2>3 DEF up
<1> QED BY <1>1, KernelConsole, PTL DEF Spec, OutputAboveKept

-----------------------------------------------------------------------------
(***************************************************************************)
(* EWord.  The words that match, in the order of the list: the word with   *)
(* the number d has d - 1 of them before it.                               *)
(***************************************************************************)
Matching == {i \in 1 .. Len(ew_words) : ew_starts(ew_words[i], input)}

LEMMA MatchesPick ==
  Picks(Matches, Len(ew_words), 1 .. Len(ew_words), Matching, [i \in 1 .. Len(ew_words) |-> i])
<1> DEFINE n    == Len(ew_words)
           f    == [k \in 1 .. n |-> k]
           Eq(h) == h = [s \in SUBSET (1 .. n) |->
                           IF s = {} THEN << >>
                           ELSE IF ew_starts(ew_words[f[Max(s)]], input)
                                  THEN Append(h[s \ {Max(s)}], f[Max(s)])
                                  ELSE h[s \ {Max(s)}]]
           H == CHOOSE h : Eq(h)
<1>1. n \in Nat /\ DOMAIN ew_words = 1 .. n
  BY EwordAssumption
<1>2. Len(f) = n /\ \A k \in 1 .. n : f[k] = k
  BY <1>1
<1>3. Matches = H[1 .. n]
  BY <1>1, <1>2 DEF Matches, FoldLeft, MapThenFoldSet
<1>4. Matching \in SUBSET (1 .. n) /\ \A k \in Matching : f[k] \in 1 .. n
  BY DEF Matching
<1>5. \A h : Eq(h) <=> IsFilter(h, n, Matching, f)
  BY <1>1, HighestIn DEF IsFilter, Matching
<1> HIDE DEF n, f, Eq
<1>6. /\ \E h : IsFilter(h, n, Matching, f)
      /\ \A h : IsFilter(h, n, Matching, f) => Picks(h[1 .. n], n, 1 .. n, Matching, f)
  BY <1>1, <1>4, FilterFold
<1>7. Eq(H)
  BY <1>5, <1>6
<1> HIDE DEF H
<1>8. Picks(H[1 .. n], n, 1 .. n, Matching, f)
  BY <1>5, <1>6, <1>7
<1> QED BY <1>3, <1>8 DEF n, f

LEMMA MatchRanked ==
  ASSUME NEW d \in DOMAIN Matches
  PROVE  /\ d \in Nat \ {0} /\ d <= Len(Matches) /\ Len(Matches) \in Nat
         /\ Matches \in Seq(1 .. Len(ew_words)) /\ Matches[d] \in 1 .. Len(ew_words)
         /\ Ranked(Matches[d], d)
<1> DEFINE n == Len(ew_words)
           f == [i \in 1 .. n |-> i]
<1>1. Picks(Matches, n, 1 .. n, Matching, f)
  BY MatchesPick
<1>2. Matches \in Seq(1 .. n) /\ d \in 1 .. Len(Matches) /\ Len(Matches) \in Nat
  BY <1>1 DEF Picks
<1>3. PICK k \in Matching : Matches[d] = f[k] /\ Rank(Matching, k) = d - 1
  BY <1>1, <1>2 DEF Picks
<1>4. n \in Nat /\ k \in 1 .. n /\ Matches[d] = k
  BY <1>3, EwordAssumption DEF Matching
<1>5. {l \in Matching : l < k} = {j \in 1 .. k - 1 : ew_starts(ew_words[j], input)}
  <2>1. \A l \in 1 .. n : l < k <=> l \in 1 .. k - 1
    BY <1>4
  <2>2. 1 .. k - 1 \subseteq 1 .. n
    BY <1>4
  <2> QED BY <2>1, <2>2 DEF Matching
<1>6. Ranked(k, d)
  BY <1>3, <1>5 DEF Ranked, Rank, Matching
<1> QED BY <1>2, <1>4, <1>6

(* What is listed is numbered as it is completed.                          *)
LEMMA ListedAsMatched ==
  ASSUME NEW d \in DOMAIN Matches, d <= LISTED
  PROVE  Listing[d] = Matches[d]
<1> DEFINE m == IF Len(Matches) < LISTED THEN Len(Matches) ELSE LISTED
           q == SubSeq(Matches, 1, m)
<1>1. /\ d \in Nat \ {0} /\ d <= Len(Matches) /\ Matches \in Seq(1 .. Len(ew_words))
      /\ Len(Matches) \in Nat /\ LISTED \in Nat
  BY MatchRanked, EwordAssumption
<1>2. m \in Nat /\ d \in 1 .. m /\ m <= Len(Matches)
  BY <1>1
<1> HIDE DEF m
<1>3. \A i \in 1 .. m : Matches[i] \in 1 .. Len(ew_words)
  BY <1>1, <1>2, ElementOfSeq
<1>4. \A i \in 1 .. m - 1 + 1 : q[i] = Matches[1 + i - 1]
  BY <1>2, <1>3, SubSeqProperties
<1>5. q[d] = Matches[d]
  BY <1>2, <1>4
<1> QED BY <1>5 DEF Listing, Upto, m

(* Enter and an armed digit complete to the word with that number among    *)
(* those that match, listed or not, and show its meaning.                  *)
THEOREM KernelCompletesRanked == Spec => CompletesRanked
<1> DEFINE A == \A d \in 1 .. DIGITS :
                  stage = "eword" /\ input' # input /\ (key' = d \/ (key' = EnterKey /\ d = 1)) =>
                    /\ key' = d => tab_armed
                    /\ Ranked(meaning', d)
                    /\ input' = Upto(EW_MAXLEN, ew_words[meaning'])
                    /\ d <= LISTED => Listing[d] = meaning'
<1>1. [Next]_vars => [A]_vars
  <2> SUFFICES ASSUME Next, NEW d \in 1 .. DIGITS, stage = "eword", input' # input,
                      key' = d \/ (key' = EnterKey /\ d = 1)
               PROVE  /\ key' = d => tab_armed
                      /\ Ranked(meaning', d)
                      /\ input' = Upto(EW_MAXLEN, ew_words[meaning'])
                      /\ d <= LISTED => Listing[d] = meaning'
    OBVIOUS
  <2>1. DIGITS \in Nat /\ EnterKey = DIGITS + 1 /\ d # EnterKey /\ key' # 0
    BY EwordAssumption DEF EnterKey
  <2>2. EwordKeys
    <3>1. ~Start
      BY DEF Start, kernel_main, pic_remap, InMouseInit, ShellBegins
    <3>2. ~(Devices \/ Person \/ Writes \/ PollByte \/ Interrupt \/ irq_handler \/ fault_handler)
      BY DEF Devices, Person, Writes, PollByte, Interrupt, irq_handler, fault_handler, ewVars
    <3>3. ~Shell
      BY DEF Shell, Arrow, Erase, EnterEmpty, EnterLine, Type, ClearScreen, sys_reboot, eword_open,
             Prints, Shows, WriteFile, ExecDraws, Fault, Command, AtPrompt, GetKey
    <3>4. ~EwordEsc
      BY <2>1 DEF EwordEsc
    <3> QED BY <3>1, <3>2, <3>3, <3>4 DEF Next
  <2>3. TakeMatch(d) /\ (key' = d => tab_armed)
    <3>1. \/ \E e \in 1 .. DIGITS : key' = e /\ Digit(e)
          \/ key' = EnterKey /\ Enter
      BY <2>1, <2>2 DEF EwordKeys, EwordKey
    <3>2. ASSUME NEW e \in 1 .. DIGITS, key' = e, Digit(e) PROVE TakeMatch(d) /\ tab_armed
      <4>1. e = d
        BY <2>1, <3>2
      <4> QED BY <3>2, <4>1 DEF Digit
    <3>3. ASSUME key' = EnterKey, Enter PROVE TakeMatch(d) /\ key' # d
      BY <2>1, <3>3 DEF Enter
    <3> QED BY <3>1, <3>2, <3>3
  <2>4. d \in DOMAIN Matches /\ input' = Upto(EW_MAXLEN, ew_words[Matches[d]]) /\ meaning' = Matches[d]
    BY <2>3 DEF TakeMatch, Completed
  <2> QED BY <2>3, <2>4, MatchRanked, ListedAsMatched
<1> QED BY <1>1, PTL DEF Spec, CompletesRanked

-----------------------------------------------------------------------------
(* mouse_init, operation by operation.                                     *)
OpOf(o, a) == [op |-> o, arg |-> a]

LEMMA OneMore ==
  ASSUME NEW V, NEW q \in Seq(V), NEW a \in V
  PROVE  /\ q \o <<a>> \in Seq(V) /\ Len(q \o <<a>>) = Len(q) + 1
         /\ (q \o <<a>>)[Len(q) + 1] = a /\ \A k \in 1 .. Len(q) : (q \o <<a>>)[k] = q[k]
<1>1. <<a>> \in Seq(V) /\ Len(<<a>>) = 1 /\ <<a>>[1] = a
  OBVIOUS
<1>2. /\ q \o <<a>> \in Seq(V) /\ Len(q \o <<a>>) = Len(q) + 1
      /\ \A k \in 1 .. Len(q) : (q \o <<a>>)[k] = q[k]
      /\ \A k \in 1 .. 1 : (q \o <<a>>)[Len(q) + k] = <<a>>[k]
  BY <1>1, ConcatAt
<1> QED BY <1>1, <1>2

LEMMA FourOps ==
  ASSUME NEW a, NEW b, NEW c, NEW d
  PROVE  <<a>> \o <<b>> \o <<c>> \o <<d>> = <<a, b, c, d>>
<1> DEFINE V == {a, b, c, d}
<1>0. a \in V /\ b \in V /\ c \in V /\ d \in V
  OBVIOUS
<1> HIDE DEF V
<1>1. <<a>> \in Seq(V) /\ Len(<<a>>) = 1 /\ <<a>>[1] = a
  BY <1>0
<1> DEFINE p == <<a>> \o <<b>>
           q == p \o <<c>>
           r == q \o <<d>>
<1>2. p \in Seq(V) /\ Len(p) = 2 /\ p[1] = a /\ p[2] = b
  <2>0. <<a>> \in Seq(V) /\ b \in V
    BY <1>0, <1>1
  <2>1. /\ p \in Seq(V) /\ Len(p) = Len(<<a>>) + 1 /\ p[Len(<<a>>) + 1] = b
        /\ \A k \in 1 .. Len(<<a>>) : p[k] = <<a>>[k]
    BY <2>0, OneMore
  <2> HIDE DEF p
  <2> QED BY <1>1, <2>1
<1> HIDE DEF p
<1>3. q \in Seq(V) /\ Len(q) = 3 /\ q[1] = a /\ q[2] = b /\ q[3] = c
  <2>0. p \in Seq(V) /\ c \in V
    BY <1>0, <1>2
  <2>1. /\ q \in Seq(V) /\ Len(q) = Len(p) + 1 /\ q[Len(p) + 1] = c
        /\ \A k \in 1 .. Len(p) : q[k] = p[k]
    BY <2>0, OneMore
  <2> HIDE DEF q
  <2> QED BY <1>2, <2>1
<1> HIDE DEF q
<1>4. r \in Seq(V) /\ Len(r) = 4 /\ r[1] = a /\ r[2] = b /\ r[3] = c /\ r[4] = d
  <2>0. q \in Seq(V) /\ d \in V
    BY <1>0, <1>3
  <2>1. /\ r \in Seq(V) /\ Len(r) = Len(q) + 1 /\ r[Len(q) + 1] = d
        /\ \A k \in 1 .. Len(q) : r[k] = q[k]
    BY <2>0, OneMore
  <2> HIDE DEF r
  <2> QED BY <1>3, <2>1
<1> HIDE DEF r
<1>5. r = <<a, b, c, d>>
  BY <1>4
<1> QED BY <1>5 DEF r, q, p

LEMMA MouseInitOps ==
  /\ Done = 22
  /\ mouse_init =
       <<OpOf("wait", "in"), OpOf("command", 32), OpOf("wait", "out"), OpOf("read", "cmd"),
         OpOf("wait", "in"), OpOf("command", 96), OpOf("wait", "in"), OpOf("data", Empty),
         OpOf("command", 168),
         OpOf("wait", "in"), OpOf("command", 212), OpOf("wait", "in"), OpOf("data", 246),
         OpOf("wait", "out"), OpOf("read", "answer"),
         OpOf("wait", "in"), OpOf("command", 212), OpOf("wait", "in"), OpOf("data", 244),
         OpOf("wait", "out"), OpOf("read", "answer")>>
<1> DEFINE wi == OpOf("wait", "in")
           wo == OpOf("wait", "out")
           rc == OpOf("read", "cmd")
           ra == OpOf("read", "answer")
           cm(b) == OpOf("command", b)
           da(b) == OpOf("data", b)
           V == {wi, wo, rc, ra, cm(32), cm(96), cm(168), cm(212), da(Empty), da(246), da(244)}
<1>1. /\ MWait("in") = <<wi>> /\ MWait("out") = <<wo>> /\ InB("cmd") = <<rc>> /\ InB("answer") = <<ra>>
      /\ \A b : OutB("command", b) = <<cm(b)>> /\ OutB("data", b) = <<da(b)>>
  BY DEF MWait, InB, OutB, OpOf
<1>2. /\ wi \in V /\ wo \in V /\ rc \in V /\ ra \in V /\ cm(32) \in V /\ cm(96) \in V
      /\ cm(168) \in V /\ cm(212) \in V /\ da(Empty) \in V /\ da(246) \in V /\ da(244) \in V
  OBVIOUS
<1> HIDE DEF wi, wo, rc, ra, cm, da, V
<1>3. /\ aux_write(246) = <<wi, cm(212), wi, da(246)>> /\ aux_write(244) = <<wi, cm(212), wi, da(244)>>
  <2>1. \A b : aux_write(b) = <<wi>> \o <<cm(212)>> \o <<wi>> \o <<da(b)>>
    BY <1>1 DEF aux_write
  <2>2. \A x : <<wi>> \o <<cm(212)>> \o <<wi>> \o <<x>> = <<wi, cm(212), wi, x>>
    BY FourOps
  <2>3. aux_write(246) = <<wi>> \o <<cm(212)>> \o <<wi>> \o <<da(246)>>
    BY <2>1
  <2>4. aux_write(244) = <<wi>> \o <<cm(212)>> \o <<wi>> \o <<da(244)>>
    BY <2>1
  <2>5. /\ aux_write(246) = <<wi, cm(212), wi, da(246)>>
        /\ aux_write(244) = <<wi, cm(212), wi, da(244)>>
    BY <2>2, <2>3, <2>4
  <2> QED BY <2>5
<1>4. aux_read = <<wo>> \o <<ra>>
  BY <1>1 DEF aux_read
<1> DEFINE q4 == <<wi, cm(32), wo, rc>>
           q5 == q4 \o <<wi>>
           q6 == q5 \o <<cm(96)>>
           q7 == q6 \o <<wi>>
           q8 == q7 \o <<da(Empty)>>
           q9 == q8 \o <<cm(168)>>
           q13 == q9 \o <<wi, cm(212), wi, da(246)>>
           ar  == <<wo>> \o <<ra>>
           q15 == q13 \o ar
           q19 == q15 \o <<wi, cm(212), wi, da(244)>>
           q21 == q19 \o ar
<1>5. mouse_init = q21
  <2>1. q4 = <<wi>> \o <<cm(32)>> \o <<wo>> \o <<rc>>
    BY FourOps
  <2>2. mouse_init = <<wi>> \o <<cm(32)>> \o <<wo>> \o <<rc>> \o <<wi>> \o <<cm(96)>> \o <<wi>>
                       \o <<da(Empty)>> \o <<cm(168)>> \o aux_write(246) \o aux_read
                       \o aux_write(244) \o aux_read
    BY <1>1 DEF mouse_init
  <2> QED BY <1>3, <1>4, <2>1, <2>2
<1>6. q4 \in Seq(V) /\ Len(q4) = 4 /\ q4[1] = wi /\ q4[2] = cm(32) /\ q4[3] = wo /\ q4[4] = rc
  BY <1>2
<1> HIDE DEF q4
<1>7. q5 \in Seq(V) /\ Len(q5) = 5 /\ q5[5] = wi /\ \A k \in 1 .. 4 : q5[k] = q4[k]
  <2>0. q4 \in Seq(V) /\ wi \in V
    BY <1>2, <1>6
  <2>1. /\ q5 \in Seq(V) /\ Len(q5) = Len(q4) + 1 /\ q5[Len(q4) + 1] = wi
        /\ \A k \in 1 .. Len(q4) : q5[k] = q4[k]
    BY <2>0, OneMore
  <2> HIDE DEF q5
  <2> QED BY <1>6, <2>1
<1> HIDE DEF q5
<1>8. q6 \in Seq(V) /\ Len(q6) = 6 /\ q6[6] = cm(96) /\ \A k \in 1 .. 5 : q6[k] = q5[k]
  <2>0. q5 \in Seq(V) /\ cm(96) \in V
    BY <1>2, <1>7
  <2>1. /\ q6 \in Seq(V) /\ Len(q6) = Len(q5) + 1 /\ q6[Len(q5) + 1] = cm(96)
        /\ \A k \in 1 .. Len(q5) : q6[k] = q5[k]
    BY <2>0, OneMore
  <2> HIDE DEF q6
  <2> QED BY <1>7, <2>1
<1> HIDE DEF q6
<1>9. q7 \in Seq(V) /\ Len(q7) = 7 /\ q7[7] = wi /\ \A k \in 1 .. 6 : q7[k] = q6[k]
  <2>0. q6 \in Seq(V) /\ wi \in V
    BY <1>2, <1>8
  <2>1. /\ q7 \in Seq(V) /\ Len(q7) = Len(q6) + 1 /\ q7[Len(q6) + 1] = wi
        /\ \A k \in 1 .. Len(q6) : q7[k] = q6[k]
    BY <2>0, OneMore
  <2> HIDE DEF q7
  <2> QED BY <1>8, <2>1
<1> HIDE DEF q7
<1>10. q8 \in Seq(V) /\ Len(q8) = 8 /\ q8[8] = da(Empty) /\ \A k \in 1 .. 7 : q8[k] = q7[k]
  <2>0. q7 \in Seq(V) /\ da(Empty) \in V
    BY <1>2, <1>9
  <2>1. /\ q8 \in Seq(V) /\ Len(q8) = Len(q7) + 1 /\ q8[Len(q7) + 1] = da(Empty)
        /\ \A k \in 1 .. Len(q7) : q8[k] = q7[k]
    BY <2>0, OneMore
  <2> HIDE DEF q8
  <2> QED BY <1>9, <2>1
<1> HIDE DEF q8
<1>11. q9 \in Seq(V) /\ Len(q9) = 9 /\ q9[9] = cm(168) /\ \A k \in 1 .. 8 : q9[k] = q8[k]
  <2>0. q8 \in Seq(V) /\ cm(168) \in V
    BY <1>2, <1>10
  <2>1. /\ q9 \in Seq(V) /\ Len(q9) = Len(q8) + 1 /\ q9[Len(q8) + 1] = cm(168)
        /\ \A k \in 1 .. Len(q8) : q9[k] = q8[k]
    BY <2>0, OneMore
  <2> HIDE DEF q9
  <2> QED BY <1>10, <2>1
<1> HIDE DEF q9
<1>12. ASSUME NEW b, da(b) \in V
       PROVE  LET g == <<wi, cm(212), wi, da(b)>>
              IN  g \in Seq(V) /\ Len(g) = 4 /\ g[1] = wi /\ g[2] = cm(212) /\ g[3] = wi /\ g[4] = da(b)
  BY <1>2, <1>12
<1>13. ar \in Seq(V) /\ Len(ar) = 2 /\ ar[1] = wo /\ ar[2] = ra
  <2>1. <<wo>> \in Seq(V) /\ Len(<<wo>>) = 1 /\ <<wo>>[1] = wo
    BY <1>2
  <2> QED BY <1>2, <2>1, OneMore
<1> HIDE DEF ar
<1>14. /\ q13 \in Seq(V) /\ Len(q13) = 13 /\ \A k \in 1 .. 9 : q13[k] = q9[k]
       /\ q13[10] = wi /\ q13[11] = cm(212) /\ q13[12] = wi /\ q13[13] = da(246)
  <2> DEFINE g == <<wi, cm(212), wi, da(246)>>
  <2>1. g \in Seq(V) /\ Len(g) = 4 /\ g[1] = wi /\ g[2] = cm(212) /\ g[3] = wi /\ g[4] = da(246)
    BY <1>2, <1>12
  <2> HIDE DEF g
  <2>4. q9 \in Seq(V) /\ g \in Seq(V)
    BY <1>11, <2>1
  <2>2. /\ q9 \o g \in Seq(V) /\ Len(q9 \o g) = Len(q9) + Len(g)
        /\ \A k \in 1 .. Len(q9) : (q9 \o g)[k] = q9[k]
        /\ \A k \in 1 .. Len(g) : (q9 \o g)[Len(q9) + k] = g[k]
    BY <2>4, ConcatAt
  <2> DEFINE r == q9 \o g
  <2> HIDE DEF r
  <2>5. /\ r \in Seq(V) /\ Len(r) = Len(q9) + Len(g)
        /\ \A k \in 1 .. Len(q9) : r[k] = q9[k]
        /\ \A k \in 1 .. Len(g) : r[Len(q9) + k] = g[k]
    BY <2>2 DEF r
  <2>6. /\ r \in Seq(V) /\ Len(r) = 13 /\ \A k \in 1 .. 9 : r[k] = q9[k]
        /\ r[10] = g[1] /\ r[11] = g[2] /\ r[12] = g[3] /\ r[13] = g[4]
    BY <1>11, <2>1, <2>5
  <2> QED BY <1>11, <2>1, <2>6 DEF r, g
<1> HIDE DEF q13
<1>15. /\ q15 \in Seq(V) /\ Len(q15) = 15 /\ \A k \in 1 .. 13 : q15[k] = q13[k]
       /\ q15[14] = wo /\ q15[15] = ra
  <2>4. q13 \in Seq(V) /\ ar \in Seq(V)
    BY <1>13, <1>14
  <2>1. /\ q13 \o ar \in Seq(V) /\ Len(q13 \o ar) = Len(q13) + Len(ar)
        /\ \A k \in 1 .. Len(q13) : (q13 \o ar)[k] = q13[k]
        /\ \A k \in 1 .. Len(ar) : (q13 \o ar)[Len(q13) + k] = ar[k]
    BY <2>4, ConcatAt
  <2> DEFINE r == q13 \o ar
  <2> HIDE DEF r
  <2>5. /\ r \in Seq(V) /\ Len(r) = Len(q13) + Len(ar)
        /\ \A k \in 1 .. Len(q13) : r[k] = q13[k]
        /\ \A k \in 1 .. Len(ar) : r[Len(q13) + k] = ar[k]
    BY <2>1 DEF r
  <2>6. /\ r \in Seq(V) /\ Len(r) = 15 /\ \A k \in 1 .. 13 : r[k] = q13[k]
        /\ r[14] = ar[1] /\ r[15] = ar[2]
    BY <1>13, <1>14, <2>5
  <2> QED BY <1>13, <1>14, <2>6 DEF r
<1> HIDE DEF q15
<1>16. /\ q19 \in Seq(V) /\ Len(q19) = 19 /\ \A k \in 1 .. 15 : q19[k] = q15[k]
       /\ q19[16] = wi /\ q19[17] = cm(212) /\ q19[18] = wi /\ q19[19] = da(244)
  <2> DEFINE g == <<wi, cm(212), wi, da(244)>>
  <2>1. g \in Seq(V) /\ Len(g) = 4 /\ g[1] = wi /\ g[2] = cm(212) /\ g[3] = wi /\ g[4] = da(244)
    BY <1>2, <1>12
  <2> HIDE DEF g
  <2>4. q15 \in Seq(V) /\ g \in Seq(V)
    BY <1>15, <2>1
  <2>2. /\ q15 \o g \in Seq(V) /\ Len(q15 \o g) = Len(q15) + Len(g)
        /\ \A k \in 1 .. Len(q15) : (q15 \o g)[k] = q15[k]
        /\ \A k \in 1 .. Len(g) : (q15 \o g)[Len(q15) + k] = g[k]
    BY <2>4, ConcatAt
  <2> DEFINE r == q15 \o g
  <2> HIDE DEF r
  <2>5. /\ r \in Seq(V) /\ Len(r) = Len(q15) + Len(g)
        /\ \A k \in 1 .. Len(q15) : r[k] = q15[k]
        /\ \A k \in 1 .. Len(g) : r[Len(q15) + k] = g[k]
    BY <2>2 DEF r
  <2>6. /\ r \in Seq(V) /\ Len(r) = 19 /\ \A k \in 1 .. 15 : r[k] = q15[k]
        /\ r[16] = g[1] /\ r[17] = g[2] /\ r[18] = g[3] /\ r[19] = g[4]
    BY <1>15, <2>1, <2>5
  <2> QED BY <1>15, <2>1, <2>6 DEF r, g
<1> HIDE DEF q19
<1>17. /\ q21 \in Seq(V) /\ Len(q21) = 21 /\ \A k \in 1 .. 19 : q21[k] = q19[k]
       /\ q21[20] = wo /\ q21[21] = ra
  <2>4. q19 \in Seq(V) /\ ar \in Seq(V)
    BY <1>13, <1>16
  <2>1. /\ q19 \o ar \in Seq(V) /\ Len(q19 \o ar) = Len(q19) + Len(ar)
        /\ \A k \in 1 .. Len(q19) : (q19 \o ar)[k] = q19[k]
        /\ \A k \in 1 .. Len(ar) : (q19 \o ar)[Len(q19) + k] = ar[k]
    BY <2>4, ConcatAt
  <2> DEFINE r == q19 \o ar
  <2> HIDE DEF r
  <2>5. /\ r \in Seq(V) /\ Len(r) = Len(q19) + Len(ar)
        /\ \A k \in 1 .. Len(q19) : r[k] = q19[k]
        /\ \A k \in 1 .. Len(ar) : r[Len(q19) + k] = ar[k]
    BY <2>1 DEF r
  <2>6. /\ r \in Seq(V) /\ Len(r) = 21 /\ \A k \in 1 .. 19 : r[k] = q19[k]
        /\ r[20] = ar[1] /\ r[21] = ar[2]
    BY <1>13, <1>16, <2>5
  <2> QED BY <1>13, <1>16, <2>6 DEF r
<1> HIDE DEF q21
<1>18. /\ q21[1] = wi /\ q21[2] = cm(32) /\ q21[3] = wo /\ q21[4] = rc /\ q21[5] = wi
       /\ q21[6] = cm(96) /\ q21[7] = wi /\ q21[8] = da(Empty) /\ q21[9] = cm(168)
  BY <1>6, <1>7, <1>8, <1>9, <1>10, <1>11, <1>14, <1>15, <1>16, <1>17
<1>19. /\ q21[10] = wi /\ q21[11] = cm(212) /\ q21[12] = wi /\ q21[13] = da(246)
       /\ q21[14] = wo /\ q21[15] = ra
       /\ q21[16] = wi /\ q21[17] = cm(212) /\ q21[18] = wi /\ q21[19] = da(244)
  BY <1>14, <1>15, <1>16, <1>17
<1>20. q21 = <<wi, cm(32), wo, rc, wi, cm(96), wi, da(Empty), cm(168), wi, cm(212), wi, da(246),
               wo, ra, wi, cm(212), wi, da(244), wo, ra>>
  BY <1>17, <1>18, <1>19
<1> QED BY <1>5, <1>17, <1>20 DEF wi, wo, rc, ra, cm, da, Done

(* What is at each place of it.                                            *)
LEMMA OpIs ==
  ASSUME at \in 1 .. Done
  PROVE  /\ Done = 22 /\ at \in 1 .. 22
         /\ At("wait") => \/ at \in {1, 5, 7, 10, 12, 16, 18} /\ Op.arg = "in"
                          \/ at \in {3, 14, 20} /\ Op.arg = "out"
         /\ At("command") => \/ at = 2 /\ Op.op = "command" /\ Op.arg = 32
                             \/ at = 6 /\ Op.op = "command" /\ Op.arg = 96
                             \/ at = 9 /\ Op.op = "command" /\ Op.arg = 168
                             \/ at \in {11, 17} /\ Op.op = "command" /\ Op.arg = 212
         /\ At("data") => \/ at = 8 /\ Op.op = "data" /\ Op.arg = Empty
                          \/ at = 13 /\ Op.op = "data" /\ Op.arg = 246
                          \/ at = 19 /\ Op.op = "data" /\ Op.arg = 244
         /\ At("read") => \/ at = 4 /\ Op.arg = "cmd"
                          \/ at \in {15, 21} /\ Op.arg = "answer"
<1>1. Done = 22 /\ at \in 1 .. 22
  BY MouseInitOps
<1>2. at < Done => at \in 1 .. 21
  BY <1>1
<1>3. \A k \in 1 .. 21 : \/ k = 1 \/ k = 2 \/ k = 3 \/ k = 4 \/ k = 5 \/ k = 6 \/ k = 7 \/ k = 8
                         \/ k = 9 \/ k = 10 \/ k = 11 \/ k = 12 \/ k = 13 \/ k = 14 \/ k = 15
                         \/ k = 16 \/ k = 17 \/ k = 18 \/ k = 19 \/ k = 20 \/ k = 21
  OBVIOUS
<1>4. /\ at \in {1, 5, 7, 10, 12, 16, 18} => Op = OpOf("wait", "in")
      /\ at \in {3, 14, 20} => Op = OpOf("wait", "out")
      /\ at = 4 => Op = OpOf("read", "cmd")
      /\ at \in {15, 21} => Op = OpOf("read", "answer")
  BY MouseInitOps DEF Op
<1>5. /\ at = 2 => Op = OpOf("command", 32)
      /\ at = 6 => Op = OpOf("command", 96)
      /\ at = 9 => Op = OpOf("command", 168)
      /\ at \in {11, 17} => Op = OpOf("command", 212)
  BY MouseInitOps DEF Op
<1>6. /\ at = 8 => Op = OpOf("data", Empty)
      /\ at = 13 => Op = OpOf("data", 246)
      /\ at = 19 => Op = OpOf("data", 244)
  BY MouseInitOps DEF Op
<1>7. at \in 1 .. 21 => \/ at \in {1, 5, 7, 10, 12, 16, 18} \/ at \in {3, 14, 20} \/ at = 4
                        \/ at \in {15, 21} \/ at \in {2, 6, 9} \/ at \in {11, 17}
                        \/ at \in {8, 13, 19}
  BY <1>3
<1>8. At("wait") => at \in {1, 5, 7, 10, 12, 16, 18} \/ at \in {3, 14, 20}
  BY <1>2, <1>4, <1>5, <1>6, <1>7 DEF At, OpOf
<1>9. At("command") => at \in {2, 6, 9} \/ at \in {11, 17}
  BY <1>2, <1>4, <1>5, <1>6, <1>7 DEF At, OpOf
<1>10. At("data") => at \in {8, 13, 19}
  BY <1>2, <1>4, <1>5, <1>6, <1>7 DEF At, OpOf
<1>11. At("read") => at = 4 \/ at \in {15, 21}
  BY <1>2, <1>4, <1>5, <1>6, <1>7 DEF At, OpOf
<1>12. /\ at \in {1, 5, 7, 10, 12, 16, 18} => Op.arg = "in"
       /\ at \in {3, 14, 20} => Op.arg = "out"
       /\ at = 4 => Op.arg = "cmd"
       /\ at \in {15, 21} => Op.arg = "answer"
  BY <1>4 DEF OpOf
<1>13. /\ at = 2 => Op.op = "command" /\ Op.arg = 32
       /\ at = 6 => Op.op = "command" /\ Op.arg = 96
       /\ at = 9 => Op.op = "command" /\ Op.arg = 168
       /\ at \in {11, 17} => Op.op = "command" /\ Op.arg = 212
  BY <1>5 DEF OpOf
<1>14. /\ at = 8 => Op.op = "data" /\ Op.arg = Empty
       /\ at = 13 => Op.op = "data" /\ Op.arg = 246
       /\ at = 19 => Op.op = "data" /\ Op.arg = 244
  BY <1>6 DEF OpOf
<1>15. At("wait") => \/ at \in {1, 5, 7, 10, 12, 16, 18} /\ Op.arg = "in"
                     \/ at \in {3, 14, 20} /\ Op.arg = "out"
  BY <1>8, <1>12
<1>16. At("command") => \/ at = 2 /\ Op.op = "command" /\ Op.arg = 32
                        \/ at = 6 /\ Op.op = "command" /\ Op.arg = 96
                        \/ at = 9 /\ Op.op = "command" /\ Op.arg = 168
                        \/ at \in {11, 17} /\ Op.op = "command" /\ Op.arg = 212
  BY <1>9, <1>13
<1>17. At("data") => \/ at = 8 /\ Op.op = "data" /\ Op.arg = Empty
                     \/ at = 13 /\ Op.op = "data" /\ Op.arg = 246
                     \/ at = 19 /\ Op.op = "data" /\ Op.arg = 244
  BY <1>10, <1>14
<1>18. At("read") => \/ at = 4 /\ Op.arg = "cmd"
                     \/ at \in {15, 21} /\ Op.arg = "answer"
  BY <1>11, <1>12
<1> QED BY <1>1, <1>15, <1>16, <1>17, <1>18

(* The bits of a command byte.                                             *)
Codes == 0 .. 255

LEMMA Or3Bits ==
  ASSUME NEW v \in Codes
  PROVE  /\ Or3(v) \in Codes /\ Irq12On(Or3(v))
         /\ AuxOn(Or3(v)) <=> AuxOn(v)
         /\ KeyboardOn(Or3(v)) <=> KeyboardOn(v)
         /\ Translates(Or3(v)) <=> Translates(v)
<1>1. Or3(v) \in Codes
  BY DEF Codes, Or3
<1>2. Or3(v) \div 4 = v \div 4 /\ Or3(v) \div 2 = (v \div 4) * 2 + 1
  BY DEF Codes, Or3
<1>3. Irq12On(Or3(v))
  BY <1>1, <1>2 DEF Codes, Irq12On, Bit
<1>4. Or3(v) \div 16 = v \div 16
  BY DEF Codes, Or3
<1>5. Or3(v) \div 32 = v \div 32
  BY DEF Codes, Or3
<1>6. Or3(v) \div 64 = v \div 64
  BY DEF Codes, Or3
<1> QED BY <1>1, <1>3, <1>4, <1>5, <1>6 DEF AuxOn, KeyboardOn, Translates, Bit

LEMMA AuxBit ==
  ASSUME NEW v \in Codes, ~AuxOn(v)
  PROVE  /\ v - 32 \in Codes /\ AuxOn(v - 32)
         /\ Irq12On(v - 32) <=> Irq12On(v)
         /\ KeyboardOn(v - 32) <=> KeyboardOn(v)
         /\ Translates(v - 32) <=> Translates(v)
<1>1. (v \div 32) % 2 = 1
  BY DEF AuxOn, Bit
<1>2. v >= 32 /\ v - 32 \in Codes
  BY <1>1 DEF Codes
<1>3. /\ (v - 32) \div 32 = v \div 32 - 1 /\ (v - 32) \div 16 = v \div 16 - 2
      /\ (v - 32) \div 2 = v \div 2 - 16
  BY <1>2 DEF Codes
<1>4. (v - 32) \div 64 = v \div 64
  BY <1>1, <1>2 DEF Codes
<1>5. AuxOn(v - 32)
  BY <1>1, <1>3 DEF Codes, AuxOn, Bit
<1>6. Irq12On(v - 32) <=> Irq12On(v)
  BY <1>3 DEF Codes, Irq12On, Bit
<1>7. KeyboardOn(v - 32) <=> KeyboardOn(v)
  BY <1>3 DEF Codes, KeyboardOn, Bit
<1> QED BY <1>2, <1>4, <1>5, <1>6, <1>7 DEF Translates, Bit

-----------------------------------------------------------------------------
Ins == {<< >>} \cup ({"command", "data"} \X Codes)
Outs == {Empty} \cup Codes

Controllers == [in : Ins, out : Outs, aux : BOOLEAN, expect : {"none", "mode", "aux"}, mode : Codes]
Mice        == [answer : MouseAnswers, queue : Seq(Codes), streaming : BOOLEAN]

StartTypeOK ==
  /\ at \in 1 .. Done /\ cmd \in Codes
  /\ ctl \in Controllers /\ mouse \in Mice
  /\ irr \in {0, 12, 15} /\ have_mouse \in BOOLEAN /\ keyed \in BOOLEAN /\ overrun \in BOOLEAN
  /\ at = 4 => ctl.out # Empty

(* What is in the input register, and what the next data byte is for.      *)
Has(i, e) == ctl.in = i /\ ctl.expect = e

(* The output register holds a key at most.                                *)
NoAnswer == ctl.out # ACK /\ (~keyed => ctl.out = Empty)
MouseIdle     == mouse.queue = << >> /\ ~mouse.streaming

(* A command byte as mouse_init makes it.                                  *)
Fit(m) == Irq12On(m) /\ (~keyed => KeyboardOn(m) /\ Translates(m))

(* The answer of the mouse is on its way, or has arrived, or never comes.  *)
Answering ==
  \/ mouse.answer # Silent /\ mouse.queue = <<mouse.answer>> /\ NoAnswer
  \/ mouse.answer # Silent /\ mouse.queue = << >> /\ ctl.out = mouse.answer
  \/ mouse.answer = Silent /\ mouse.queue = << >> /\ NoAnswer

AskMode == at \in 1 .. 6 =>
  /\ ctl.expect = "none" /\ ctl.mode \in Modes /\ ctl.out # ACK /\ MouseIdle
  /\ at \in {1, 2} => ctl.in = << >> /\ NoAnswer
  /\ at \in {3, 4} =>
       \/ ctl.in = <<"command", 32>> /\ (ctl.out = Empty \/ keyed)
       \/ ctl.in = << >> /\ ctl.out # Empty /\ (~keyed => ctl.out = ctl.mode)
  /\ at \in {5, 6} =>
       /\ Fit(cmd) /\ NoAnswer
       /\ ctl.in = << >> \/ (ctl.in = <<"command", 32>> /\ keyed /\ at = 5)

SetMode == at \in 7 .. 9 =>
  /\ MouseIdle /\ NoAnswer /\ Fit(cmd)
  /\ at = 7 => Has(<<"command", 96>>, "none") \/ Has(<< >>, "mode")
  /\ at = 8 => Has(<< >>, "mode")
  /\ at = 9 => Has(<<"data", cmd>>, "mode") \/ (Has(<< >>, "none") /\ ctl.mode = cmd)

Tell == at \in 10 .. 13 \cup 16 .. 19 =>
  /\ MouseIdle /\ NoAnswer /\ Fit(ctl.mode)
  /\ at = 10 => Has(<<"command", 168>>, "none") \/ (Has(<< >>, "none") /\ AuxOn(ctl.mode))
  /\ at # 10 => AuxOn(ctl.mode)
  /\ at \in {11, 16, 17} => Has(<< >>, "none")
  /\ at \in {12, 18} => Has(<<"command", 212>>, "none") \/ Has(<< >>, "aux")
  /\ at \in {13, 19} => Has(<< >>, "aux")
  /\ at >= 16 => mouse.answer = ACK

Hear == at \in {14, 15, 20, 21} =>
  /\ Fit(ctl.mode) /\ AuxOn(ctl.mode)
  /\ at \in {15, 21} => ctl.out # Empty
  /\ at \in {20, 21} => mouse.answer = ACK
  /\ at \in {14, 15} => ~mouse.streaming
  /\ \/ Has(<<"data", IF at \in {14, 15} THEN 246 ELSE 244>>, "aux") /\ MouseIdle /\ NoAnswer
     \/ Has(<< >>, "none") /\ Answering

LeftBehind == at = Done =>
  /\ have_mouse => Has(<< >>, "none") /\ Fit(ctl.mode) /\ AuxOn(ctl.mode)
                   /\ ctl.out # ACK /\ mouse.queue = << >>
  /\ ~keyed => Has(<< >>, "none") /\ (have_mouse <=> mouse.answer = ACK) /\ KeyboardOn(ctl.mode) /\ Translates(ctl.mode)

Dialogue == AskMode /\ SetMode /\ Tell /\ Hear /\ LeftBehind

StartInv == StartTypeOK /\ (~overrun => Dialogue)


(* The registers of the controller one by one, and what the mouse keeps.   *)
LEMMA OfController ==
  ASSUME NEW c \in Controllers
  PROVE  /\ c.in \in Ins /\ c.out \in Outs /\ c.aux \in BOOLEAN
         /\ c.expect \in {"none", "mode", "aux"} /\ c.mode \in Codes
BY Zenon DEF Controllers

LEMMA OfMouse ==
  ASSUME NEW u \in Mice
  PROVE  u.answer \in MouseAnswers /\ u.queue \in Seq(Codes) /\ u.streaming \in BOOLEAN
BY Zenon DEF Mice

LEMMA SetIn ==
  ASSUME NEW c \in Controllers, NEW i \in Ins, NEW d, d = [c EXCEPT !.in = i]
  PROVE  /\ d \in Controllers /\ d.in = i
         /\ d.out = c.out /\ d.aux = c.aux /\ d.expect = c.expect /\ d.mode = c.mode
BY DEF Controllers

LEMMA SetExpect ==
  ASSUME NEW c \in Controllers, NEW e \in {"none", "mode", "aux"}, NEW d, d = [c EXCEPT !.expect = e]
  PROVE  /\ d \in Controllers /\ d.expect = e
         /\ d.in = c.in /\ d.out = c.out /\ d.aux = c.aux /\ d.mode = c.mode
BY DEF Controllers

LEMMA SetOut ==
  ASSUME NEW c \in Controllers, NEW o \in Outs, NEW d, d = [c EXCEPT !.out = o]
  PROVE  /\ d \in Controllers /\ d.out = o
         /\ d.in = c.in /\ d.aux = c.aux /\ d.expect = c.expect /\ d.mode = c.mode
BY DEF Controllers

LEMMA SetAux ==
  ASSUME NEW c \in Controllers, NEW a \in BOOLEAN, NEW d, d = [c EXCEPT !.aux = a]
  PROVE  /\ d \in Controllers /\ d.aux = a
         /\ d.in = c.in /\ d.out = c.out /\ d.expect = c.expect /\ d.mode = c.mode
BY DEF Controllers

LEMMA SetByte ==
  ASSUME NEW c \in Controllers, NEW m \in Codes, NEW d, d = [c EXCEPT !.mode = m]
  PROVE  /\ d \in Controllers /\ d.mode = m
         /\ d.in = c.in /\ d.out = c.out /\ d.aux = c.aux /\ d.expect = c.expect
BY DEF Controllers

LEMMA SetQueue ==
  ASSUME NEW u \in Mice, NEW q \in Seq(Codes), NEW v, v = [u EXCEPT !.queue = q]
  PROVE  v \in Mice /\ v.queue = q /\ v.answer = u.answer /\ v.streaming = u.streaming
BY DEF Mice

LEMMA SetStreaming ==
  ASSUME NEW u \in Mice, NEW s \in BOOLEAN, NEW v, v = [u EXCEPT !.streaming = s]
  PROVE  v \in Mice /\ v.streaming = s /\ v.answer = u.answer /\ v.queue = u.queue
BY DEF Mice

LEMMA StartInvInit == Init => StartInv
<1> SUFFICES ASSUME Init PROVE StartInv
  OBVIOUS
<1>1. PICK m \in Modes : ctl = [in |-> << >>, out |-> Empty, aux |-> FALSE, expect |-> "none", mode |-> m]
  BY DEF Init, StartInit
<1>2. PICK a \in MouseAnswers : mouse = [answer |-> a, queue |-> << >>, streaming |-> FALSE]
  BY DEF Init, StartInit
<1>3. /\ at = 1 /\ cmd = 0 /\ irr = 0 /\ have_mouse = FALSE /\ keyed = FALSE /\ overrun = FALSE
  BY DEF Init, StartInit
<1>4. m \in Codes /\ Done = 22 /\ << >> \in Seq(Codes) /\ << >> \in Ins /\ Empty \in Outs
  BY StartupAssumption, MouseInitOps DEF Codes, Ins, Outs
<1>5. ctl \in Controllers /\ mouse \in Mice
  BY <1>1, <1>2, <1>4 DEF Controllers, Mice
<1>6. at \in 1 .. Done /\ cmd \in Codes /\ at # 4
  BY <1>3, <1>4 DEF Codes
<1>7. irr \in {0, 12, 15} /\ have_mouse \in BOOLEAN /\ keyed \in BOOLEAN /\ overrun \in BOOLEAN
  BY <1>3
<1>8. StartTypeOK
  BY <1>5, <1>6, <1>7 DEF StartTypeOK
<1>9. ctl.in = << >> /\ ctl.out = Empty /\ ctl.expect = "none" /\ ctl.mode = m
  BY <1>1
<1>10. mouse.queue = << >> /\ ~mouse.streaming
  BY <1>2
<1>11. Dialogue
  BY <1>3, <1>4, <1>9, <1>10
     DEF Dialogue, AskMode, SetMode, Tell, Hear, LeftBehind, NoAnswer, ACK, Empty, MouseIdle
<1> QED BY <1>8, <1>11 DEF StartInv

(* Steps that leave mouse_init and the devices alone.                      *)
LEMMA StartInvSame ==
  ASSUME StartInv, UNCHANGED startVars
  PROVE  StartInv'
<1>1. StartTypeOK'
  BY DEF StartInv, StartTypeOK, startVars, Done
<1>2. (~overrun => Dialogue)'
  BY DEF StartInv, Dialogue, AskMode, SetMode, Tell, Hear, LeftBehind, NoAnswer, Answering, MouseIdle,
         Fit, Has, startVars
<1> QED BY <1>1, <1>2 DEF StartInv

LEMMA StartWait == StartInv /\ WaitOver => StartInv'
<1> SUFFICES ASSUME StartInv, WaitOver PROVE StartInv'
  OBVIOUS
<1>1. /\ at' = at + 1 /\ UNCHANGED <<cmd, ctl, mouse, irr, have_mouse, keyed, overrun>>
      /\ at \in 1 .. 21
      /\ \/ at \in {1, 5, 7, 10, 12, 16, 18} /\ ctl.in = << >>
         \/ at \in {3, 14, 20} /\ ctl.out # Empty
  <2>1. at \in 1 .. Done /\ at < Done
    BY DEF StartInv, StartTypeOK, WaitOver, At
  <2>2. at' = at + 1 /\ UNCHANGED <<cmd, ctl, mouse, irr, have_mouse, keyed, overrun>>
    BY DEF WaitOver
  <2>3. \/ at \in {1, 5, 7, 10, 12, 16, 18} /\ Op.arg = "in"
        \/ at \in {3, 14, 20} /\ Op.arg = "out"
    BY <2>1, OpIs DEF WaitOver
  <2>4. Ready(Op.arg)
    BY DEF WaitOver
  <2>5. \/ at \in {1, 5, 7, 10, 12, 16, 18} /\ Ready("in")
        \/ at \in {3, 14, 20} /\ Ready("out")
    BY <2>3, <2>4
  <2>6. \/ at \in {1, 5, 7, 10, 12, 16, 18} /\ ctl.in = << >>
        \/ at \in {3, 14, 20} /\ ctl.out # Empty
    BY <2>5 DEF Ready
  <2>7. Done = 22
    BY MouseInitOps
  <2> QED BY <2>1, <2>2, <2>6, <2>7
<1>2. StartTypeOK'
  <2>1. Done = 22
    BY MouseInitOps
  <2> QED BY <1>1, <2>1 DEF StartInv, StartTypeOK
<1>3. ASSUME ~overrun' PROVE Dialogue'
  <2>1. Dialogue
    BY <1>1, <1>3 DEF StartInv
  <2>2. CASE at \in {1, 5, 7, 10, 12, 16, 18} /\ ctl.in = << >>
    BY <1>1, <2>1, <2>2, MouseInitOps
       DEF Dialogue, AskMode, SetMode, Tell, Hear, LeftBehind, NoAnswer, Answering, MouseIdle, Fit, Has
  <2>3. CASE at \in {3, 14, 20} /\ ctl.out # Empty
    BY <1>1, <2>1, <2>3, MouseInitOps
       DEF Dialogue, AskMode, SetMode, Tell, Hear, LeftBehind, NoAnswer, Answering, MouseIdle, Fit, Has
  <2> QED BY <1>1, <2>2, <2>3
<1> QED BY <1>2, <1>3 DEF StartInv

(* mouse_init gives up only when nothing is left to come.                  *)
LEMMA StartTimeOut == StartInv /\ TimeOut => StartInv'
<1> SUFFICES ASSUME StartInv, TimeOut PROVE StartInv'
  OBVIOUS
<1>1. /\ at' = Done /\ cmd' = 0 /\ have_mouse' = FALSE
      /\ UNCHANGED <<ctl, mouse, irr, keyed, overrun>>
      /\ at \in {3, 14, 20} /\ NothingComes
  <2>1. at \in 1 .. Done /\ at < Done
    BY DEF StartInv, StartTypeOK, TimeOut, At
  <2>2. at \in {3, 14, 20}
    BY <2>1, OpIs DEF TimeOut
  <2> QED BY <2>2 DEF TimeOut, ReturnWith
<1>2. Done = 22
  BY MouseInitOps
<1>3. StartTypeOK'
  <2>1. at' \in 1 .. Done /\ at' # 4
    BY <1>1, <1>2
  <2>2. cmd' \in Codes
    BY <1>1 DEF Codes
  <2> QED BY <1>1, <2>1, <2>2 DEF StartInv, StartTypeOK
<1>4. ASSUME ~overrun' PROVE Dialogue'
  <2>1. Dialogue
    BY <1>1, <1>4 DEF StartInv
  <2>2. mouse.answer \in MouseAnswers
    BY OfMouse DEF StartInv, StartTypeOK
  <2>3. at \in {14, 20}
    BY <1>1, <2>1 DEF Dialogue, AskMode, NothingComes
  <2>4. ctl.in = << >> /\ ctl.out = Empty /\ mouse.queue = << >>
    BY <1>1 DEF NothingComes
  <2>5. Fit(ctl.mode) /\ Has(<< >>, "none") /\ Answering
    BY <2>1, <2>3, <2>4 DEF Dialogue, Hear, Has
  <2>6. mouse.answer # Empty /\ << >> # <<mouse.answer>>
    BY <2>2, StartupAssumption DEF ACK, Resend, Silent, Empty
  <2>7. mouse.answer = Silent
    BY <2>4, <2>5, <2>6 DEF Answering
  <2> QED BY <1>1, <1>2, <2>5, <2>7
          DEF Dialogue, AskMode, SetMode, Tell, Hear, LeftBehind, Has, Fit, ACK, Silent
<1> QED BY <1>3, <1>4 DEF StartInv

LEMMA StartWrite == StartInv /\ Write => StartInv'
<1> SUFFICES ASSUME StartInv, Write PROVE StartInv'
  OBVIOUS
<1> DEFINE i == <<Op.op, IF Op.arg = Empty THEN cmd ELSE Op.arg>>
<1>1. /\ at' = at + 1 /\ UNCHANGED <<cmd, mouse, irr, have_mouse, keyed>>
      /\ overrun' = (overrun \/ ctl.in # << >>) /\ ctl' = [ctl EXCEPT !.in = i]
  BY DEF Write
<1>2. /\ at \in {2, 6, 8, 9, 11, 13, 17, 19} /\ i \in Ins
      /\ at = 2 => i = <<"command", 32>>
      /\ at = 6 => i = <<"command", 96>>
      /\ at = 8 => i = <<"data", cmd>>
      /\ at = 9 => i = <<"command", 168>>
      /\ at \in {11, 17} => i = <<"command", 212>>
      /\ at = 13 => i = <<"data", 246>>
      /\ at = 19 => i = <<"data", 244>>
  <2>1. at \in 1 .. Done /\ cmd \in Codes
    BY DEF StartInv, StartTypeOK
  <2>2. CASE At("command")
    <3>1. \/ at = 2 /\ i = <<"command", 32>>
          \/ at = 6 /\ i = <<"command", 96>>
          \/ at = 9 /\ i = <<"command", 168>>
          \/ at \in {11, 17} /\ i = <<"command", 212>>
      BY <2>1, <2>2, OpIs DEF Empty
    <3> HIDE DEF i
    <3>2. \A b \in Codes : <<"command", b>> \in Ins
      BY DEF Ins
    <3>3. 32 \in Codes /\ 96 \in Codes /\ 168 \in Codes /\ 212 \in Codes
      BY DEF Codes
    <3>4. i \in Ins
      BY <3>1, <3>2, <3>3
    <3> QED BY <3>1, <3>4
  <2>3. CASE At("data")
    <3>1. \/ at = 8 /\ i = <<"data", cmd>>
          \/ at = 13 /\ i = <<"data", 246>>
          \/ at = 19 /\ i = <<"data", 244>>
      BY <2>1, <2>3, OpIs DEF Empty
    <3> HIDE DEF i
    <3>2. \A b \in Codes : <<"data", b>> \in Ins
      BY DEF Ins
    <3>3. 246 \in Codes /\ 244 \in Codes
      BY DEF Codes
    <3>4. i \in Ins
      BY <2>1, <3>1, <3>2, <3>3
    <3> QED BY <3>1, <3>4
  <2> QED BY <2>2, <2>3 DEF Write
<1> HIDE DEF i
<1>3. /\ ctl'.in = i /\ ctl'.out = ctl.out /\ ctl'.expect = ctl.expect /\ ctl'.mode = ctl.mode
      /\ ctl' \in Controllers
  <2>1. ctl \in Controllers
    BY DEF StartInv, StartTypeOK
  <2> QED BY <1>1, <1>2, <2>1, SetIn
<1>4. StartTypeOK'
  BY <1>1, <1>2, <1>3, MouseInitOps DEF StartInv, StartTypeOK
<1>5. ASSUME ~overrun' PROVE Dialogue'
  <2>1. Dialogue /\ ctl.in = << >>
    BY <1>1, <1>5 DEF StartInv
  <2>2. CASE at \in {2, 6, 8}
    BY <1>1, <1>2, <1>3, <2>1, <2>2, MouseInitOps
       DEF Dialogue, AskMode, SetMode, Tell, Hear, LeftBehind, NoAnswer, Answering, MouseIdle, Fit, Has
  <2>3. CASE at = 9
    <3>1. /\ MouseIdle /\ NoAnswer /\ Fit(cmd) /\ ctl.expect = "none" /\ ctl.mode = cmd
      BY <2>1, <2>3 DEF Dialogue, SetMode, Has
    <3> QED BY <1>1, <1>2, <1>3, <2>3, <3>1, MouseInitOps
       DEF Dialogue, AskMode, SetMode, Tell, Hear, LeftBehind, NoAnswer, Answering, MouseIdle, Fit, Has
  <2>4. CASE at \in {11, 17}
    BY <1>1, <1>2, <1>3, <2>1, <2>4, MouseInitOps
       DEF Dialogue, AskMode, SetMode, Tell, Hear, LeftBehind, NoAnswer, Answering, MouseIdle, Fit, Has
  <2>5. CASE at \in {13, 19}
    BY <1>1, <1>2, <1>3, <2>1, <2>5, MouseInitOps
       DEF Dialogue, AskMode, SetMode, Tell, Hear, LeftBehind, NoAnswer, Answering, MouseIdle, Fit, Has
  <2> QED BY <1>2, <2>2, <2>3, <2>4, <2>5
<1> QED BY <1>4, <1>5 DEF StartInv

(* The byte read as the command byte is that one, or a key.                *)
LEMMA StartReadMode == StartInv /\ ReadMode => StartInv'
<1> SUFFICES ASSUME StartInv, ReadMode PROVE StartInv'
  OBVIOUS
<1>1. /\ cmd' = Or3(ctl.out) /\ ctl' = [ctl EXCEPT !.out = Empty] /\ at' = at + 1
      /\ UNCHANGED <<mouse, irr, have_mouse, keyed, overrun>>
  BY DEF ReadMode
<1>2. at = 4 /\ ctl.out # Empty /\ ctl \in Controllers /\ mouse \in Mice
  <2>1. at \in 1 .. Done /\ (at = 4 => ctl.out # Empty) /\ ctl \in Controllers /\ mouse \in Mice
    BY DEF StartInv, StartTypeOK
  <2>2. at = 4
    BY <2>1, OpIs DEF ReadMode
  <2> QED BY <2>1, <2>2
<1>3. ctl.out \in Codes
  BY <1>2, OfController DEF Outs
<1>4. /\ ctl' \in Controllers /\ ctl'.out = Empty
      /\ ctl'.in = ctl.in /\ ctl'.expect = ctl.expect /\ ctl'.mode = ctl.mode
  BY <1>1, <1>2, SetOut DEF Outs
<1>5. /\ cmd' \in Codes /\ Irq12On(cmd')
      /\ (KeyboardOn(cmd') <=> KeyboardOn(ctl.out)) /\ (Translates(cmd') <=> Translates(ctl.out))
  BY <1>1, <1>3, Or3Bits
<1>6. StartTypeOK'
  <2>1. at' = 5 /\ at' \in 1 .. Done
    BY <1>1, <1>2, MouseInitOps
  <2> QED BY <1>1, <1>2, <1>4, <1>5, <2>1 DEF StartInv, StartTypeOK
<1>7. ASSUME ~overrun' PROVE Dialogue'
  <2>1. AskMode
    BY <1>1, <1>7 DEF StartInv, Dialogue
  <2>2. /\ ctl.expect = "none" /\ ctl.mode \in Modes /\ MouseIdle
        /\ \/ ctl.in = <<"command", 32>> /\ keyed
           \/ ctl.in = << >> /\ (~keyed => ctl.out = ctl.mode)
    BY <1>2, <2>1 DEF AskMode
  <2>3. Fit(cmd)'
    BY <1>1, <1>5, <2>2, StartupAssumption DEF Fit
  <2> QED BY <1>1, <1>2, <1>4, <2>2, <2>3, MouseInitOps
          DEF Dialogue, AskMode, SetMode, Tell, Hear, LeftBehind, NoAnswer, MouseIdle, ACK, Empty, Fit
<1> QED BY <1>6, <1>7 DEF StartInv

(* An answer is from the mouse unless a key was pressed.                   *)
LEMMA StartReadAnswer == StartInv /\ ReadAnswer => StartInv'
<1> SUFFICES ASSUME StartInv, ReadAnswer PROVE StartInv'
  OBVIOUS
<1>1. /\ ctl' = [ctl EXCEPT !.out = Empty] /\ UNCHANGED <<mouse, irr, keyed, overrun>>
      /\ \/ ctl.out = ACK /\ at + 1 # Done /\ at' = at + 1 /\ UNCHANGED <<cmd, have_mouse>>
         \/ ctl.out = ACK /\ at + 1 = Done /\ at' = Done /\ cmd' = 0 /\ have_mouse' = TRUE
         \/ ctl.out # ACK /\ at' = Done /\ cmd' = 0 /\ have_mouse' = FALSE
  BY DEF ReadAnswer, NextOp, ReturnWith
<1>2. at \in {15, 21} /\ ctl \in Controllers /\ mouse \in Mice
  <2>1. at \in 1 .. Done /\ ctl \in Controllers /\ mouse \in Mice
    BY DEF StartInv, StartTypeOK
  <2>2. at \in {15, 21}
    BY <2>1, OpIs DEF ReadAnswer
  <2> QED BY <2>1, <2>2
<1>3. /\ ctl' \in Controllers /\ ctl'.out = Empty
      /\ ctl'.in = ctl.in /\ ctl'.expect = ctl.expect /\ ctl'.mode = ctl.mode
  BY <1>1, <1>2, SetOut DEF Outs
<1>4. Done = 22 /\ 0 \in Codes
  BY MouseInitOps DEF Codes
<1>5. StartTypeOK'
  <2>1. at' \in 1 .. Done /\ at' # 4
    BY <1>1, <1>2, <1>4
  <2>2. cmd' \in Codes /\ have_mouse' \in BOOLEAN
    BY <1>1, <1>4 DEF StartInv, StartTypeOK
  <2> QED BY <1>1, <1>2, <1>3, <2>1, <2>2 DEF StartInv, StartTypeOK
<1>6. ASSUME ~overrun' PROVE Dialogue'
  <2>1. Hear
    BY <1>1, <1>6 DEF StartInv, Dialogue
  <2>2. /\ Fit(ctl.mode) /\ AuxOn(ctl.mode) /\ ctl.out # Empty
        /\ at = 21 => mouse.answer = ACK
        /\ at = 15 => ~mouse.streaming
        /\ \/ MouseIdle /\ NoAnswer
           \/ Has(<< >>, "none") /\ Answering
    BY <1>2, <2>1 DEF Hear
  <2>3. CASE ctl.out = ACK
    <3>1. mouse.answer = ACK /\ Has(<< >>, "none") /\ mouse.queue = << >>
      BY <2>2, <2>3 DEF NoAnswer, Answering
    <3>2. CASE at = 15
      BY <1>1, <1>3, <1>4, <2>2, <2>3, <3>1, <3>2
         DEF Dialogue, AskMode, SetMode, Tell, Hear, LeftBehind, NoAnswer, MouseIdle, ACK, Empty, Fit, Has
    <3>3. CASE at = 21
      BY <1>1, <1>3, <1>4, <2>2, <2>3, <3>1, <3>3
         DEF Dialogue, AskMode, SetMode, Tell, Hear, LeftBehind, ACK, Empty, Fit, Has
    <3> QED BY <1>2, <3>2, <3>3
  <2>4. CASE ctl.out # ACK
    <3>1. ~keyed => mouse.answer # ACK /\ Has(<< >>, "none")
      BY <2>2, <2>4 DEF NoAnswer, Answering
    <3> QED BY <1>1, <1>3, <1>4, <2>2, <2>4, <3>1
            DEF Dialogue, AskMode, SetMode, Tell, Hear, LeftBehind, Fit, Has
  <2> QED BY <2>3, <2>4
<1> QED BY <1>5, <1>6 DEF StartInv

(* The controller takes a byte: what it does with each one.                *)
Took(port, e) == ctl.in[1] = port /\ ctl'.expect = e /\ ctl'.in = << >>

LEMMA TakeInputIs ==
  ASSUME StartTypeOK, TakeInput
  PROVE  /\ ctl.in # << >> /\ ctl' \in Controllers /\ mouse' \in Mice
         /\ UNCHANGED <<at, cmd, irr, have_mouse, keyed, overrun>>
         /\ \/ /\ Took("command", "none") /\ ctl.in = <<"command", 32>>
               /\ ctl.out = Empty /\ ctl'.out = ctl.mode /\ ctl'.mode = ctl.mode /\ mouse' = mouse
            \/ /\ ctl'.out = ctl.out /\ ctl'.mode = ctl.mode /\ mouse' = mouse
               /\ \/ Took("command", "mode") /\ ctl.in = <<"command", 96>>
                  \/ Took("command", "aux") /\ ctl.in = <<"command", 212>>
                  \/ Took("data", "none") /\ ctl.expect = "none"
            \/ /\ Took("command", "none") /\ ctl.in = <<"command", 168>>
               /\ ctl'.mode = (IF AuxOn(ctl.mode) THEN ctl.mode ELSE ctl.mode - 32)
               /\ ctl'.out = ctl.out /\ mouse' = mouse
            \/ /\ Took("data", "none") /\ ctl.expect = "mode"
               /\ ctl'.mode = ctl.in[2] /\ ctl'.out = ctl.out /\ mouse' = mouse
            \/ /\ Took("data", "none") /\ ctl.expect = "aux"
               /\ ctl'.mode = ctl.mode /\ ctl'.out = ctl.out
               /\ \/ mouse.answer = Silent /\ mouse' = mouse
                  \/ /\ mouse.answer # Silent /\ mouse'.answer = mouse.answer
                     /\ mouse'.queue = Append(mouse.queue, mouse.answer)
                     /\ mouse'.streaming = (ctl.in[2] = 244 /\ mouse.answer = ACK)
<1> DEFINE b == ctl.in[2]
           taken(e) == [ctl EXCEPT !.in = << >>, !.expect = e]
<1>1. /\ ctl \in Controllers /\ mouse \in Mice /\ ctl.in # << >>
      /\ UNCHANGED <<at, cmd, irr, have_mouse, keyed, overrun>>
  BY DEF TakeInput, StartTypeOK
<1>2. ctl.in \in {"command", "data"} \X Codes /\ ctl.out \in Outs /\ ctl.mode \in Codes
  BY <1>1, OfController DEF Ins
<1>3. /\ b \in Codes /\ ctl.in = <<ctl.in[1], b>> /\ ctl.mode \in Outs /\ << >> \in Ins
  BY <1>2 DEF Ins, Outs
<1>4. \A e \in {"none", "mode", "aux"} :
        /\ taken(e) \in Controllers /\ taken(e).in = << >> /\ taken(e).expect = e
        /\ taken(e).out = ctl.out /\ taken(e).mode = ctl.mode
  <2> TAKE e \in {"none", "mode", "aux"}
  <2> DEFINE d == taken(e)
  <2> DEFINE c == [ctl EXCEPT !.in = << >>]
  <2>1. d = [c EXCEPT !.expect = e]
    BY Zenon
  <2> HIDE DEF d, taken
  <2>2. c \in Controllers /\ c.in = << >> /\ c.out = ctl.out /\ c.mode = ctl.mode
    BY <1>1, <1>3, SetIn
  <2> HIDE DEF c
  <2>3. /\ d \in Controllers /\ d.in = c.in /\ d.expect = e /\ d.out = c.out /\ d.mode = c.mode
    BY <2>1, <2>2, SetExpect
  <2> QED BY <2>2, <2>3 DEF d
<1>5. \/ /\ ctl.in[1] = "command" /\ b = 32 /\ ctl.out = Empty
         /\ ctl' = [taken("none") EXCEPT !.out = ctl.mode, !.aux = FALSE] /\ mouse' = mouse
      \/ ctl.in[1] = "command" /\ b = 96 /\ ctl' = taken("mode") /\ mouse' = mouse
      \/ /\ ctl.in[1] = "command" /\ b = 168 /\ mouse' = mouse
         /\ ctl' = [taken("none") EXCEPT !.mode = IF AuxOn(@) THEN @ ELSE @ - 32]
      \/ ctl.in[1] = "command" /\ b = 212 /\ ctl' = taken("aux") /\ mouse' = mouse
      \/ /\ ctl.in[1] = "data" /\ ctl.expect = "mode"
         /\ ctl' = [taken("none") EXCEPT !.mode = b] /\ mouse' = mouse
      \/ /\ ctl.in[1] = "data" /\ ctl.expect = "aux" /\ ctl' = taken("none")
         /\ mouse' = IF mouse.answer = Silent THEN mouse
                     ELSE [mouse EXCEPT !.queue = Append(@, mouse.answer),
                                        !.streaming = (b = 244 /\ mouse.answer = ACK)]
      \/ ctl.in[1] = "data" /\ ctl.expect = "none" /\ ctl' = taken("none") /\ mouse' = mouse
  BY DEF TakeInput
<1> DEFINE n == taken("none")
<1>6. n \in Controllers /\ n.in = << >> /\ n.expect = "none" /\ n.out = ctl.out /\ n.mode = ctl.mode
  BY <1>4
<1>7. taken("mode") \in Controllers /\ taken("aux") \in Controllers
  BY <1>4
<1> HIDE DEF taken, b
<1>8. CASE /\ ctl.in[1] = "command" /\ b = 32 /\ ctl.out = Empty
           /\ ctl' = [n EXCEPT !.out = ctl.mode, !.aux = FALSE] /\ mouse' = mouse
  <2> HIDE DEF n
  <2>1. /\ ctl' \in Controllers /\ ctl'.out = ctl.mode
        /\ ctl'.in = n.in /\ ctl'.expect = n.expect /\ ctl'.mode = n.mode
    <3> DEFINE c == [n EXCEPT !.out = ctl.mode]
    <3>1. ctl' = [c EXCEPT !.aux = FALSE]
      BY <1>8, Zenon
    <3>2. /\ c \in Controllers /\ c.out = ctl.mode
          /\ c.in = n.in /\ c.expect = n.expect /\ c.mode = n.mode
      BY <1>3, <1>6, SetOut
    <3> HIDE DEF c
    <3>3. /\ ctl' \in Controllers /\ ctl'.out = c.out
          /\ ctl'.in = c.in /\ ctl'.expect = c.expect /\ ctl'.mode = c.mode
      BY <3>1, <3>2, SetAux, Zenon
    <3> QED BY <3>2, <3>3
  <2> QED BY <1>1, <1>3, <1>6, <1>8, <2>1 DEF Took
<1>9. CASE ctl.in[1] = "command" /\ b = 96 /\ ctl' = taken("mode") /\ mouse' = mouse
  BY <1>1, <1>3, <1>4, <1>9 DEF Took
<1>10. CASE ctl.in[1] = "command" /\ b = 212 /\ ctl' = taken("aux") /\ mouse' = mouse
  BY <1>1, <1>3, <1>4, <1>10 DEF Took
<1>11. CASE ctl.in[1] = "data" /\ ctl.expect = "none" /\ ctl' = n /\ mouse' = mouse
  BY <1>1, <1>6, <1>11 DEF Took
<1>12. CASE /\ ctl.in[1] = "command" /\ b = 168 /\ mouse' = mouse
            /\ ctl' = [n EXCEPT !.mode = IF AuxOn(@) THEN @ ELSE @ - 32]
  <2> DEFINE m == IF AuxOn(ctl.mode) THEN ctl.mode ELSE ctl.mode - 32
  <2> HIDE DEF n
  <2>1. m \in Codes
    BY <1>2, AuxBit
  <2>2. ctl' = [n EXCEPT !.mode = m]
    BY <1>6, <1>12
  <2> HIDE DEF m
  <2>3. /\ ctl' \in Controllers /\ ctl'.mode = m
        /\ ctl'.in = n.in /\ ctl'.expect = n.expect /\ ctl'.out = n.out
    BY <1>6, <2>1, <2>2, SetByte
  <2> QED BY <1>1, <1>3, <1>6, <1>12, <2>3 DEF Took, m
<1>13. CASE /\ ctl.in[1] = "data" /\ ctl.expect = "mode"
            /\ ctl' = [n EXCEPT !.mode = b] /\ mouse' = mouse
  <2> HIDE DEF n
  <2>1. /\ ctl' \in Controllers /\ ctl'.mode = b
        /\ ctl'.in = n.in /\ ctl'.expect = n.expect /\ ctl'.out = n.out
    BY <1>3, <1>6, <1>13, SetByte
  <2> QED BY <1>1, <1>6, <1>13, <2>1 DEF Took, b
<1>14. CASE /\ ctl.in[1] = "data" /\ ctl.expect = "aux" /\ ctl' = n
            /\ mouse' = IF mouse.answer = Silent THEN mouse
                        ELSE [mouse EXCEPT !.queue = Append(@, mouse.answer),
                                           !.streaming = (b = 244 /\ mouse.answer = ACK)]
  <2>1. CASE mouse.answer = Silent
    BY <1>1, <1>6, <1>14, <2>1 DEF Took
  <2>2. CASE mouse.answer # Silent
    <3> DEFINE q == Append(mouse.queue, mouse.answer)
               s == b = 244 /\ mouse.answer = ACK
    <3>1. mouse' = [mouse EXCEPT !.queue = q, !.streaming = s]
      BY <1>14, <2>2
    <3>2. mouse.answer \in Codes /\ mouse.queue \in Seq(Codes)
      <4>1. mouse.answer \in MouseAnswers /\ mouse.queue \in Seq(Codes)
        BY <1>1, OfMouse
      <4>2. MouseAnswers \subseteq Codes
        BY StartupAssumption DEF ACK, Resend, Silent, Codes
      <4> QED BY <4>1, <4>2
    <3>3. q \in Seq(Codes) /\ s \in BOOLEAN
      BY <3>2
    <3> HIDE DEF q, s
    <3>4. mouse' \in Mice /\ mouse'.queue = q /\ mouse'.streaming = s /\ mouse'.answer = mouse.answer
      <4> DEFINE v == [mouse EXCEPT !.queue = q]
      <4>1. mouse' = [v EXCEPT !.streaming = s]
        BY <3>1, Zenon
      <4>2. v \in Mice /\ v.queue = q /\ v.answer = mouse.answer
        BY <1>1, <3>3, SetQueue
      <4> HIDE DEF v
      <4>3. mouse' \in Mice /\ mouse'.streaming = s /\ mouse'.answer = v.answer /\ mouse'.queue = v.queue
        BY <3>3, <4>1, <4>2, SetStreaming, Zenon
      <4> QED BY <4>2, <4>3
    <3> QED BY <1>1, <1>6, <1>14, <2>2, <3>4 DEF Took, q, s, b
  <2> QED BY <2>1, <2>2
<1> QED BY <1>5, <1>8, <1>9, <1>10, <1>11, <1>12, <1>13, <1>14

LEMMA StartTakeInput == StartInv /\ TakeInput => StartInv'
<1> SUFFICES ASSUME StartInv, TakeInput PROVE StartInv'
  OBVIOUS
<1>1. /\ ctl.in # << >> /\ ctl' \in Controllers /\ mouse' \in Mice
      /\ UNCHANGED <<at, cmd, irr, have_mouse, keyed, overrun>>
  BY TakeInputIs DEF StartInv
<1>2. ctl \in Controllers /\ mouse \in Mice /\ at \in 1 .. 22 /\ Done = 22 /\ ctl.mode \in Codes
  BY MouseInitOps, OfController DEF StartInv, StartTypeOK
<1>3. at = 4 => ctl'.out # Empty
  <2>1. ctl'.out = ctl.out \/ (ctl'.out = ctl.mode)
    BY TakeInputIs DEF StartInv
  <2>2. ctl.mode # Empty
    BY <1>2 DEF Codes, Empty
  <2> QED BY <2>1, <2>2 DEF StartInv, StartTypeOK
<1>4. StartTypeOK'
  BY <1>1, <1>3 DEF StartInv, StartTypeOK
<1>5. ASSUME ~overrun' PROVE Dialogue'
  <2>1. Dialogue
    BY <1>1, <1>5 DEF StartInv
  <2>2. \A m \in Modes : m # ACK /\ KeyboardOn(m) /\ Translates(m)
    BY StartupAssumption DEF ACK
  <2>3. CASE /\ Took("command", "none") /\ ctl.in = <<"command", 32>>
             /\ ctl.out = Empty /\ ctl'.out = ctl.mode /\ ctl'.mode = ctl.mode /\ mouse' = mouse
    <3>1. at \in {3, 4, 5} \/ at = Done
      BY <1>2, <2>1, <2>3 DEF Dialogue, AskMode, SetMode, Tell, Hear, LeftBehind, NoAnswer, Answering, MouseIdle, Fit, Has
    <3>2. CASE at \in {3, 4, 5}
      <4>1. /\ ctl.mode \in Modes /\ ctl.expect = "none" /\ MouseIdle
            /\ at = 5 => keyed /\ Fit(cmd)
        BY <1>1, <2>1, <3>2 DEF Dialogue, AskMode
      <4>2. ctl.mode # Empty /\ ctl.mode # ACK
        BY <1>2, <2>2, <4>1 DEF Codes, Empty
      <4>3. AskMode'
        BY <1>1, <2>3, <3>2, <4>1, <4>2 DEF AskMode, Took, MouseIdle, NoAnswer, Fit
      <4> QED BY <1>1, <1>2, <3>2, <4>3 DEF Dialogue, SetMode, Tell, Hear, LeftBehind
    <3>3. CASE at = Done
      BY <1>1, <1>2, <2>1, <2>3, <3>3
         DEF Dialogue, AskMode, SetMode, Tell, Hear, LeftBehind, Fit, Has, Took
    <3> QED BY <3>1, <3>2, <3>3
  <2>4. CASE /\ ctl'.out = ctl.out /\ ctl'.mode = ctl.mode /\ mouse' = mouse
             /\ Took("command", "mode") /\ ctl.in = <<"command", 96>>
    <3>1. at = 7 \/ at = Done
      BY <1>2, <2>1, <2>4 DEF Dialogue, AskMode, SetMode, Tell, Hear, LeftBehind, NoAnswer, Answering, MouseIdle, Fit, Has
    <3> QED BY <1>1, <1>2, <2>1, <2>4, <3>1
            DEF Dialogue, AskMode, SetMode, Tell, Hear, LeftBehind, NoAnswer, Answering, MouseIdle, Fit, Has, Took
  <2>5. CASE /\ ctl'.out = ctl.out /\ ctl'.mode = ctl.mode /\ mouse' = mouse
             /\ Took("command", "aux") /\ ctl.in = <<"command", 212>>
    <3>1. at \in {12, 18} \/ at = Done
      BY <1>2, <2>1, <2>5 DEF Dialogue, AskMode, SetMode, Tell, Hear, LeftBehind, NoAnswer, Answering, MouseIdle, Fit, Has
    <3> QED BY <1>1, <1>2, <2>1, <2>5, <3>1
            DEF Dialogue, AskMode, SetMode, Tell, Hear, LeftBehind, NoAnswer, Answering, MouseIdle, Fit, Has, Took
  <2>6. CASE /\ ctl'.out = ctl.out /\ ctl'.mode = ctl.mode /\ mouse' = mouse
             /\ Took("data", "none") /\ ctl.expect = "none"
    <3>1. at = Done
      <4>1. ctl.in # << >> /\ ctl.in[1] = "data" /\ ctl.expect = "none"
        BY <1>1, <2>6 DEF Took
      <4>2. \A b : <<"command", b>>[1] # "data"
        OBVIOUS
      <4>3. at \notin 1 .. 6
        BY <2>1, <4>1, <4>2 DEF Dialogue, AskMode
      <4>4. at \notin 7 .. 9
        BY <2>1, <4>1, <4>2 DEF Dialogue, SetMode, Has
      <4>5. at \notin 10 .. 13 \cup 16 .. 19
        BY <2>1, <4>1, <4>2 DEF Dialogue, Tell, Has
      <4>6. at \notin {14, 15, 20, 21}
        BY <2>1, <4>1, <4>2 DEF Dialogue, Hear, Has
      <4> QED BY <1>2, <4>3, <4>4, <4>5, <4>6
    <3> QED BY <1>1, <1>2, <2>1, <2>6, <3>1
            DEF Dialogue, AskMode, SetMode, Tell, Hear, LeftBehind, NoAnswer, Answering, MouseIdle, Fit, Has, Took
  <2>7. CASE /\ Took("command", "none") /\ ctl.in = <<"command", 168>>
             /\ ctl'.mode = (IF AuxOn(ctl.mode) THEN ctl.mode ELSE ctl.mode - 32)
             /\ ctl'.out = ctl.out /\ mouse' = mouse
    <3>1. at = 10 \/ at = Done
      BY <1>2, <2>1, <2>7 DEF Dialogue, AskMode, SetMode, Tell, Hear, LeftBehind, NoAnswer, Answering, MouseIdle, Fit, Has
    <3>2. AuxOn(ctl'.mode) /\ (Fit(ctl.mode) => Fit(ctl'.mode))
      BY <1>2, <2>7, AuxBit DEF Fit
    <3> QED BY <1>1, <1>2, <2>1, <2>7, <3>1, <3>2
            DEF Dialogue, AskMode, SetMode, Tell, Hear, LeftBehind, NoAnswer, Answering, MouseIdle, Fit, Has, Took
  <2>8. CASE /\ Took("data", "none") /\ ctl.expect = "mode"
             /\ ctl'.mode = ctl.in[2] /\ ctl'.out = ctl.out /\ mouse' = mouse
    <3>1. (at = 9 /\ ctl.in = <<"data", cmd>>) \/ at = Done
      BY <1>1, <1>2, <2>1, <2>8 DEF Dialogue, AskMode, SetMode, Tell, Hear, LeftBehind, NoAnswer, Answering, MouseIdle, Fit, Has, Took
    <3> QED BY <1>1, <1>2, <2>1, <2>8, <3>1
            DEF Dialogue, AskMode, SetMode, Tell, Hear, LeftBehind, NoAnswer, Answering, MouseIdle, Fit, Has, Took
  <2>9. CASE /\ Took("data", "none") /\ ctl.expect = "aux"
             /\ ctl'.mode = ctl.mode /\ ctl'.out = ctl.out
             /\ \/ mouse.answer = Silent /\ mouse' = mouse
                \/ /\ mouse.answer # Silent /\ mouse'.answer = mouse.answer
                   /\ mouse'.queue = Append(mouse.queue, mouse.answer)
                   /\ mouse'.streaming = (ctl.in[2] = 244 /\ mouse.answer = ACK)
    <3>1. at \in {14, 15, 20, 21} \/ at = Done
      BY <1>1, <1>2, <2>1, <2>9 DEF Dialogue, AskMode, SetMode, Tell, Hear, LeftBehind, NoAnswer, Answering, MouseIdle, Fit, Has, Took
    <3>2. ASSUME at \in {14, 15, 20, 21}
          PROVE  /\ ctl.in = <<"data", IF at \in {14, 15} THEN 246 ELSE 244>> /\ MouseIdle /\ NoAnswer
                 /\ Fit(ctl.mode) /\ AuxOn(ctl.mode)
                 /\ at \in {15, 21} => ctl.out # Empty
                 /\ at \in {20, 21} => mouse.answer = ACK
      BY <1>1, <2>1, <3>2 DEF Dialogue, Hear, Has
    <3>3. Append(<< >>, mouse.answer) = <<mouse.answer>>
      OBVIOUS
    <3>4. ASSUME at \in {14, 15, 20, 21} PROVE Hear'
      <4>1. Has(<< >>, "none")'
        BY <2>9 DEF Has, Took
      <4>2. NoAnswer'
        BY <1>1, <2>9, <3>2, <3>4 DEF NoAnswer
      <4>3. Answering'
        BY <2>9, <3>2, <3>3, <3>4, <4>2 DEF Answering, MouseIdle
      <4>4. at \in {14, 15} => ~mouse'.streaming
        <5>1. at \in {14, 15} => ctl.in[2] # 244
          BY <3>2, <3>4
        <5>2. ~mouse.streaming
          BY <3>2, <3>4 DEF MouseIdle
        <5> QED BY <2>9, <5>1, <5>2, Zenon
      <4>5. mouse'.answer = mouse.answer
        BY <2>9
      <4> QED BY <1>1, <2>9, <3>2, <3>4, <4>1, <4>3, <4>4, <4>5 DEF Hear, Fit
    <3>5. ASSUME at = Done PROVE LeftBehind'
      BY <1>1, <2>1, <2>9, <3>5 DEF Dialogue, LeftBehind, Has
    <3>6. AskMode' /\ SetMode' /\ Tell'
      BY <1>1, <1>2, <3>1 DEF AskMode, SetMode, Tell
    <3> QED BY <1>1, <1>2, <3>1, <3>4, <3>5, <3>6 DEF Dialogue, Hear, LeftBehind
  <2> QED BY <2>3, <2>4, <2>5, <2>6, <2>7, <2>8, <2>9, TakeInputIs DEF StartInv
<1> QED BY <1>4, <1>5 DEF StartInv

(* The mouse sends its answer, later its packets.                          *)
LEMMA StartMouseSend == StartInv /\ MouseSend => StartInv'
<1> SUFFICES ASSUME StartInv, MouseSend PROVE StartInv'
  OBVIOUS
<1> DEFINE b == IF mouse.queue = << >> THEN Stream ELSE Head(mouse.queue)
<1>1. /\ ctl.out = Empty /\ AuxOn(ctl.mode) /\ (mouse.queue # << >> \/ mouse.streaming)
      /\ ctl' = [ctl EXCEPT !.out = b, !.aux = TRUE]
      /\ mouse' = IF mouse.queue = << >> THEN mouse ELSE [mouse EXCEPT !.queue = Tail(@)]
      /\ irr' \in {12, irr}
      /\ UNCHANGED <<at, cmd, have_mouse, keyed, overrun>>
  BY DEF MouseSend
<1>2. ctl \in Controllers /\ mouse \in Mice /\ at \in 1 .. 22 /\ Done = 22 /\ at # 4
  BY <1>1, MouseInitOps DEF StartInv, StartTypeOK
<1>3. mouse.queue \in Seq(Codes) /\ mouse.answer \in MouseAnswers
  BY <1>2, OfMouse
<1>4. b \in Codes /\ (mouse.queue # << >> => Tail(mouse.queue) \in Seq(Codes))
  BY <1>3, HeadTailProperties DEF Codes, Stream
<1> HIDE DEF b
<1>5. /\ ctl' \in Controllers /\ ctl'.out = b
      /\ ctl'.in = ctl.in /\ ctl'.expect = ctl.expect /\ ctl'.mode = ctl.mode
  <2> DEFINE c == [ctl EXCEPT !.out = b]
  <2>1. ctl' = [c EXCEPT !.aux = TRUE]
    BY <1>1, Zenon
  <2>2. b \in Outs
    BY <1>4 DEF Outs
  <2>3. /\ c \in Controllers /\ c.out = b /\ c.in = ctl.in /\ c.expect = ctl.expect
        /\ c.mode = ctl.mode
    BY <1>2, <2>2, SetOut
  <2> HIDE DEF c
  <2>4. /\ ctl' \in Controllers /\ ctl'.out = c.out
        /\ ctl'.in = c.in /\ ctl'.expect = c.expect /\ ctl'.mode = c.mode
    BY <2>1, <2>3, SetAux, Zenon
  <2> QED BY <2>3, <2>4
<1>6. /\ mouse' \in Mice /\ mouse'.answer = mouse.answer /\ mouse'.streaming = mouse.streaming
      /\ mouse'.queue = IF mouse.queue = << >> THEN << >> ELSE Tail(mouse.queue)
  <2>1. CASE mouse.queue = << >>
    BY <1>1, <1>2, <2>1
  <2>2. CASE mouse.queue # << >>
    <3>1. mouse' = [mouse EXCEPT !.queue = Tail(mouse.queue)]
      BY <1>1, <2>2
    <3>2. /\ mouse' \in Mice /\ mouse'.queue = Tail(mouse.queue)
          /\ mouse'.answer = mouse.answer /\ mouse'.streaming = mouse.streaming
      BY <1>2, <1>4, <2>2, <3>1, SetQueue
    <3> QED BY <2>2, <3>2
  <2> QED BY <2>1, <2>2
<1>7. StartTypeOK'
  BY <1>1, <1>2, <1>5, <1>6 DEF StartInv, StartTypeOK
<1>8. ASSUME ~overrun' PROVE Dialogue'
  <2>1. Dialogue
    BY <1>1, <1>8 DEF StartInv
  <2>2. ~MouseIdle
    BY <1>1 DEF MouseIdle
  <2>3. at \in {14, 15, 20, 21} \/ at = Done
    BY <1>2, <2>1, <2>2 DEF Dialogue, AskMode, SetMode, Tell
  <2>4. CASE at \in {14, 15, 20, 21}
    <3>1. /\ Fit(ctl.mode) /\ AuxOn(ctl.mode) /\ ctl.out = Empty
          /\ at \notin {15, 21}
          /\ at \in {20, 21} => mouse.answer = ACK
          /\ at \in {14, 15} => ~mouse.streaming
          /\ Has(<< >>, "none") /\ Answering
      BY <1>1, <2>1, <2>2, <2>4 DEF Dialogue, Hear
    <3>2. mouse.answer # Silent /\ mouse.queue = <<mouse.answer>>
      <4>1. ctl.out # mouse.answer
        BY <1>1, <1>3, StartupAssumption DEF ACK, Resend, Silent, Empty
      <4>2. mouse.answer = Silent /\ mouse.queue = << >> => FALSE
        BY <1>1, <2>4, <3>1 DEF ACK, Silent
      <4> QED BY <3>1, <4>1, <4>2 DEF Answering
    <3>3. Head(<<mouse.answer>>) = mouse.answer /\ Tail(<<mouse.answer>>) = << >>
          /\ <<mouse.answer>> # << >>
      OBVIOUS
    <3>4. b = mouse.answer /\ mouse'.queue = << >> /\ mouse.answer # Empty
      BY <1>3, <1>6, <3>2, <3>3, StartupAssumption DEF b, ACK, Resend, Silent, Empty
    <3>5. Answering'
      BY <1>5, <1>6, <3>2, <3>4 DEF Answering
    <3>6. Hear'
      BY <1>1, <1>5, <1>6, <2>4, <3>1, <3>4, <3>5 DEF Hear, Fit, Has
    <3> QED BY <1>1, <1>2, <2>4, <3>6 DEF Dialogue, AskMode, SetMode, Tell, LeftBehind
  <2>5. CASE at = Done
    <3>1. mouse.queue = << >> => b # ACK
      BY DEF b, Stream, ACK
    <3>2. LeftBehind'
      BY <1>1, <1>5, <1>6, <2>1, <2>5, <3>1 DEF Dialogue, LeftBehind, Fit, Has
    <3> QED BY <1>1, <1>2, <2>5, <3>2 DEF Dialogue, AskMode, SetMode, Tell, Hear
  <2> QED BY <2>3, <2>4, <2>5
<1> QED BY <1>7, <1>8 DEF StartInv

LEMMA StartKeyPressed == StartInv /\ KeyPressed => StartInv'
<1> SUFFICES ASSUME StartInv, KeyPressed PROVE StartInv'
  OBVIOUS
<1>1. PICK b \in KeyBytes : ctl' = [ctl EXCEPT !.out = b, !.aux = FALSE]
  BY DEF KeyPressed
<1>2. /\ at < Done /\ ctl.out = Empty /\ keyed' = TRUE
      /\ UNCHANGED <<at, cmd, mouse, irr, have_mouse, overrun>>
  BY DEF KeyPressed
<1>3. ctl \in Controllers /\ mouse \in Mice /\ at \in 1 .. 21 /\ Done = 22 /\ at # 4
  BY <1>2, MouseInitOps DEF StartInv, StartTypeOK
<1>4. b \in Codes /\ b \in Outs /\ b # ACK
  BY StartupAssumption DEF Codes, Outs
<1>5. /\ ctl' \in Controllers /\ ctl'.out = b
      /\ ctl'.in = ctl.in /\ ctl'.expect = ctl.expect /\ ctl'.mode = ctl.mode
  <2> DEFINE c == [ctl EXCEPT !.out = b]
  <2>1. ctl' = [c EXCEPT !.aux = FALSE]
    BY <1>1, Zenon
  <2>2. /\ c \in Controllers /\ c.out = b /\ c.in = ctl.in /\ c.expect = ctl.expect
        /\ c.mode = ctl.mode
    BY <1>3, <1>4, SetOut
  <2> HIDE DEF c
  <2>3. /\ ctl' \in Controllers /\ ctl'.out = c.out
        /\ ctl'.in = c.in /\ ctl'.expect = c.expect /\ ctl'.mode = c.mode
    BY <2>1, <2>2, SetAux, Zenon
  <2> QED BY <2>2, <2>3
<1>6. StartTypeOK'
  BY <1>2, <1>3, <1>5 DEF StartInv, StartTypeOK
<1>7. ASSUME ~overrun' PROVE Dialogue'
  <2>1. Dialogue
    BY <1>2, <1>7 DEF StartInv
  <2>2. b # Empty /\ mouse.answer # Empty
    BY <1>3, <1>4, OfMouse, StartupAssumption DEF Codes, ACK, Resend, Silent, Empty
  <2>3. AskMode'
    BY <1>2, <1>4, <1>5, <2>1, <2>2 DEF Dialogue, AskMode, NoAnswer, MouseIdle, Fit
  <2>4. SetMode' /\ Tell'
    BY <1>2, <1>4, <1>5, <2>1 DEF Dialogue, SetMode, Tell, NoAnswer, MouseIdle, Fit, Has
  <2>5. Hear'
    BY <1>2, <1>4, <1>5, <2>1, <2>2 DEF Dialogue, Hear, Answering, NoAnswer, MouseIdle, Fit, Has
  <2> QED BY <1>2, <1>3, <2>3, <2>4, <2>5 DEF Dialogue, LeftBehind
<1> QED BY <1>6, <1>7 DEF StartInv

(* After mouse_init: a reader or the handler takes the byte away.          *)
LEMMA StartByteTaken ==
  ASSUME StartInv, at = Done, ctl' = ctl \/ ctl' = [ctl EXCEPT !.out = Empty],
         irr' \in {0, 12, 15}, UNCHANGED <<at, cmd, mouse, have_mouse, keyed, overrun>>
  PROVE  StartInv'
<1>1. ctl \in Controllers /\ mouse \in Mice /\ Done = 22
  BY MouseInitOps DEF StartInv, StartTypeOK
<1>2. /\ ctl' \in Controllers /\ ctl'.in = ctl.in /\ ctl'.expect = ctl.expect /\ ctl'.mode = ctl.mode
      /\ ctl'.out \in {ctl.out, Empty}
  <2>1. CASE ctl' = ctl
    BY <1>1, <2>1
  <2>2. CASE ctl' = [ctl EXCEPT !.out = Empty]
    <3>1. Empty \in Outs
      BY DEF Outs
    <3> QED BY <1>1, <2>2, <3>1, SetOut
  <2> QED BY <2>1, <2>2
<1>3. StartTypeOK'
  BY <1>1, <1>2 DEF StartInv, StartTypeOK
<1>4. ASSUME ~overrun' PROVE Dialogue'
  <2>1. LeftBehind
    BY <1>4 DEF StartInv, Dialogue
  <2>2. LeftBehind'
    BY <1>2, <2>1 DEF LeftBehind, Fit, Has, ACK, Empty
  <2> QED BY <1>1, <2>2 DEF Dialogue, AskMode, SetMode, Tell, Hear
<1> QED BY <1>3, <1>4 DEF StartInv

LEMMA StartInvNext == CpuInv /\ StartInv /\ [Next]_vars => StartInv'
<1> SUFFICES ASSUME CpuInv, StartInv, [Next]_vars PROVE StartInv'
  OBVIOUS
<1>1. CASE UNCHANGED vars
  BY <1>1, StartInvSame DEF vars
<1>2. CASE Start
  <2>1. mouse_init_step \/ UNCHANGED startVars
    BY <1>2 DEF Start, kernel_main, pic_remap, InMouseInit, ShellBegins
  <2> QED BY <2>1, StartInvSame, StartWait, StartTimeOut, StartWrite, StartReadMode, StartReadAnswer
          DEF mouse_init_step
<1>3. CASE Devices \/ Person
  BY <1>3, StartTakeInput, StartMouseSend, StartKeyPressed DEF Devices, Person
<1>4. CASE Shell
  <2>1. UNCHANGED startVars
    BY <1>4 DEF Shell, Arrow, Erase, EnterEmpty, EnterLine, Type, ClearScreen, sys_reboot, eword_open,
           Prints, Shows, WriteFile, ExecDraws, Fault, Command, AtPrompt, GetKey
  <2> QED BY <2>1, StartInvSame
<1>5. CASE Writes \/ EwordKeys \/ EwordEsc \/ fault_handler
  <2>1. UNCHANGED startVars
    BY <1>5 DEF Writes, EwordKeys, EwordKey, EwordEsc, GetKey, fault_handler
  <2> QED BY <2>1, StartInvSame
<1>6. CASE PollByte \/ Interrupt \/ irq_handler
  <2>1. at = Done
    BY <1>6 DEF CpuInv, PollByte, Interrupt, irq_handler
  <2>2. /\ ctl' = ctl \/ ctl' = [ctl EXCEPT !.out = Empty]
        /\ UNCHANGED <<at, cmd, mouse, have_mouse, keyed, overrun>>
    BY <1>6 DEF PollByte, Interrupt, irq_handler
  <2>3. irr' \in {0, 12, 15}
    BY <1>6 DEF StartInv, StartTypeOK, PollByte, Interrupt, irq_handler
  <2> QED BY <2>1, <2>2, <2>3, StartByteTaken
<1> QED BY <1>1, <1>2, <1>3, <1>4, <1>5, <1>6 DEF Next

(* The dialogue with the controller and the mouse, operation by operation. *)
THEOREM KernelStartInvariant == Spec => []StartInv
<1>1. StartInv /\ CpuInv /\ [Next]_vars => StartInv'
  BY StartInvNext
<1> QED BY <1>1, StartInvInit, KernelCpuInvariant, PTL DEF Spec

(* mouse_init, unless a byte is replaced: a mouse that was found has its   *)
(* interrupt, and none of its answers is left; and a mouse is found if     *)
(* there is one, the keyboard as it was, unless a key was pressed.         *)
THEOREM KernelStartUnlessDisturbed == Spec => []StartUnlessDisturbed
<1>1. StartInv => StartUnlessDisturbed
  BY DEF StartInv, Dialogue, LeftBehind, Fit, StartUnlessDisturbed
<1> QED BY <1>1, KernelStartInvariant, PTL

-----------------------------------------------------------------------------
(* EWord's line, and the stage.                                            *)
Stages == {"boot", "start", "prompt", "command", "eword", "halted", "rebooted", "reset"}

EwordInv == EwordTypeOK /\ stage \in Stages

LEMMA UptoIs ==
  ASSUME NEW n \in Nat, NEW s \in Seq(Letters)
  PROVE  Upto(n, s) \in Seq(Letters) /\ Len(Upto(n, s)) <= n
<1> DEFINE m == IF Len(s) < n THEN Len(s) ELSE n
<1>1. m \in Nat /\ m <= n /\ m <= Len(s)
  OBVIOUS
<1> HIDE DEF m
<1>2. \A i \in 1 .. m : s[i] \in Letters
  BY <1>1, ElementOfSeq
<1>3. SubSeq(s, 1, m) \in Seq(Letters) /\ Len(SubSeq(s, 1, m)) = m
  BY <1>1, <1>2, SubSeqProperties
<1> QED BY <1>1, <1>3 DEF Upto, m

LEMMA EwordFresh == ASSUME Fresh PROVE EwordTypeOK'
<1>1. << >> \in Seq(Letters) /\ Len(<< >>) = 0
  OBVIOUS
<1>2. EW_MAXLEN \in Nat /\ 0 \in 0 .. Len(ew_words)
  <2>1. EW_MAXLEN \in Nat /\ Len(ew_words) \in Nat
    BY EwordAssumption
  <2> QED BY <2>1
<1>3. input' \in Seq(Letters) /\ Len(input') <= EW_MAXLEN
  BY <1>1, <1>2 DEF Fresh
<1>4. tab_armed' \in BOOLEAN /\ meaning' \in 0 .. Len(ew_words)
  BY <1>2, Zenon DEF Fresh
<1> QED BY <1>3, <1>4 DEF EwordTypeOK

LEMMA EwordTake ==
  ASSUME EwordTypeOK, NEW n, TakeMatch(n), tab_armed' \in BOOLEAN
  PROVE  EwordTypeOK'
<1>1. CASE n \in DOMAIN Matches
  <2>1. Matches[n] \in 1 .. Len(ew_words)
    BY <1>1, MatchRanked
  <2>2. input' = Upto(EW_MAXLEN, ew_words[Matches[n]]) /\ meaning' = Matches[n]
    BY <1>1 DEF TakeMatch, Completed
  <2>3. ew_words[Matches[n]] \in Seq(Letters) /\ EW_MAXLEN \in Nat
    BY <2>1, EwordAssumption, ElementOfSeq
  <2>4. input' \in Seq(Letters) /\ Len(input') <= EW_MAXLEN
    BY <2>2, <2>3, UptoIs
  <2> QED BY <2>1, <2>2, <2>4, EwordAssumption DEF EwordTypeOK
<1>2. CASE n \notin DOMAIN Matches
  BY <1>2 DEF TakeMatch, EwordTypeOK
<1> QED BY <1>1, <1>2

LEMMA EwordKeysType == EwordTypeOK /\ EwordKeys => EwordTypeOK'
<1> SUFFICES ASSUME EwordTypeOK, EwordKeys PROVE EwordTypeOK'
  OBVIOUS
<1>1. /\ input \in Seq(Letters) /\ Len(input) <= EW_MAXLEN /\ tab_armed \in BOOLEAN
      /\ meaning \in 0 .. Len(ew_words) /\ EW_MAXLEN \in Nat
  BY EwordAssumption DEF EwordTypeOK
<1>2. CASE Tab
  BY <1>1, <1>2 DEF Tab, EwordTypeOK
<1>3. ASSUME NEW d \in 1 .. DIGITS, Digit(d) PROVE EwordTypeOK'
  <2>1. TakeMatch(d) \/ UNCHANGED <<input, meaning>>
    BY <1>3 DEF Digit
  <2>2. tab_armed' \in BOOLEAN
    BY <1>3 DEF Digit
  <2>3. CASE TakeMatch(d)
    BY <2>2, <2>3, EwordTake
  <2>4. CASE UNCHANGED <<input, meaning>>
    BY <1>1, <2>2, <2>4 DEF EwordTypeOK
  <2> QED BY <2>1, <2>3, <2>4
<1>4. CASE Enter
  <2>1. TakeMatch(1) /\ tab_armed' \in BOOLEAN
    BY <1>1, <1>4 DEF Enter
  <2> QED BY <2>1, EwordTake
<1>5. CASE Backspace
  <2>1. input # << >> => Front(input) \in Seq(Letters) /\ Len(Front(input)) = Len(input) - 1
    BY <1>1, FrontIs
  <2>2. input' \in Seq(Letters) /\ Len(input') <= EW_MAXLEN
    BY <1>1, <1>5, <2>1 DEF Backspace
  <2> QED BY <1>1, <1>5, <2>2 DEF Backspace, EwordTypeOK
<1>6. ASSUME NEW c \in Letters, Insert(c) PROVE EwordTypeOK'
  <2>1. Append(input, c) \in Seq(Letters) /\ Len(Append(input, c)) = Len(input) + 1 /\ Len(input) \in Nat
    BY <1>1
  <2>2. input' \in Seq(Letters) /\ Len(input') <= EW_MAXLEN
    BY <1>1, <1>6, <2>1 DEF Insert
  <2> QED BY <1>1, <1>6, <2>2 DEF Insert, EwordTypeOK
<1> QED BY <1>2, <1>3, <1>4, <1>5, <1>6 DEF EwordKeys

LEMMA EwordInvNext == EwordInv /\ [Next]_vars => EwordInv'
<1> SUFFICES ASSUME EwordInv, [Next]_vars PROVE EwordInv'
  OBVIOUS
<1>0. ASSUME UNCHANGED ewVars PROVE EwordTypeOK'
  BY <1>0 DEF EwordInv, EwordTypeOK, ewVars
<1>1. CASE UNCHANGED vars
  BY <1>0, <1>1 DEF EwordInv, vars, progVars
<1>2. CASE Start
  BY <1>0, <1>2 DEF EwordInv, Stages, Start, kernel_main, pic_remap, InMouseInit, ShellBegins, progVars
<1>3. CASE Devices \/ Person
  BY <1>0, <1>3 DEF EwordInv, Devices, Person, progVars
<1>4. CASE Shell
  <2>1. CASE eword_open
    BY <2>1, EwordFresh DEF EwordInv, eword_open, Stages
  <2>2. CASE ~eword_open
    <3>1. UNCHANGED ewVars /\ (stage' = stage \/ stage' \in {"prompt", "command", "rebooted", "reset"})
      BY <1>4, <2>2
         DEF Shell, Arrow, Erase, EnterEmpty, EnterLine, Type, ClearScreen, sys_reboot, Prints,
             Shows, WriteFile, ExecDraws, Fault, Command, AtPrompt, GetKey, progVars
    <3> QED BY <1>0, <3>1 DEF EwordInv, Stages
  <2> QED BY <2>1, <2>2
<1>5. CASE EwordKeys
  <2>1. stage' = stage
    BY <1>5 DEF EwordKeys, EwordKey, progVars
  <2> QED BY <1>5, <2>1, EwordKeysType DEF EwordInv
<1>6. CASE EwordEsc
  BY <1>6, EwordFresh DEF EwordInv, EwordEsc, Stages
<1>7. CASE Writes \/ PollByte \/ Interrupt \/ irq_handler \/ fault_handler
  <2>1. UNCHANGED ewVars /\ (stage' = stage \/ stage' \in {"halted", "reset"})
    BY <1>7 DEF Writes, PollByte, Interrupt, irq_handler, fault_handler, progVars
  <2> QED BY <1>0, <2>1 DEF EwordInv, Stages
<1> QED BY <1>1, <1>2, <1>3, <1>4, <1>5, <1>6, <1>7 DEF Next

(* The types of the variables, the line shorter than its buffer.           *)
THEOREM KernelTypes == Spec => []KernelTypeOK
<1>1. Init => EwordInv
  <2>1. << >> \in Seq(Letters) /\ Len(<< >>) = 0 /\ EW_MAXLEN \in Nat /\ Len(ew_words) \in Nat
    BY EwordAssumption
  <2> SUFFICES ASSUME Init PROVE EwordInv
    OBVIOUS
  <2>2. stage \in Stages
    BY DEF Init, Stages
  <2>3. input \in Seq(Letters) /\ Len(input) <= EW_MAXLEN
    BY <2>1 DEF Init, EwordInit
  <2>4. tab_armed \in BOOLEAN /\ meaning \in 0 .. Len(ew_words)
    <3>1. 0 \in 0 .. Len(ew_words)
      BY <2>1
    <3> QED BY <3>1, Zenon DEF Init, EwordInit
  <2> QED BY <2>2, <2>3, <2>4 DEF EwordInv, EwordTypeOK
<1>2. EwordInv /\ ConInv /\ StartInv => KernelTypeOK
  <2> SUFFICES ASSUME EwordInv, ConInv, StartInv PROVE KernelTypeOK
    OBVIOUS
  <2>1. at \in 1 .. Done /\ ctl \in Controllers /\ irr \in {0, 12, 15}
    BY DEF StartInv, StartTypeOK
  <2>2. ctl.out \in {Empty} \cup 0 .. 255
    BY <2>1, OfController DEF Outs, Codes
  <2> QED BY <2>1, <2>2 DEF EwordInv, ConInv, ConTypes, KernelTypeOK, Stages
<1> QED BY <1>1, <1>2, EwordInvNext, KernelConsole, KernelStartInvariant, PTL DEF Spec
=============================================================================
