----------------------------- MODULE Interrupts -----------------------------
(***************************************************************************)
(* isr.asm and idt.c: how the processor, the stubs and the C handlers pass *)
(* an event on and come back, as operators on a processor: a record of     *)
(* its registers, the stack (the top is the last element), the interrupt   *)
(* flag and the requests in service at the two interrupt controllers,      *)
(* [regs, stack, iflag, serving].  The program's registers hold values     *)
(* that name them; all segments are 0x10 since boot.asm.                   *)
(***************************************************************************)
EXTENDS Integers, Sequences

DataSeg == 16              \* 0x10
SegRegs == <<"ds", "es", "fs", "gs">>
Pusha   == <<"eax", "ecx", "edx", "ebx", "esp", "ebp", "esi", "edi">>
Frame3 == <<"eflags", "cs", "eip">>   \* what the processor pushes

RegsOf(seq) == {seq[i] : i \in DOMAIN seq}
ProgramRegs == [r \in RegsOf(SegRegs \o Pusha \o Frame3) |->
                  IF r \in RegsOf(SegRegs) THEN DataSeg ELSE r]
Program     == [regs |-> ProgramRegs, stack |-> << >>, iflag |-> FALSE, serving |-> {}]

Pushed(cpu, rs)  == [cpu EXCEPT !.stack = @ \o [i \in DOMAIN rs |-> cpu.regs[rs[i]]]]
PushedImm(cpu, vs) == [cpu EXCEPT !.stack = @ \o vs]

Dropped(cpu, n) == [cpu EXCEPT !.stack = SubSeq(@, 1, Len(@) - n)]

(* The registers rs as they were pushed, popped off again.                 *)
Popped(cpu, rs) ==
  LET base == Len(cpu.stack) - Len(rs)
      regs == [r \in DOMAIN cpu.regs |->
                 IF r \in RegsOf(rs) THEN cpu.stack[base + CHOOSE i \in DOMAIN rs : rs[i] = r]
                 ELSE cpu.regs[r]]
  IN  Dropped([cpu EXCEPT !.regs = regs], Len(rs))

-----------------------------------------------------------------------------
(* Exceptions for which the processor pushes an error code itself.         *)
WithErrorCode == {8, 10, 11, 12, 13, 14, 17}

ISR_ERR_Dummy(vec) == <<0, vec>>   \* a bug: a dummy on top of the error code

ISR_ERR(vec)   == <<vec>>
ISR_NOERR(vec) == <<0, vec>>
IRQ_S(n)       == <<0, 32 + n>>

Stub(vec) == IF vec \in WithErrorCode THEN ISR_ERR(vec)
             ELSE IF vec < 32 THEN ISR_NOERR(vec)
             ELSE IRQ_S(vec - 32)

(* _isr_common_stub and _irq_common_s up to the call of the C handler.     *)
Entered(cpu, vec, err) ==
  LET taken == PushedImm(Pushed(cpu, Frame3), err)
      saved == Pushed(Pushed(PushedImm(taken, Stub(vec)), SegRegs), Pusha)
  IN  [saved EXCEPT !.iflag = FALSE,
                    !.regs = [r \in DOMAIN @ |-> IF r \in RegsOf(SegRegs) THEN DataSeg
                                                 ELSE @[r]]]

(* The C handler may change these registers.                               *)
Clobbered(cpu) ==
  [cpu EXCEPT !.regs = [@ EXCEPT !.eax = "?", !.ecx = "?", !.edx = "?", !.eip = "?",
                                 !.eflags = "?"]]

EoiOfMaster(cpu) == [cpu EXCEPT !.serving = @ \ {"master"}]   \* a bug: the slave waits on

Eoi(cpu) == [cpu EXCEPT !.serving = @ \ {"slave", "master"}]

(* _irq_common_s after the call.  popa leaves esp alone, and iret takes    *)
(* eip, cs and eflags, with the interrupt flag as it was: set.             *)
Returned(cpu) ==
  LET restored == Dropped(Popped(Popped(Eoi(Clobbered(cpu)), Pusha), SegRegs), 2)
  IN  [Popped(restored, Frame3) EXCEPT !.iflag = TRUE]

-----------------------------------------------------------------------------
(* fault_regs_t, from the address handed to the C handler upwards.         *)
Fields == <<"gs", "fs", "es", "ds",
            "edi", "esi", "ebp", "esp_dummy", "ebx", "edx", "ecx", "eax",
            "int_no", "err_code", "eip", "cs", "eflags">>

(* What the C handlers read in field f.                                    *)
Field(cpu, f) ==
  cpu.stack[Len(cpu.stack) + 1 - CHOOSE i \in DOMAIN Fields : Fields[i] = f]
=============================================================================
