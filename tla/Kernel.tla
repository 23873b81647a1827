------------------------------- MODULE Kernel -------------------------------
(***************************************************************************)
(* The kernel from the jump of the boot loader on: kernel_main brings up   *)
(* the interrupt table and the mouse (Startup), then the shell reads lines *)
(* at its prompt on the text console (Console) and runs commands; one of   *)
(* them opens EWord (Eword).  IRQ12 interrupts all of it (Interrupts).     *)
(*                                                                         *)
(* What a command does is abstracted to its output and its effect here: it *)
(* clears the screen, opens EWord, runs a program that draws or faults,    *)
(* writes a file or reboots.  A keyboard reader is one step here; module   *)
(* Input has its inside and its packets: here a byte of the mouse ends a   *)
(* packet or not, and the pointer moves to one of a few cells, in the      *)
(* handler or in the reader, between any two writes to the screen.         *)
(***************************************************************************)
EXTENDS Console, Interrupts, Startup, Eword

CONSTANTS
  Prompt, SHELL_MAX,  \* "eos> " and the size of the line buffer
  Loading, Banner,    \* what the boot loader and kernel_main print
  Outputs,            \* what commands print: lines
  FaultText,          \* what fault_handler prints
  Typed,              \* the characters that can be typed
  Ink, Drawn,         \* a character a program puts on the screen itself, and where
  Spots, Motions,     \* where the pointer goes; bound of the model on its motions
  Faults,             \* the exceptions of a program: [vec, err], err as pushed
  Slots, FileSizes,   \* where files are written, and how long they are
  RMFS_FILES, GDT     \* the addresses of the file table and of the GDT

ASSUME KernelAssumption ==
  /\ SHELL_MAX \in Nat \ {0}
  /\ {Prompt, Loading, Banner, FaultText} \cup Outputs \subseteq Seq(Chars)
  /\ Typed \cup {Ink} \subseteq Chars
  /\ Prompt # << >> /\ \A i \in DOMAIN Prompt : Prompt[i] \notin {Newline, Return}
  /\ Len(Prompt) + SHELL_MAX - 1 <= (VGA_ROWS - 1) * VGA_COLS  \* a line fits
  /\ Newline \notin Typed /\ Return \notin Typed
  /\ \A o \in Outputs : o # << >> => o[Len(o)] = Newline
  /\ RMFS_FILES \in Nat /\ GDT \in Nat /\ Slots \subseteq 0 .. 15
  /\ Drawn \cup Spots \subseteq Cells /\ FileSizes \subseteq 0 .. 4096 /\ Motions \in Nat

(* "EOS loading..." is on row 0 (kernel.c:24), and the banner ends a line. *)
ASSUME BootAssumption ==
  /\ Len(Loading) <= VGA_COLS
  /\ \A i \in DOMAIN Loading : Loading[i] \notin {Newline, Return}
  /\ Banner # << >> /\ Banner[Len(Banner)] = Newline

(* The processor pushes an error code with some exceptions.                *)
ASSUME FaultsAssumption ==
  \A f \in Faults : /\ f.vec \in 0 .. 31 /\ f.err \in Seq(Int)
                    /\ Len(f.err) = IF f.vec \in WithErrorCode THEN 1 ELSE 0

VARIABLES
  stage,     \* "boot", "start", "prompt", "command", "eword", "halted", "rebooted" or "reset"
  con,       \* the screen and the cursor of the console
  todo,      \* what the program has still to do on the screen
  ptr,       \* the block of the pointer
  spoilt,    \* history: the cells whose character the pointer has cost
  moves,     \* the motions so far
  line,      \* the line buffer of the shell
  cpu,       \* the processor
  inside,    \* the handler is running
  event,     \* history: the event it handles, [vec, err], or NoEvent
  gates,     \* the vectors with a gate in the interrupt table
  remapped,  \* the interrupt controllers use the vectors of pic_remap
  gdt,       \* the segment descriptors of boot.asm are as they were
  key        \* history: the last key EWord has read: a digit, Enter, or 0

screenVars == <<con, todo, ptr, spoilt, moves>>
progVars == <<stage, line, gdt, screenVars>>
cpuVars  == <<cpu, inside, event, gates, remapped>>
vars     == <<startVars, ewVars, progVars, cpuVars, key>>

NoBlock == [shown |-> FALSE, pos |-> CellOf(VGA_ROWS \div 2, VGA_COLS \div 2), under |-> Space]
NoEvent == [vec |-> 0, err |-> << >>]

Init ==
  /\ StartInit /\ EwordInit
  /\ stage = "boot" /\ line = << >> /\ gdt = TRUE /\ key = 0
  /\ con = [vga_print(vga_clear, Loading) EXCEPT !.row = 1, !.col = 0]
  /\ ptr = NoBlock
  /\ todo = << >> /\ spoilt = {} /\ moves = 0
  /\ cpu = Program /\ inside = FALSE /\ event = NoEvent
  /\ gates = {} /\ remapped = FALSE

-----------------------------------------------------------------------------
(* kernel_main: the interrupt table, the banner and the first files.       *)
idt_install_exceptions == gates' = 0 .. 31   \* a bug: no gates for the IRQs

idt_install == gates' = (0 .. 31) \cup (32 .. 47)

kernel_main ==
  /\ stage = "boot" /\ stage' = "start"
  /\ con' = vga_print(con, Banner)
  /\ idt_install
  /\ UNCHANGED <<startVars, ewVars, line, gdt, todo, ptr, spoilt, moves,
                 cpu, inside, event, remapped, key>>

pic_remap ==
  /\ stage = "start" /\ ~remapped
  /\ remapped' = TRUE
  /\ UNCHANGED <<startVars, ewVars, progVars, cpu, inside, event, gates, key>>

(* sti at the end, if there is a mouse.                                    *)
InMouseInit ==
  /\ stage = "start" /\ remapped
  /\ mouse_init_step
  /\ cpu' = [cpu EXCEPT !.iflag = have_mouse']
  /\ UNCHANGED <<ewVars, progVars, inside, event, gates, remapped, key>>

(* What is still to be written, one character after the other.             *)
Printing(str) == [i \in DOMAIN str |-> <<"print", str[i]>>]
Prompting     == Printing(Prompt)

ShellBegins ==
  /\ stage = "start" /\ at = Done /\ ~inside
  /\ stage' = "prompt" /\ todo' = Prompting
  /\ UNCHANGED <<startVars, ewVars, line, gdt, con, ptr, spoilt, moves, cpuVars, key>>

-----------------------------------------------------------------------------
(* The screen, one write after the other, each whole: interrupts come      *)
(* between two of them.                                                    *)
PutChar(ch) ==
  /\ con' = vga_putchar(con, ch)
  /\ spoilt' = SpoiltByPut(con, ptr, spoilt, ch)
  /\ UNCHANGED ptr

Clear == con' = vga_clear /\ spoilt' = {} /\ UNCHANGED ptr

Poke(c) == con' = [con EXCEPT !.vga[c] = Ink] /\ spoilt' = spoilt \ {c} /\ UNCHANGED ptr

Hide ==
  /\ con' = mouse_hide(con, ptr)
  /\ ptr' = [ptr EXCEPT !.shown = FALSE]
  /\ spoilt' = SpoiltByHide(con, ptr, spoilt)

DrawAt(at_) ==
  /\ con' = mouse_draw(con, at_)
  /\ ptr' = [shown |-> TRUE, pos |-> at_, under |-> IF ptr.shown THEN ptr.under ELSE con.vga[at_]]
  /\ spoilt' = SpoiltByDraw(con, ptr, spoilt, at_)

(* The end of a packet in the handler: mouse_hide and mouse_draw.          *)
Motion(at_) ==
  LET s == mouse_hide(con, ptr)
  IN  /\ con' = mouse_draw(s, at_)
      /\ ptr' = [shown |-> TRUE, pos |-> at_, under |-> s.vga[at_]]
      /\ spoilt' = SpoiltByHide(con, ptr, spoilt)

Perform(w) ==
  \/ w[1] = "print" /\ PutChar(w[2])
  \/ w[1] = "clear" /\ Clear
  \/ w[1] = "poke" /\ Poke(w[2])
  \/ w[1] = "hide" /\ Hide
  \/ w[1] = "draw" /\ DrawAt(w[2])

Writes ==
  /\ todo # << >> /\ (~inside \/ stage = "halted")
  /\ Perform(Head(todo)) /\ todo' = Tail(todo)
  /\ UNCHANGED <<startVars, ewVars, stage, line, gdt, moves, cpuVars, key>>

-----------------------------------------------------------------------------
(* A key arrives in the reader of the stage, which ends with sti.          *)
GetKey(s) ==
  /\ stage = s /\ ~inside /\ todo = << >>
  /\ cpu' = [cpu EXCEPT !.iflag = TRUE]
  /\ UNCHANGED <<startVars, inside, event, gates, remapped>>

AtPrompt == GetKey("prompt") /\ UNCHANGED <<ewVars, key, moves>>

(* The line editor of shell(): an arrow, a character, Backspace.           *)
Arrow == AtPrompt /\ UNCHANGED progVars

Type(c) ==
  /\ AtPrompt
  /\ IF Len(line) < SHELL_MAX - 1
       THEN line' = Append(line, c) /\ PutChar(c)
       ELSE UNCHANGED <<line, con, ptr, spoilt>>
  /\ UNCHANGED <<stage, gdt, todo>>

Erase ==
  /\ AtPrompt
  /\ IF line = << >> THEN UNCHANGED <<line, con, spoilt>>
     ELSE /\ line' = Front(line) /\ con' = vga_backspace(con)
          /\ spoilt' = spoilt \ {CursorCell(con')}
  /\ UNCHANGED <<stage, gdt, todo, ptr>>

(* Enter: an empty line brings the prompt back, another is a command.      *)
EnterEmpty ==
  /\ AtPrompt /\ line = << >>
  /\ todo' = Printing(<<Newline>>) \o Prompting
  /\ UNCHANGED <<stage, line, gdt, con, ptr, spoilt>>

EnterLine ==
  /\ AtPrompt /\ line # << >>
  /\ stage' = "command" /\ todo' = Printing(<<Newline>>)
  /\ UNCHANGED <<line, gdt, con, ptr, spoilt>>

Command ==
  /\ stage = "command" /\ ~inside /\ todo = << >>
  /\ UNCHANGED <<startVars, gates, remapped, key, moves>>

(* It writes to the screen, and the prompt comes back ...                  *)
Shows(writes) ==
  /\ Command
  /\ stage' = "prompt" /\ line' = << >> /\ todo' = writes \o Prompting
  /\ UNCHANGED <<ewVars, con, ptr, spoilt, cpu, inside, event>>

Prints(o) == Shows(Printing(o)) /\ UNCHANGED gdt

ClearScreen == Shows(<< <<"clear">> >>) /\ UNCHANGED gdt

(* ... a program draws a cell by itself ...                                *)
ExecDraws(c) == Shows(<< <<"poke", c>> >>) /\ UNCHANGED gdt

(* ... a file of n bytes is written: the table lies in .bss behind the     *)
(* kernel's image, across the boot sector with the GDT.                    *)
DataOf(slot) == RMFS_FILES + 4136 * slot + 36
InUse        == GDT + 8 .. GDT + 23       \* the code and the data segment

WriteFile(slot, n, o) ==
  /\ Shows(Printing(o))
  /\ gdt' = (gdt /\ \A a \in InUse : a \notin DataOf(slot) .. DataOf(slot) + n - 1)

sys_reboot ==
  /\ Command
  /\ stage' = "rebooted"
  /\ UNCHANGED <<ewVars, line, gdt, con, todo, ptr, spoilt, cpu, inside, event>>

(* ... or an exception, by `crash` or by a program.                        *)
Fault(f) ==
  /\ Command
  /\ IF gdt
       THEN cpu' = Entered(cpu, f.vec, f.err) /\ inside' = TRUE /\ UNCHANGED stage
       ELSE stage' = "reset" /\ UNCHANGED <<cpu, inside>>
  /\ event' = f
  /\ UNCHANGED <<ewVars, line, gdt, con, todo, ptr, spoilt>>

fault_handler ==
  /\ inside /\ event.vec < 32 /\ stage # "halted"
  /\ stage' = "halted" /\ todo' = Printing(FaultText)
  /\ UNCHANGED <<startVars, ewVars, line, gdt, con, ptr, spoilt, moves, cpuVars, key>>

-----------------------------------------------------------------------------
(* EWord opens with an empty line.  What it paints is in module Windows,   *)
(* the block on its window too; nothing of it is kept here, for Esc hides  *)
(* the block and clears the screen, one after the other.                   *)
eword_open ==
  /\ Command
  /\ stage' = "eword" /\ line' = << >>
  /\ con' = vga_clear /\ ptr' = NoBlock /\ spoilt' = {}
  /\ Fresh
  /\ UNCHANGED <<gdt, todo, cpu, inside, event>>

EnterKey == DIGITS + 1

EwordKey(k) == GetKey("eword") /\ key' = k /\ UNCHANGED progVars

EwordKeys ==
  \/ EwordKey(0) /\ Tab
  \/ \E d \in 1 .. DIGITS : EwordKey(d) /\ Digit(d)
  \/ EwordKey(EnterKey) /\ Enter
  \/ EwordKey(0) /\ Backspace
  \/ \E c \in Letters : EwordKey(0) /\ Insert(c)

EwordEsc ==
  /\ GetKey("eword")
  /\ stage' = "prompt" /\ todo' = << <<"clear">> >> \o Prompting
  /\ Fresh /\ key' = 0
  /\ UNCHANGED <<line, gdt, con, ptr, spoilt, moves>>

-----------------------------------------------------------------------------
(* A reader takes a byte that is in the controller.  The request of IRQ12  *)
(* may be withdrawn with it, which the slave turns into its IRQ15.  A byte *)
(* of the mouse that ends a packet moves the pointer, after the sti.       *)
Moves == stage # "eword" /\ moves < Motions /\ moves' = moves + 1

PollByte ==
  /\ stage \in {"prompt", "eword"} /\ ~inside /\ todo = << >>
  /\ ctl.out # Empty
  /\ \/ UNCHANGED <<todo, moves>>
     \/ ctl.aux /\ Moves /\ \E s \in Spots : todo' = << <<"hide">>, <<"draw", s>> >>
  /\ ctl' = [ctl EXCEPT !.out = Empty]
  /\ irr' \in {irr} \cup (IF ctl.aux /\ irr = 12 THEN {0, 15} ELSE {})
  /\ cpu' = [cpu EXCEPT !.iflag = TRUE]
  /\ UNCHANGED <<at, cmd, mouse, have_mouse, keyed, overrun, ewVars, stage, line, gdt,
                 con, ptr, spoilt, inside, event, gates, remapped, key>>

Vector(n) == IF remapped THEN 32 + n ELSE 112 + n - 8

(* The interrupt controllers pass on the request, and the stub is entered  *)
(* through the gate of its vector.                                         *)
Interrupt ==
  /\ stage \in {"start", "prompt", "command", "eword"} /\ ~inside
  /\ cpu.iflag /\ irr # 0
  /\ IF gdt /\ Vector(irr) \in gates
       THEN /\ cpu' = Entered([cpu EXCEPT !.serving = {"master"} \cup
                                 (IF irr = 12 THEN {"slave"} ELSE {})], Vector(irr), << >>)
            /\ inside' = TRUE
            /\ UNCHANGED stage
       ELSE stage' = "reset" /\ UNCHANGED <<cpu, inside>>
  /\ event' = [vec |-> Vector(irr), err |-> << >>]
  /\ irr' = 0
  /\ UNCHANGED <<at, cmd, ctl, mouse, have_mouse, keyed, overrun, ewVars,
                 screenVars, line, gdt, gates, remapped, key>>

(* irq_handler, mouse_irq and mouse_feed, and back.                        *)
irq_handler ==
  /\ inside /\ event.vec >= 32
  /\ LET fed == Field(cpu, "int_no") = 44 /\ ctl.aux
     IN  /\ ctl' = IF fed THEN [ctl EXCEPT !.out = Empty] ELSE ctl
         /\ \/ UNCHANGED <<con, ptr, spoilt, moves>>
            \/ fed /\ Moves /\ \E s \in Spots : Motion(s)
  /\ cpu' = Returned(cpu)
  /\ inside' = FALSE /\ event' = NoEvent
  /\ UNCHANGED <<at, cmd, mouse, irr, have_mouse, keyed, overrun, ewVars, stage, line, gdt,
                 todo, gates, remapped, key>>

Running == stage \notin {"halted", "rebooted", "reset"}

Devices ==
  /\ Running
  /\ TakeInput \/ MouseSend
  /\ UNCHANGED <<ewVars, progVars, cpuVars, key>>

Person ==
  /\ Running
  /\ KeyPressed
  /\ UNCHANGED <<ewVars, progVars, cpuVars, key>>

Start == kernel_main \/ pic_remap \/ InMouseInit \/ ShellBegins

Shell ==
  \/ Arrow \/ Erase \/ EnterEmpty \/ EnterLine
  \/ \E c \in Typed : Type(c)
  \/ ClearScreen \/ sys_reboot \/ eword_open
  \/ \E o \in Outputs : Prints(o) \/ \E s \in Slots, n \in FileSizes : WriteFile(s, n, o)
  \/ \E c \in Drawn : ExecDraws(c)
  \/ \E f \in Faults : Fault(f)

Next ==
  \/ Start \/ Devices \/ Person \/ Writes \/ Shell \/ EwordKeys \/ EwordEsc
  \/ PollByte \/ Interrupt \/ irq_handler \/ fault_handler

Spec == Init /\ [][Next]_vars

(* While the kernel starts, the controller takes its input and the mouse   *)
(* answers; a request that is enabled is served, its handler ends, and the *)
(* program goes on between two of them (the mouse is slow: hence the       *)
(* strong fairness).  Nobody has to press a key.                           *)
Starting == stage = "start"

FairSpec ==
  /\ Spec
  /\ SF_vars(Start) /\ WF_vars(Starting /\ Devices)
  /\ WF_vars(Starting /\ Interrupt) /\ WF_vars(Starting /\ irq_handler)
-----------------------------------------------------------------------------
KernelTypeOK ==
  /\ EwordTypeOK
  /\ stage \in {"boot", "start", "prompt", "command", "eword", "halted", "rebooted", "reset"}
  /\ con \in Displays /\ ptr \in Pointers /\ spoilt \subseteq Cells
  /\ line \in Seq(Typed) /\ Len(line) < SHELL_MAX
  /\ at \in 1 .. Done /\ ctl.out \in {Empty} \cup 0 .. 255
  /\ irr \in {0, 12, 15}

(* The line as the shell has it is what stands before the cursor, after    *)
(* the prompt, also when it has wrapped and scrolled, with the block of    *)
(* the pointer lifted; behind the cursor there is nothing the console has  *)
(* written.  Only what was written or scrolled under the block is lost.    *)
Shown == Prompt \o line
First == CursorCell(con) - Len(Shown)      \* the cell where the prompt begins
Text  == Bare(con, ptr)

(* Nothing but the pointer is still to be drawn.                           *)
Printed == \A i \in DOMAIN todo : todo[i][1] \in {"hide", "draw"}

LineShown ==
  stage = "prompt" /\ Printed =>
    /\ First >= 0
    /\ \A i \in DOMAIN Shown : First + i - 1 \in spoilt \/ Text[First + i - 1] = Shown[i]
    /\ \A c \in Cells \ spoilt : c >= CursorCell(con) => Text[c] \in {Space, Ink}

(* Typing, erasing and motions of the pointer scroll what is above the     *)
(* prompt at most, and lose no more of it than a cell the block was on.    *)
OutputAboveKept ==
  [][stage = "prompt" /\ stage' = stage /\ Printed /\ Printed' =>
       LET up == First - First'
       IN  /\ up >= 0 /\ up % VGA_COLS = 0
           /\ \A c \in 0 .. First' - 1 :
                IF c \in spoilt' THEN c + up \in spoilt \cup {ptr.pos, ptr'.pos}
                ELSE Text'[c] = Text[c + up]]_vars

(* The program goes on with its registers and its stack as they were when  *)
(* it was interrupted, and neither interrupt controller waits for an EOI.  *)
HandlerTransparent ==
  ~inside => /\ cpu.regs = ProgramRegs
             /\ cpu.stack = << >> /\ cpu.serving = {}

(* The C handlers find in fault_regs_t the vector, the error code and the  *)
(* three words of the processor, with and without an error code, and below *)
(* them the twelve registers in the reverse order of their pushes.  That   *)
(* is not the order of the names in the struct: its `gs` holds edi.        *)
FrameRead ==
  inside => /\ Field(cpu, "int_no") = event.vec
            /\ <<Field(cpu, "err_code")>> = (IF event.err = << >> THEN <<0>> ELSE event.err)
            /\ \A f \in {"eip", "cs", "eflags"} : Field(cpu, f) = ProgramRegs[f]
            /\ \A i \in 1 .. 12 : Field(cpu, Fields[i]) = ProgramRegs[(SegRegs \o Pusha)[13 - i]]

(* The first interrupt finds its gate and its vector; the machine resets   *)
(* only after a file was written over the segment descriptors.             *)
ResetOnlyByOverwrite == stage = "reset" => ~gdt

(* mouse_init ends, with or without a mouse.                               *)
StartupEnds == <>(stage = "prompt")

(* Enter and an armed digit complete to the word with that number among    *)
(* those that match, listed or not, and show its meaning.                  *)
Ranked(i, d) ==
  /\ ew_starts(ew_words[i], input)
  /\ Cardinality({j \in 1 .. i - 1 : ew_starts(ew_words[j], input)}) = d - 1

CompletesRanked ==
  [][\A d \in 1 .. DIGITS :
       stage = "eword" /\ input' # input /\ (key' = d \/ (key' = EnterKey /\ d = 1)) =>
         /\ key' = d => tab_armed
         /\ Ranked(meaning', d)
         /\ input' = Upto(EW_MAXLEN, ew_words[meaning'])
         /\ d <= LISTED => Listing[d] = meaning']_vars
=============================================================================
