# EOS in TLA+: models, checks and proofs

This directory is the verification project kept beside the EOS sources (`src/`):
TLA+ modules translated from the code, TLC configurations that check them on
small instances, and theorems that TLAPS proves for instances of every size.

EOS is a 32-bit protected-mode hobby system: a boot loader, a kernel with a text
console, a PS/2 keyboard and mouse, a file system in memory (RMFS), a shell, a
file browser with an editor (`div`), a window manager with a dictionary that
completes words (EWord), and its own assembler (EOSCWA, Python). There is one processor, no
scheduler and one interrupt source in use, IRQ12 of the mouse.

## 1. The system

| Component | Source | State it keeps | Operations | What makes it correct |
|---|---|---|---|---|
| RMFS | `kernel/rmfs.c`, `.h` | 16 slots of name, size, data, used flag | init, write, read, rm, count, stat, ls, ls_dir | a bounded map from names to contents, with the return codes of the header |
| Keyboard readers | `kernel.c` 245-350 | `shift`, `ext` of each reader | `kbd_getchar` (shell), `div_getkey` (div, EWord) | each scan code decoded once, in order, with Shift as it is held |
| Mouse driver | `mouse.c` | packet machine, pointer, button, cell under the block | `mouse_init`, `mouse_feed`, `mouse_irq`, `mouse_hide`, `mouse_draw` | initialisation ends and leaves both devices working; packets applied whole and in order, the block leaves no trace |
| IDT and stubs | `idt.c`, `isr.asm` | IDT, PIC vectors and masks, stack frames | dispatch of IRQ12 and exceptions | a gate for every interrupt that can come; the handler leaves no trace in the program and in the interrupt controllers |
| VGA console | `kernel.c` 40-125 | cursor, screen | put, newline, backspace, scroll, clear | the line as the shell has it is what the screen shows, over wraps and scrolls |
| Shell | `kernel.c` 497-end | staging buffer, program area at 0x20000 | touch, cp, cat, wc, write, rm, exec, ls, mem, and commands without state | messages are true, only the target changes |
| div browser, viewer | `div.c` | folder, listing, selection, page | the keys, open, edit, leave | the listing is the folder as it is now |
| div editor | `div.c` 185-320 | buffer, length, cursor, top row, goal column | the keys, F2, Esc | a text with a cursor; saving writes what was typed |
| Window manager | `win.c` | slots with place, cells below, drag state | open, move, drag, frame, close | closing restores every cell |
| EWord | `eword.c` | input line, armed Tab, meaning | its key loop | completes to the word that was picked; its window survives drags and pointer motion |
| EOSCWA | `tools/eos_cwa.py` | items, symbols, sizes, rel8 flags | preprocess, parse, layout, encode, COFF | one layout that the emitted bytes match; layout ends |
| Boot loader | `boot/boot.asm` | memory, registers | copy the kernel down in memory, enter protected mode | the kernel arrives unbroken |
| ISO writer, build | `tools/mkiso.py`, CMake | none | writes bytes | - |

How they interact. `kernel_main` installs the interrupt table, fills RMFS, sets up
the mouse with interrupts off and enters the shell, which reads lines through
`kbd_getchar` and echoes them on the console. The shell, the browser and the editor share RMFS by
direct calls. `div` and EWord read keys through `div_getkey`, a second reader
with its own Shift and E0 state over the same controller. Both readers poll the
8042 controller and hand the mouse bytes they find to `mouse_feed`; the IRQ12
handler calls the same `mouse_feed` on the same packet machine, pointer and
screen. That screen is the console's too: `mouse_draw` and `mouse_hide` write to the
video memory that `vga_putchar` and `vga_scroll` write to, and neither knows of the other. The window manager paints around `mouse_hide` and `mouse_draw`.

What is hard here:

- the race of polling readers and the IRQ12 handler for one hardware buffer and
  one packet machine (`kernel.c:249-275`, `mouse.c:76-137`);
- state that outlives its moment: stale bytes in slots, in the staging buffer, in
  the editor's buffer, in the program area; listings; the cell below the pointer;
  Shift kept by the reader that is not in use;
- limits: a full table, files of the largest size, the listing, the editor's
  buffer, the reach of short branches, windows at the edges of the screen;
- starting up: a dialogue with the mouse in which a key may answer, time-outs, and
  gates, vectors and `sti` in three functions;
- the assembly stubs and the C structure that must agree on a stack frame;
- an iteration (branch relaxation) that must end with a consistent layout;
- order: save and restore of cells while a window is dragged under a pointer.

`PROJECT.json` lists each hazard at its line with the properties that would catch
it going wrong.

## 2. The modules

Arrows of use: `RmfsQueries`, `Shell` and `Browser` extend `Rmfs`; `Input`
composes `I8042`, `Mouse` and `Keyboard`; `Kernel` composes `Console`,
`Interrupts`, `Startup` and `Eword`; `Rmfs`, `Input` and `Editor` are shown
to implement `FileStore`, `ByteRouter` and `TextBuffer`.

| Module | Stands for | Notes |
|---|---|---|
| `FileStore` | the promise of `rmfs.h` | abstract: a function from names to contents, bounded in size, with replies |
| `Rmfs` | `rmfs.c`: init, write, read, rm | slots with their stale data; `find` takes the lowest match; `reply` is what a call returned |
| `RmfsQueries` | count, stat, ls, ls_dir | operators over the table |
| `LoopLemmas` | - | lemmas on loops and sums: that a loop counting up stops at the first match, what a fold passes through, that a sum does not depend on the order |
| `RmfsProofs` | - | theorems of `Rmfs` |
| `I8042` | controller, devices, IRQ latch | external; one buffer with its origin bit, IRQ12 stays latched even if the byte is polled away |
| `Mouse` | `mouse.c` without init | a step is a C statement, `pkt[phase++] = b` is three; runs in two contexts |
| `Keyboard` | the decoding of both readers | a key is its code with the Shift state used for it |
| `ByteRouter` | the promise of `kernel.c:249-252` | abstract: which byte reaches which decoder, how often, and that none stays behind |
| `Input` | program and IRQ12 handler together | `cli`, status, data, `sti` and sorting are steps of their own |
| `InputProofs` | - | theorems of `Input` |
| `Shell` | touch, cp, cat, wc, write, rm, exec | over `Rmfs`, with `shell_iobuf` and the program area, neither ever cleared |
| `ShellProofs` | - | theorems of `Shell` |
| `Browser` | `div` command, browser, viewer, and when the editor saves | the listing is a copy of the folder |
| `BrowserProofs` | - | theorems of `RmfsQueries` and `Browser` |
| `TextBuffer` | what an editor promises | abstract: text before and after a cursor, goal column, file |
| `Editor` | `editor_open` and helpers | the buffer with its stale tail; loops as the place where they stop |
| `Windows` | `win.c`, EWord's loop, the pointer | one window; every call paints cells |
| `WindowsProofs` | - | theorems of `Windows` |
| `Cwa` | `layout`, `_layout_once`, `assemble` | a step per item; ends as the code does, with code or with the exception |
| `ToolProofs` | - | theorems of `Editor` and `Cwa`, the two tools whose models stand alone |
| `Console` | `kernel.c` 54-126, `mouse.c` 124-138 | operators on a screen: cells, cursor and the pointer's block; which cells the block has cost |
| `Interrupts` | `isr.asm`, `idt.h`, the processor | operators on a processor: registers, stack, interrupt flag, requests in service |
| `Startup` | `mouse_init`, `mwait`, `aux_write`, `aux_read` | the port operations as a list that is run step by step; the 8042 and the mouse that answer are external |
| `Eword` | the keys of `eword_open` | input line, armed Tab, meaning |
| `Kernel` | `kernel_main`, the shell's prompt and line editor, the pointer on the console, interrupts and faults, EWord opened from the prompt | one machine from the boot loader's jump to a halt, a reboot or a reset |
| `KernelProofs` | - | theorems of `Kernel` |
| `MC...` | - | the instances for TLC |

How state and actions correspond. Variables bear the names of the C variables;
an action is one call (RMFS, Shell, Windows), one key (Browser, Editor), one
statement (Input, Mouse) or one item (Cwa), with the calls it makes. Names are
sequences of components, so that `valid_name`, folders and prefixes are about
components; file contents are sequences over a small set of bytes. In `Rmfs` a
slot's data is not cleared by a removal and a shorter write leaves the tail of
the longer one, as in the code. `Init` of
`Rmfs` and `Editor` lets the bytes of a free slot and of the editor's buffer be
anything, which covers what earlier files left there. Definitions whose comment says "a bug" are not
part of the system: each is a plausible slip in the definition after it, and
exchanging the two must break the property it is listed with.

## 3. The runs

| Run | Shows | Instance |
|---|---|---|
| `rmfs` | `Rmfs` implements `FileStore` with its return codes; unique names; listings, sums and stat agree with the map | 2 slots, 5 names (one inside the folder of another, one malformed of each kind), contents up to one byte more than fits |
| `input_routing` | `Input` implements `ByteRouter`, liveness included; the pointer ends on the screen; Shift is right with one reader | both readers, key streams of up to 3 codes between 4 mouse bytes, 2 by 2 screen |
| `input_pointer` | packets intact, as far as a motion fits in eight bits, and overlay exact as long as the handler does not meet the program in `mouse.c` or holding a mouse byte | two packets, one with a second byte that looks like a first, one with a motion of +200, whose sign bit is clear; or one packet behind the end of another; one write to the screen by the program |
| `input_lost` | violation: `sti` before `mouse_feed` lets IRQ12 overtake the byte the reader holds | as above |
| `input_stuck_shift` | violation: Shift is pressed while `div_getkey` reads, Esc leaves its caller, Shift is released in the shell's reader, Enter leads back: `div_getkey` returns a key as shifted with no Shift held | press, Esc, release, Enter, `a`; both readers |
| `shell` | messages and output are true of the files, only programs are executed, only the target changes | 2 slots, files of up to 2 bytes, one value ends a string, one ends a line |
| `browser` | the listing is current after every return, the selection on the page, what is opened exists, a save from the browser cannot fail | 4 slots, names at three depths, 2 rows, as many entries as slots |
| `editor` | `Editor` implements `TextBuffer`; the cursor is visible; the loop of `ed_move` in both directions | all texts of up to 5 characters, 2 rows |
| `cwa_layout` | layout ends within branches + 2 passes, is consistent, and what is emitted matches it, in 32-bit code | all programs of up to 4 items of 10 kinds, 6-item cascades, 7-item padding seesaws; reach -5..6 |
| `cwa_drift` | violation: a 16-bit long `jcc` is sized 4 and encoded as 6 bytes | programs of up to 3 items in 16-bit code |
| `kernel` | the typed line and the prompt are on the screen in front of the cursor, and what is above scrolls only, whenever the pointer moves, but for cells its block was on; an interrupt finds its gate and leaves registers, stack and interrupt controllers as they were; the C handlers read the right words of the frame; the machine resets only when a file was written over the GDT; `mouse_init` ends, and without a key pressed meanwhile leaves both devices as they should be; EWord completes to the word of the number picked | screen of 3 by 3, prompt of 1 and lines of up to 3 characters, outputs of up to two lines; the pointer goes to one of two cells, up to twice; 4 words of which 2 are listed and 3 can be picked; a mouse that acknowledges, is absent or silent |
| `windows` | a dragged window keeps what it covers and closing leaves no trace | 4 by 4 window on 5 by 6 cells, each with a value of its own |

The three violations are disagreements between the code and its own comments or
assertions; `PROJECT.json` quotes both sides under `findings`.

Bounds, and why they are enough to be worth something:

- RMFS, Shell, Browser: the code treats slots and names uniformly (first match,
  first free slot), so two to four slots already have holes, reuse, a full table
  and names that share folders. The proofs remove the bounds.
- Input: `MaxWrites` bounds the writes to the screen, the streams bound the
  bytes. A race needs one byte held by the program and one pending; the streams
  have a whole packet more than that, and a key before, between and after. Motions are far
  larger than the screen, so a 2 by 2 screen meets both clips.
- Editor: five characters give up to six rows on a screen of two, and both
  sides of the room that `ed_len < MaxSize - 1` leaves. Proved without the bound.
- Cwa: a reach of -5..6 stands for -128..127 so that a few items are out of
  reach; `MAX_PASSES` keeps its value, 20.
- Kernel: the pointer goes to a cell of the first row or the last cell (`Spots`, 1 and
  8), so that it stands on output, prompt and line, scrolls and is written over; two
  motions (`Motions`) put the block down and take it off again, the second at any
  moment after. A prompt and a line fill more than one row of the three (`KernelAssumption`
  asks that they fit above the last row, as 5 + 127 characters do on 25 by 80), so
  every line that can be typed wraps, scrolls and is erased across an edge. The boot
  loader's line fits on row 0 and the banner ends a line (`BootAssumption`; the texts are
  constants of the code, here sequences over the set `Chars`). Four
  words, two listed, three digits: more match than are listed, and a digit names
  one that is not. File sizes 12, 3640, 4096 stand on both sides of the GDT, whose
  address and that of the file table (28192, 31860) are those of the released image.
  One key is pressed during `mouse_init` (28, Enter, the byte that turns the
  keyboard off when it is taken for the command byte); the BIOS leaves 0x45 or
  0x65, keyboard on and translating, and no key sends 0xFA (`StartupAssumption`: the byte
  is no scan code, and the highest bit of a command byte is reserved). `mwait` asks 100000 times: the model assumes that by then what is to come
  has come, so a wait ends without success only when nothing is on its way.
- Windows: a screen one row and two columns larger than the window, so that
  every drag is clamped on some side and old and new place overlap.

Fairness. `Input!FairSpec` asks for weak fairness of the devices (they send what
is typed and moved), of the program (the processor goes on) and of the handler
(a pending, enabled interrupt is taken and runs to its `iret`); the readers are
called again and again, as the loops of the shell and `div` do (one reader follows the other only after a key
that leaves its caller: Enter, or Esc and the left arrow at the root). Weak fairness is
enough since the loops poll: nothing has to happen at a moment that comes and
goes. `Kernel!FairSpec` asks, while the kernel starts and not later, for weak fairness of
the devices, of a pending, enabled interrupt and of its handler, and for strong fairness
of the program's start: the mouse sends at most some hundred packets a second, so that the program
advances between two interrupts. Nobody has to press a key. `CwaSpec` asks that a sequential program that has a next step takes it. No
other run needs fairness. Deadlock is checked everywhere except in
the two runs of `Cwa`, where the program ends, and in `kernel`, where a fault, a
reboot or a reset stops the machine.

## 4. The proofs

All theorems hold for every value of the constants that the named assumptions
allow, and are checked by TLAPS (SMT, Zenon, LS4).

`RmfsProofs`, from `RmfsAssumption` (at least one slot, contents are sequences of bytes,
the empty component of a name is not a proper one):

- `RmfsInvariant`: `Spec => []Inv`, where `Inv` is the conjunction of types,
  `UniqueNames` (no two slots in use share a name) and `NamesValid` (names in use
  are names that callers pass, and well formed). The last is needed to know that a
  name that is refused is not in the table. `RmfsTypeOK` and `RmfsUniqueNames` follow.
- `RmfsImplementsFileStore`: the table refines the map. Argument: the map is
  `Store`, the content of the slot that `find` returns for each name in use. With
  unique names a write changes one name only (`StoreWritten`), a removal loses
  one only (`StoreRemoved`), and the table is full exactly when the map has
  `MaxFiles` names (`FullTable`, a bijection of slots in use and names).

`InputProofs`, from `StreamAssumption`, `ScreenAssumption`, `PrintableAssumption` and
`InputAssumption` (streams are of bytes, the screen has a cell, the pointer starts on it),
for streams of any length and every moment of the interrupt:

- `InputTypes`: `Spec => []TypeOK`. The types are not inductive alone: that `pkt` is written
  at 0..3 only needs the count of both contexts together (`PhaseInv`: the handler may start
  between the load and the store of `phase++`, from what the program has left there), and
  that a reader sorts a byte it holds needs `ReaderInv` (from status to `sti`, interrupts
  are off, and a byte announced by the status is the byte in the buffer).
- `InputPointerOnScreen`: off the screen the pointer is only between a motion and its clamp,
  where the one who moved it last has put it (`PositionInv`); the handler runs to its end,
  so the clamp that tests a sum of the program's comes to a pointer that is either that sum
  or on the screen.
- `InputRoutes`: `Spec => Router!Spec`. Each step is one of seven as far as bytes are
  concerned (`ByteSteps`), and the bytes sent are those given on, the one a reader has taken
  and the one in the buffer (`KeysInv`, `BytesInv`).
- `InputOverlayExact`: while not raced, one context at most is in `mouse.c`, and for each
  statement it is known what the screen holds (`OverlayStage`).
- `InputPacketsIntact`: a motion sent is a number of nine bits, its sign in the first byte;
  of it the packet applied keeps what fits in eight bits. While not raced, bytes are fed in order (`OrderInv`), and packet
  array, phase and motions applied follow from their number (`PacketStage`). Hypothesis
  `Framed`: the mouse sets bit 3 of the first byte of each packet, as the protocol has it;
  a later packet without it would be skipped, which is what `mouse_feed` means to do.
- `InputShiftAsHeld`: the action property. The state of a reader that has decoded all codes
  says what is held (`ShiftInv`). Hypothesis `OneShift`: one of the two Shift keys is used,
  and no code of it comes after E0. The readers keep one flag for both keys, so with
  both held, releasing one clears it.

`ShellProofs`, from `ShellAssumption` (the files of `kernel_main` fit and have names of
their own, a line typed is shorter than a file, the magic is not empty):

- `ShellInvariant`: `ShellSpec => []ShellInv`. The table stays well formed under any caller
  of `rmfs.c` (`TableOK`, with `WriteKeeps`, `ReadKeeps`, `RmKeeps` of `RmfsProofs`), and the
  staging buffer and the program area hold bytes of which nothing else is known: that is
  the point, since each command must be right whatever they hold. Argument: what is staged
  begins with the file (`StagedFile`); a text ended with NUL behind it prints as the
  text alone (`PrintedEnded`, by the least place that holds a NUL); the code of a write
  tells what became of the map (`WriteStep`). `ShellMessagesTrue`, `ShellOutputTrue` follow.
- `ShellOnlyTargetChanges`: the action property, from the same steps.

`BrowserProofs`, from `DirsAssumption` (names and folders are sequences of components,
folders typed are not empty) and `BrowserAssumption` (the listing and the page have room
for an entry), besides `RmfsAssumption`:

- `RmfsListedFilesOpen`: `Spec => []ListedFilesOpen`. Argument: `rmfs_ls` lists the map
  (`ListOfTable`), `rmfs_ls_dir` picks from that what is below the folder
  (`ListOfFolder`), and what is shown joins to the folder again (`Rejoin`).
- `RmfsCensusAgrees`: `Spec => []CensusAgrees`. Argument: the slots in use and the names in
  use correspond one to one (`SlotsAndNames`), so there are as many of either; the sizes the
  slots record are those of the files; and the two sums, which the library adds up in
  orders of its own, are equal (`SumAnyOrder`, `SumImage`).
- `BrowserInvariant`: `BrowserSpec => []BrowserInv`. The listing is built from the table as
  it is (only a save changes the table meanwhile, and builds it anew), and the folder shown
  has files, so that neither going up (`FolderUp`), nor entering (`ChildOpens`), nor a save
  (`SaveDone`: the file opened exists, its slot is found, no name is added) leads to an
  empty folder or a missing file. `SelectionOnPage` and `OpenedExists` are not inductive
  without it. `BrowserSelectionOnPage`, `BrowserOpenedExists` and
  `BrowserSaveSucceeds` follow.
- `BrowserListingCurrent` has the hypothesis that the listing has room for the table
  (`RMFS_MAX_FILES` is 16, `DIV_MAX_ENTRIES` 32). Argument: after k files, the loop
  of `div_collect` has the entries of these files, each once (`AddNext`, `CollectLoop`).

`ToolProofs`, about the editor, from `EditorAssumption` (buffer and screen not empty, `'\n'` can be
typed, files fit):

- `EditorInvariant`: `EditorSpec => []EditorInv`, the types (cursor inside the
  text, text inside the buffer) with `CursorVisible`. It is inductive as it
  stands: every key ends in `ed_draw`, which puts the cursor's line on the screen
  whatever it was before (`PutKeepsInv`). `EditorTypeCorrect` and
  `EditorCursorVisible` follow.
- `EditorMoveExact`: the loop of `ed_move` moves the bytes as if they did not
  overlap. Argument: after k steps it has moved the bytes of `Reached(k)`, and the
  next byte it reads is not among them, in either direction (`MoveStep`).
- `EditorImplementsTextBuffer`: the buffer refines the text with a cursor, one
  lemma per key. Argument: the text before and after the cursor are two spans of
  the buffer that join to its first `ed_len` bytes (`SpanConcat`); an insertion or
  a deletion moves one span by one place (`InsertRefines`, `BackspaceRefines`);
  `ed_line_no` counts the rows and `ed_col` the column of the text before the
  cursor (`RowIs`, `ColumnIs`); a line number that the text reaches is reached at
  the first place of that line (`LineFromStart`, since the number grows by at most
  one from place to place), so `ed_pos_of` finds the place `TextBuffer` asks for
  (`PosOfPlace`), and beyond the last line it finds the end (`PosOfBeyond`).

`KernelProofs`, from `KernelAssumption` and those of the modules it extends:

- `KernelSetUp`: `Spec => []SetUp`, the order in which the machine is set up: the
  gates before the vectors of the interrupt controllers, both before the interrupt
  flag is set, the handler runs or the shell begins. `ResetOnlyByOverwrite` is not
  inductive: whether an interrupt finds its gate depends on what was set up
  before it could come, and on the lines that can ask for one (`Lines`).
- `KernelResetOnlyByOverwrite` follows: no exception or interrupt meets a missing
  gate, whatever the mouse, the command byte, the files and the faults.
- `KernelCpuInvariant`: `Spec => []CpuInv`. Between two events the processor is the
  program's (`Idle`); in a handler it is what entering for that event has made of it.
  `HandlerTransparent` and `FrameRead` speak of one moment each, before and in the
  handler, so neither is inductive; `CpuInv` says what lies between, the whole stack.
  `FrameRead` names the five words the handlers may read by their field and the twelve
  registers below them by their place. `FaultsAssumption` is used: an error code comes with those exceptions that push one.
  Argument: a list of pushes followed by the pops in reverse order gives back registers
  and stack (`Pushing`, `Popping`, `Registers`), and `add esp` drops the two words of
  the stub. `KernelHandlerTransparent` and `KernelFrameRead` follow, the second from the
  place of each word in the frame (`FieldPlaces`).
- `KernelConsole`: `Spec => []ConInv`. The screen is compared with one that the program
  alone would have written, had there been no pointer: with the block lifted the two agree
  on every cell but those the pointer has cost (`Agrees`, `spoilt`), and what the program
  has still to write (`todo`) brings that other screen (`Run`) to the prompt and the line
  before the cursor (`Holds`) and nothing behind it (`Clean`). `LineShown` speaks of moments
  when nothing is left to write, on the screen as it is, so it is not inductive; the motions
  of the pointer come between any two writes, and change neither that other screen nor what
  is left to write. Argument: each write, scroll, hiding, drawing and motion keeps the
  agreement (`PutAgrees`, `BackAgrees`, `HideAgrees`, `DrawAgrees`, `MotionAgrees`); on the
  screen without a pointer a character put where it is clean leaves it clean and moves what
  is held with it when it scrolls (`CharHolds`), a backspace takes one off
  (`BackspaceHolds`), and a string goes through these one by one (`PrintHolds`, a fold).
  Of the size of the screen only the part of `KernelAssumption` is used that prompt and
  line fit above the last row. `KernelLineShown` and `KernelOutputAboveKept`, the action
  property, follow.
- `KernelCompletesRanked`: the word completed for the digit d has d - 1 matches before it.
  Argument: the matches are picked from the list in its order (`MatchesPick`), so the
  place in the one is the rank in the other (`MatchRanked`).
- `KernelStartInvariant`: `Spec => []StartInv`, the dialogue of `mouse_init` with controller
  and mouse. For each operation it says what command the controller may still hold or expect
  the data of, what the output buffer may hold, and what the mouse owes (`AskMode`,
  `SetMode`, `Tell`, `Hear`, `LeftBehind`), all as long as no byte was replaced before the
  controller took it (`overrun`). `StartUnlessDisturbed` speaks of the end only; that the
  answer then read is the mouse's needs that the buffer was empty when it was asked, and
  that the mode set is the one read needs that no 0x20 is pending any more. The port
  operations are a list, so the proof first finds each by its place (`MouseInitOps`).
  `KernelStartUnlessDisturbed` follows. It uses `CpuInv`: an interrupt during the dialogue
  is impossible, since the flag is off.
- `KernelTypes`: `Spec => []KernelTypeOK`, from these and the types of EWord's line.

`WindowsProofs`, from `WindowsAssumption` (the window and its place below and to the
right of it fit on the screen):

- `WindowsInvariant`: `WindowsSpec => []WindowsInv`, the four properties of the run with
  where the window is and when it is open. Argument: everything is said of the screen
  without the pointer, `Bare`. Drawing and hiding leave `Bare` as it is; since `win.c`
  hides first, what it saves and restores is `Bare` and not the block; putting back the
  saved cells gives the screen from before the window, so that the next save takes
  those cells although old and new place overlap; frame and content change cells inside
  the window, and the content none of the border. `WindowsCoveredKept`,
  `WindowsCloseRestores`, `WindowsBorderWhole` and `WindowsTypeCorrect` follow.

`ToolProofs`, about the assembler, from `CwaAssumption` (programs are sequences of items with a positive
alignment), for every set of programs, origin, reach and number of passes:

- `CwaInvariant`: `CwaSpec => []CwaInv`. Items the pass has visited are in their places
  with the sizes that go with them (`InPlace`), and as long as `stable` holds the labels
  agree with these places and short branches reach (`Settled`). `LayoutConsistent` speaks
  of the end only, and needs both for every prefix. `CwaLayoutConsistent` and
  `CwaCodeMatchesLayout` follow: two of the three assertions of the assembler cannot fail.
- `CwaNoSizeDrift` proves the third under the hypothesis `Encodable`: a branch in 16-bit
  code is a `jmp` to a label of the program. Without it the property is false, as
  the run `cwa_drift` shows.
- `PassInvariant`: `CwaSpec => []PassInv`. A branch once long stays long, and a pass that
  makes none long finds every item where the pass before left it (`Steady`), so that no
  label moves and the pass is the last. Hence every pass but the first and the last makes
  a branch long: `CwaPassesBounded`, and `CwaConverges`: a program without duplicate labels
  and with at most `MAX_PASSES - 2` branches is never refused with "layout did not
  converge". Padding and alignment may shrink while a branch grows; the argument does not
  rest on addresses that grow, but on the set of long branches.

Loops that carry a value along are folds in the models (`FoldLeft`), which the library
defines by a function on sets of indices. `LoopLemmas` shows once, by induction on the number of steps
(`AllNumbers`, with the set of the numbers a property holds of in place of the
property), that this function exists (`FoldExists`) and passes through the values that the steps
give (`FoldTrace`); a proof about a loop then goes from step to step.

Only model-checked: liveness (`Terminates`, `StartupEnds`, the fairness part of
`ImplementsRouter`), which is out of the prover's reach. Every other property that a
passing run checks has a theorem, some under a hypothesis that is named above and that
the code or its users justify. What is particular to a run remains: that the initial
states and inputs of the instance are those of the program, and that the hazards really
occur, which the mutants listed in `PROJECT.json` show.

## 5. What is not modelled, and limits of what is

- **Boot loader, ISO writer, build**: straight-line code. The BIOS has put
  loader and kernel in memory (El Torito); the loader copies 48 sectors from
  0x7E00 down to 0x1000..0x7000, forwards, and enters protected mode. `Interrupts` and `Kernel` take
  from it the segment registers, the GDT and the line on the screen.
- **Startup**: the mouse answers each command with one byte or never. A key pressed
  before the readers run is one byte, without the release that follows.
- **Kernel**: a reader is one step (`Input` has its inside), and a command is a step that
  decides what it will write. Every write to the screen (a character with the scroll it
  causes, a clear, hiding and drawing the block) is a step of its own, whole: interrupts
  come between two of them, not inside; `Input` has the statements of `mouse.c` one by one.
  What EWord and the block on its window paint is in `Windows`, and interrupts do not move the
  pointer of `Kernel` while EWord is open. The message of `reboot` is left out.
  `vga_set_cursor`, colours and the adapter's own cursor are left out. EWord's
  "no window slots" is left out: nothing else opens a window, and the slots are
  taken to start free (see `wins` below).
- **Shell, other commands**: `help`, `ver`, `iso`, `echo`, `time`, `beep` and `mem`
  print, which `Kernel!Prints` stands for; the choice of the layout by `kb`, and
  how a line is split into words, are left out.
- **Lines longer than 80 columns** wrap on the screen while `ed_draw` counts rows
  by `'\n'`: `CursorVisible` speaks of lines, so the cursor of a long line can be
  below the last row of a real screen.
- **Browser**: a folder typed with more than 32 characters is cut by
  `rmfs_ls_dir` and not by `div_browse`; typed folders in the model are short.
- **Windows**: one window, as EWord opens one; IRQ12 inside a call of `win.c` is
  left to `Input`, which has the same race statement by statement.
- **Cwa**: other instructions have a fixed size; `push` and arithmetic with an
  immediate choose theirs by the value of a symbol. Relocations are the place
  and the symbol only.
- **Shell**: what `exec` runs is not modelled, only that it runs what was loaded;
  in `Kernel` it draws a cell or faults.

Met while reading, without a property of their own: `touch` prints "bad file
name" when the table is full (`kernel.c:580-591`); the error of `div x` is erased
by the `vga_clear` after it (655); the layout of EOSCWA is not always the
smallest, since a target ahead is measured with its address of the pass before;
more than 18 branches that push each other out of reach one at a time would need
more than the 20 passes; `boot.asm:34` and `kernel.c:695` name sector counts that
differ from the 48 that are read; `idt.h:7` says that IRQs stay off, and IRQ12
does not. Further:

- **The GDT lies in the file table.** The image (19740 bytes at 0x1000) ends below
  the boot sector, but `.bss` behind it does not: the data of slot 0 covers the GDT
  at 0x7C74, so a file longer than 3640 bytes in that slot overwrites the descriptors
  and the next interrupt or fault resets the machine. The ceiling of
  `boot.asm:50-52`, which `mkiso.py` enforces, is about the image only.
  `ResetOnlyByOverwrite` shows that nothing else resets it.
- **A key during `mouse_init`** may be read as the command byte (`mouse.c:70`) and,
  written back, turn the keyboard off or its translation; `StartUnlessDisturbed` holds
  for the start without a key. `mouse.c:75` writes 0xA8 without waiting, so that it
  can replace the command byte in the controller before it is taken; the property
  excludes that too. An acknowledgement left by a dialogue that was given up is later
  fed as a packet's first byte (0xFA has bit 3 set).
- An IRQ12 whose byte the reader polls away becomes a spurious IRQ15, for which
  there is a gate and a stub: `Kernel!PollByte` has it.
- Console text printed where the pointer's block is gets erased by `mouse_hide`, which
  puts back the older cell (`mouse.c:135`), and a block that scrolls stays behind as a ghost.
  `LineShown` and `OutputAboveKept` say that nothing else is lost: `spoilt` holds these cells.
- `mouse.c:98-99` says that the sign bits of the first byte "just confirm" the sign of
  (signed char): they do not for a motion outside -128..127, which changes its direction.
- `fault_regs_t` (`idt.h:14-18`) names the words below `int_no` as if the segments had been
  pushed last. `isr.asm` pushes them first, so that `gs` to `ds` hold edi, esi, ebp and esp,
  `edi` to `esp_dummy` hold ebx, edx, ecx and eax, and `ebx` to `eax` hold gs, fs, es and ds.
  The two handlers read none of these twelve; `FrameRead` says what is where. `useresp` and
  `ss` are not pushed at all, since the processor stays in ring 0.
- EWord: Tab and 9 complete to the ninth match, of which the list shows eight; keys
  from 128 on (arrows, F2) are inserted, where `eword.c:342` says that they are ignored;
  Enter on a word takes the first match, which may be a longer word before it in the
  list; the meaning of an earlier completion stays while the line is edited.
- `kernel_entry.asm:24-29` leaves `.bss` as it is and asks its users to initialise
  themselves, and `wins` of `win.c` does not; `rmfs.h:6` says that it is zeroed.
- `idt.c:61` says that the EOI was sent by the stub; the stub sends it afterwards.
- `vga_put_at` sign-extends a character from 0x80 on, which sets its attribute to 0xFF.
- `time` reads the clock without looking at its update flag.
- The header of the demo says that the shell owns the rows above 10, and the shell
  prints on every row.

## 6. Plan

Order, most important behaviour first; the first ten are done, and the proofs as marked.

1. RMFS and `FileStore`, with proofs. 2. The input path and `ByteRouter`.
3. Shell commands. 4. Browser. 5. Editor and `TextBuffer`, with proofs.
6. EOSCWA layout. 7. Windows with EWord's loop.
8. `Console` with the line editor of the shell. 9. EWord's completion.
10. `mouse_init`, the interrupt stubs, and `Kernel`, which composes them.
11. Proofs about `Kernel`: interrupts, the console, EWord's completion, `mouse_init` (done).
12. Proofs: `Cwa`, `Windows`, `Shell`, `Browser`, `RmfsQueries` and `Input`, with the safety
    part of `ByteRouter` (done).
13. What would say more: a `ByteRouter` for two Shift keys, so that `OneShift` can go; more
    than one window; the size of `push` and of arithmetic with an immediate in `Cwa`.
