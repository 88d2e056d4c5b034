# MiniOS in TLA+

Specifications of the MiniOS kernel (`src/kernel`, `src/boot`), the TLC
configurations that check them and the proofs that TLAPS checks. Line numbers
are those of the sources beside this directory.

MiniOS is one 32-bit kernel image: boot code, descriptor tables, drivers for
the 8259, the timer, the keyboard, the mouse and the VGA text screen, a heap, a
file system in memory and a shell. There is one thread, `kernel_main` and then
the shell for ever. Everything else happens in interrupt handlers, which run
with interrupts disabled and share their variables with that thread without any
lock.

## 1. Inventory

| Part | State | Operations | Talks to |
|---|---|---|---|
| keyboard driver (`keyboard.c`) | ring `kb_buf`/`kb_head`/`kb_tail`; `shift_held`, `capslock_on`, `numlock_on`, `e0_mode` | IRQ 1 handler, `keyboard_install`, `keyboard_getchar`, `keyboard_readline` | 8042, PIC; calls the screen's scrollback from its handler |
| interrupt path (`pic.c`, `idt.c`, `interrupts.asm`) | request, mask and in-service bits of two 8259s; the gates; the handler table; IF; the interrupt frames | remap, mask/unmask, EOI, dispatch, `sti; iret` | every driver |
| boot (`boot.asm`, `kernel.c`) | order of installation | `kernel_main` | every driver |
| GDT (`gdt.c`) | constant table | `gdt_install` | - |
| timer (`timer.c`) | `timer_ticks`, `timer_freq` | IRQ 0 handler, `timer_install`, getters | wakes `hlt`; shell reads ticks |
| mouse (`mouse.c`) | packet of 3 or 4 bytes, cycle; the 8042's command byte and output buffer | IRQ 12 handler, polled installation | shares the 8042 with the keyboard; calls the scrollback |
| heap (`memory.c`) | block list, `heap_used` | `memory_init`, `kmalloc`, `kfree`, stats | nobody allocates yet but `memo` reports it |
| helpers (`memory.c`) | the seed of `rand` | mem*, str*, itoa, atoi, rand | everyone |
| screen (`screen.c`) | page, cursor, history ring, view and its snapshot | putchar, clear, setcursor, scroll up/down, printf | main thread and both input handlers |
| MiniFS (`filesystem.c`) | 32 slots | create, create_dir, write, read, delete, is_dir, listings | shell, editor |
| shell files (`shell.c`) | `current_dir`, locals | new, edit, write, see, del, deld, cpy, mov, rename, look, goto, mkd, notes, fm, cnt, hunt, top, btm | MiniFS |
| editor (`editor.c`) | `edit_buffer` | load or create, keys, save | MiniFS, screen, keyboard |
| prompt (`shell.c`) | line buffer, cursor, `shell_history` | `shell_readline`, history of `shell_run` | keyboard, screen |
| small commands (`shell.c`) | todo list, colours | calc, todo, passgen, ... | screen |

What is hard here: the ring and the screen are shared between handlers and the
main thread without a lock; interrupts come during boot, before drivers are
ready; `hlt` races with the key it waits for; a line of the 8259 that misses an
edge or an EOI is dead for good; fixed-size arrays (ring, history ring, file
slots, line buffer, shell history, to-do list) fill up and wrap; commands made
of several file operations can fail half-way; the mouse's installation polls a
port that the keyboard answers on too; the editor's screen is never drawn from
its buffer. `PROJECT.json` lists each hazard at its line
with the properties that watch it.

## 2. Modules

| Module | Models | Checked by | Proved in |
|---|---|---|---|
| `KeyQueue` | abstract: a bounded FIFO that drops when full | - | - |
| `KeyRing` | ring of `keyboard.c`; `keyboard_getchar` statement by statement | `KeyInput` | `KeyInputProofs` |
| `ScanCode` | decoder of the IRQ 1 handler (pure) | `KeyInput` | - |
| `Interrupts` | 8259 pair, gates, stubs, boot order | `KeyInput` | `KeyInputProofs` |
| `KeyInput` | the three composed with devices and main thread | `KeyInput` | `KeyInputProofs` |
| `Heap` | `kmalloc`, `kfree`, one loop iteration per step | `Heap` | `HeapProofs` |
| `FileStore` | abstract: a bounded map from names to files | - | - |
| `FileTable` | slots of `filesystem.c` | `FileTable` | `ShellFilesProofs` |
| `Terminal` | abstract: an atomic terminal with a history | - | - |
| `Screen` | `screen.c`, row by row, with scroll interrupts | `Screen`, `ScreenLost`, `ScreenTab` | `ScreenProofs` |
| `ShellFiles` | file commands and editor's buffer over `FileTable` | `ShellFiles` | `ShellFilesProofs` |
| `Listings` | what `laf` and `dtree` show of the same table | `ShellFiles` | `ShellFilesProofs` |
| `MiniEdit` | `editor.c` over `Terminal`: buffer and what is drawn | `MiniEdit` | `MiniEditProofs` |
| `CommandLine` | abstract: a line of two sequences and the last lines | - | - |
| `LineEditor` | `shell_readline` and the history array | `LineEditor` | `LineEditorProofs` |
| `Ps2` | external: 8042, PS/2 mouse, the two interrupt lines | `Mouse` | `MouseProofs` |
| `Mouse` | `mouse.c`: polled installation, packets; the keyboard handler's read | `Mouse`, `MouseKeyboard` | `MouseProofs` |
| `Numbers` | `itoa`, `utoa`, `atoi`, padding, with ints of any width (pure) | `SmallCommands` | `SmallCommandsProofs` |
| `TextView` | `top`, `btm`, `cnt`, `hunt` (pure) | `SmallCommands` | - |
| `SmallCommands` | the to-do list, `calc`, `alive`, and the commands of `TextView` | `SmallCommands` | `SmallCommandsProofs` |

The abstract modules say what a caller relies on; the detailed module
instantiates them under a refinement mapping (`ImplementsQueue`,
`ImplementsStore`, `ImplementsLine`). `Screen` runs `Terminal` beside it as a
history variable instead, because what it shows is only promised while no
interrupt falls inside a call.

### How state and steps correspond to the code

* **Interrupt handlers** are entered through interrupt gates and run with IF
  clear. A handler's own work is therefore one step (`KeyboardIrq`,
  `ScrollIrq`); entry (`Deliver`), handler, EOI, `sti` and `iret` are separate
  because others can come between. After `sti` comes one instruction that
  cannot be interrupted (`StiShadow`).
* **The main thread** is interruptible between statements: `keyboard_getchar`
  has a step for the test, `hlt`, the read and the advance; `scroll`, `clear`
  and the redraws have a step for each row. File and heap operations touch
  nothing a handler touches, so a file operation is one step and commands are
  divided at the calls they make. The steps of `Heap` are the loops'
  iterations, to check that they end.
* **The mouse's installation** is a script of port accesses (`Script`), one
  step each, between which keys are pressed and answers arrive. A wait is given
  up only if nothing is in the output buffer (`GiveUp`): nothing will come, or
  it comes later than the count lasts; then port 0x60 gives its last byte
  again. `Ps2` follows QEMU, on which the project runs: the status bits follow
  the last byte read, and an interrupt line once raised stays latched in the
  8259 although its byte was polled.
* **The same installation in `KeyInput`** is two steps, since what matters there
  is what it does to the keyboard: `MouseCommand` polls the command byte, or a
  scan code or a stale byte in its place, and writes it back; `MousePolls` takes
  or replaces what is in the buffer. `Mouse` has the steps in full.
* **Two models of the editor**: in `ShellFiles` its calls of MiniFS and its
  buffer, in `MiniEdit` its buffer and its terminal. In `MiniEdit` the file
  system is one file; creating it may fail.
* **Listings** are operators, evaluated in every state of `ShellFiles`: what
  they print depends on the table alone.
* **Pure commands** of `SmallCommands` are steps that change `asked` and
  `shown` only. `calc` can halt the machine (`halted`).
* **Failure** is a disjunct of the operation (`Fail`, `OutOfMemory`,
  `DropWhenFull`), taken under the negation of the code's condition.
* **Faulty variants** next to each module's definitions are bugs a programmer
  might make there; each property of each passing run is tried against one.

## 3. Runs

| Run | Bounds | What it shows |
|---|---|---|
| `KeyInput` | ring of 4, 4 scan codes of a letter and shift | No handler nests and none runs before it is installed; the reader owns its slot; the ring is a FIFO; every stored key is returned. A byte in the 8042 has its interrupt coming and is read, unless `mouse_install` cleared the keyboard's interrupt in the command byte. |
| `Heap` | 88 bytes, header 12, requests 0, 1, 8, 13, 28 | The list tiles the heap, the allocated blocks are those callers hold, each as large as was asked for, no two free neighbours between calls, `heap_used` exact, NULL only without a gap, both loops end. |
| `FileTable` | 3 slots, 4 valid names and an invalid one, 2-byte buffers | The table implements `FileStore`; names unique; no stale byte is readable. |
| `Screen` | 2 rows of 4 columns, history of 3, 5 calls, 3 scrolls | Indices stay in range under every interleaving; undisturbed, nothing printed is lost and the scrolled view is a window on history and page; calls return. |
| `ScreenLost` | the same | Finding: a scroll inside `scroll()` or `terminal_putchar` loses text. |
| `ScreenTab` | the same, 2 calls, no scroll, tab anywhere | Finding: a tab in the last stop never ends. |
| `ShellFiles` | 3 slots, 2-byte files, 3 arguments | `current_dir` stays absolute; moves keep the content; copies fill only files they created; saves are complete; `dtree` shows each entry its directories lead to once, after its directory, and `laf` the same children. |
| `Mouse` | no mouse, a plain one, one with a wheel; keys "2" and "A"; 3 reports; 2 waits given up | Packets of four bytes only from a wheel; a byte in the output buffer has its interrupt coming, unless the command byte disables the keyboard's; the wheel's direction; the framing comes back. |
| `MouseKeyboard` | the same, no wait given up | Finding: a key pressed at the wrong time becomes the controller's command byte. |
| `SmallCommands` | 2 tasks; ints of 16 bits; texts of up to 4 characters | The list shows the tasks since the last clear; `calc` and `alive` show the right number; `top`, `btm`, `cnt` and `hunt` the right lines. |
| `MiniEdit` | 5 rows of 2 columns, 6-byte files, a short and a long header | The page ends with the text that will be saved, the cursor after it. |
| `LineEditor` | lines of 3 characters, history of 2, 3 rows of 2 columns | The in-place shifts and the history array implement `CommandLine`; the screen follows the line through wraps and scrolls. |

Why the bounds are enough for the cases that matter:

* A ring of four fills, drops and wraps with four codes; the code's 256 differs
  by its size only, which the proofs leave open. Scan codes are bounded by
  `MaxScan`; timer and mouse interrupts are not bounded.
* In `KeyInput` a byte polled for the command byte may be any code or the last
  byte read: the letter's 35 leaves the keyboard enabled, the shift key's 42
  clears its interrupt, an old acknowledgement stops its clock; 69 is a command
  byte of the firmware.
* The heap holds four blocks, so every pattern of free and used neighbours
  around a freed block occurs; 12 + 8 bytes is the split threshold on either
  side of which requests fall.
* Three slots fill; names that meet in one slot, a delete in the middle and a
  create in the hole all occur. Contents are shorter and longer than a buffer.
* Two rows scroll at every second line, a history of three wraps within five
  calls. `VGA_COLS` is two tab stops.
* `ShellFiles` fills its table with a file and a copy, so every creation can
  fail. Its `VIEW` leaves out `ret`: no step reads it as an earlier step left
  it. Paths outside `Name` are left out (`Within`, `CmdMov`).
* In `ShellFiles` directories go one deep below "/" and entries two
  components; deleting the directory of an entry and making it again occur.
* In `Mouse` scan code 30 as a command byte clears the keyboard's interrupt bit
  and sets its clock's disable bit, scan code 3 is the wheel's ID, and one
  report has bit 3 set in every byte that may start a packet by mistake. Two
  waits given up shift the answers by two questions.
* `SmallCommands` has numbers next to both ends of an int, whose products
  overflow it many times; four ticks a second reach a hundred hours. Its `VIEW`
  leaves out what was asked and shown, which no step reads; its properties are
  action properties, so TLC evaluates them on every step.
* In `MiniEdit` the two columns wrap at every second character, a page of five
  rows has one or two below the header and scrolls, and the bell is printed in
  the last column and in the last row. Its `VIEW` leaves out the page where
  opening a file clears it before anything depends on it.
* In `LineEditor` prompts end in the first or last row (`PromptEnds`), and a
  line the screen no longer follows is only entered once it scrolled off
  (`OnScreen`).

Deadlock is checked except in `Screen*`, where bounded calls and scrolls let
the model stop, in `Mouse*`, where a wrong command byte can switch the keyboard
off on a machine without a mouse, and in `SmallCommands`, where `calc` can
raise exception 0, which halts.

What the properties leave out, because the code does otherwise:

* `IdIsVerified`: a pressed "2" that `mouse_install` polls counts as the
  wheel's ID.
* `NoStrandedByte` (of both runs) and `EveryScanIsRead`: a command byte without
  the keyboard's interrupt. `mouse_install` writes back what it polled
  (`mouse.c:88-96`), and a scan code polled there may clear that bit; the next
  byte of the keyboard then stays in the 8042. That this happens is the finding
  of `MouseKeyboard`; these properties say that nothing else silences the
  keyboard.
* `ScrollsFollowWheel`: after a byte went to the keyboard's handler, or a late
  answer came as packet data, `Resyncs` says what happens: framing returns with
  a report of no movement, whose later bytes have bit 3 clear.
* `NumbersAreShown`: a first operand with a sign. `calc` divides the line at
  the first operator, so `-5 + 3` is 0 - 5. Operands that are no ints wrap;
  `2147483648 / -1` raises exception 0.
* `ViewersShowLines`: an n within the file's length of the smallest int, where
  `btm` wraps and shows the whole file.
* `ScreenShowsBuffer`: erasing a newline puts the cursor at the end of the row
  above, not after the line's text (`editor.c:159`).
* `SavesAreComplete`: `notes new` with the table full or a directory of that
  name prints "Saved." and stores nothing (`shell.c:522`).
* `UsedIsAllocated`: a block freed twice, which the model's callers do not do.
  `kfree` has no guard (`memory.c:84-85`), so `heap_used` would drift.
* `LiveHoldsRequest`: requests within seven bytes of 2^32, rounded to 0
  (`memory.c:40`); no caller makes one. `NoRequestWraps` says so, and TLC
  checks it of the run's requests.
* `cnt`, `hunt` and `fm` do not resolve names (`shell.c:576`, `893`, `924`):
  in the model they do as in the code, so `cnt` finds absolute names only.

`ScreenFollowsLine` leaves out one key, a character typed before others whose
tail scrolls the screen (`InsertionScrolls`; a recalled line that scrolls is
not left out): `shell_readline` restores a row saved before the
scroll (`shell.c:156-167`), and the cursor is a row too low until Enter. No
document promises otherwise, so it is a hazard and not a finding.

### Fairness

* `KeyInput`: the CPU executes (weak fairness of boot and of handler steps); a
  timer programmed at 100 Hz ticks for ever (weak); a requesting line is
  eventually delivered and the main thread eventually runs (strong: handlers
  disable both again and again, for a bounded time each). No key has to be
  pressed. `ticked` says that a tick is slow beside the CPU: the next comes
  when what was requested is served and the main thread ran or sleeps. Without
  it a timer could starve the keyboard, which a 10 ms period excludes.
* `Heap`, `Screen`: weak fairness of the steps inside a call only. Nobody has
  to call.
* `Mouse`: weak fairness of the installation's next step and of each of the two
  handlers: boot goes on, and a requested interrupt is delivered (`KeyInput`
  shows why). Devices need not do anything; `Resyncs` assumes in its premise
  that reports of no movement arrive again and again.
* `FileTable`, `ShellFiles`, `SmallCommands`, `MiniEdit`, `LineEditor` state
  safety only.

## 4. Proofs

Each theorem holds for every value of the constants that satisfies the named
assumptions of its module; TLC evaluates these on the runs' values. The
arguments are inductive: the listed strengthening holds at first, every step
keeps it, and it implies the property. TLC checked each strengthening on the
run's instance before it was proved.

| Module | Invariants, actions | Refinement | Assumes |
|---|---|---|---|
| `KeyInputProofs` | of the ring: type, `ReaderOwnsSlot`; of the whole path: `TypeOK`, `HandlersDoNotNest`, `NoEarlyInterrupt`, `NoStrandedByte`, `ReaderOwnsSlot` | `ImplementsQueue`, of both | a ring of at least 2; the lines are the pair's, without the cascade (`LinesAssumption`), codes are bytes whose characters are in `Char`, the firmware leaves the keyboard enabled (`CodesAssumption`) |
| `HeapProofs` | `TypeOK`, `BlocksTile`, `NoAdjacentFree`, `LiveHoldsRequest`, `NullOnlyWithoutGap`, `UsedIsAllocated`; `LoopsAdvance` | - | a header fits the heap (`HeapAssumption`), no request wraps when aligned (`NoRequestWraps`) |
| `ShellFilesProofs` | of the table: `FsTypeOK`, `UniqueNames`, `OnlyWrittenBytes`, names valid; of the commands: `ShellTypeOK`, `MoveKeepsContent`, `CopiesOverwriteNothing`, `SavesAreComplete`; of the listings: `ListingsShowTheTree` | the table implements `FileStore` (`ImplementsStore`); the shell is a client of it (`ShellUsesStore`) | `Root` is a valid name, the empty one is not; absolute paths are valid names (`PathsAssumption`); different components differ to `strcmp` (`RankAssumption`) |
| `LineEditorProofs` | `TypeOK`, `ScreenFollowsLine` | `ImplementsLine` | the screen holds the longest line above its last row |
| `MiniEditProofs` | `ScreenShowsBuffer` | - | a file without newlines fits the page (`MiniEditAssumption`); what is typed, the rule and a header are no control characters (`EditorCharacters`) |
| `MouseProofs` | `TypeOK`, `IdIsVerified`, `NoStrandedByte`, `ScrollsFollowWheel` | - | the first byte of a report has bit 3 set (`Ps2Assumption`: the PS/2 protocol) |
| `ScreenProofs` | `TypeOK`, `UndisturbedScreenShowsText`, `ViewIsWindow` | - | tab stops divide the row; a printable character is no control character |
| `SmallCommandsProofs` | `TodoListIsKept`, `NumbersAreShown` | - | at least one slot; no task begins or ends with a quotation mark (`TaskAssumption`); an int has an even number of values (`WidthAssumption`); numbers are figures, blanks are spaces, the timer ticks (`CalcAssumption`) |

The arguments:

* **Ring.** `RingInv` adds to the type that the reader past its test finds the
  ring not empty and its character still in its slot, and that every waiting
  slot holds a stored character; without the last the fetched character need
  not be one. The lemmas about `%` (`OneTurn`, `SuccValue`, `SlotAtValue`,
  `SlotShift`) and about the waiting sequence carry the refinement.
* **Input path.** A store is one step because handlers do not nest, so
  `KeyInput` implements the ring, and through it the queue. `IntInv` makes the
  properties of the interrupt path inductive: before boot ends IF is clear, a
  line that is not masked has its handler registered, and in a handler's frame
  IF is set only between the stub's `sti` and its `iret`. `NoStrandedByte`
  holds from the moment `keyboard_install` has drained the 8042
  (`NoByteStrandedSinceDrain`), for every byte that `mouse_install` may poll and
  write back: a byte comes with its edge as long as the command byte has the
  keyboard's interrupt, and only `mouse_install` changes that.
* **Heap.** `HeapInv`, at each iteration of the two loops: the list follows
  the heap from its start to its end (`BlocksTile`, `Covered`), the allocated
  blocks are those that callers hold (`LiveIsAllocated`), no two neighbours are
  free except where the merging pass has not come by (`Coalesced`), and the
  search has passed over nothing that fits (`Searched`). `LargeEnough` is apart:
  a found block is as large as what was asked, which needs `NoRequestWraps`.
  `heap_used` is compared with a sum over addresses, where an address that no
  allocated block starts at costs nothing: a split, a merge or a free changes
  the cost of one or two addresses, and the sum by as much (`UsedNeverDrifts`).
  `LoopsAdvance` is what termination rests on: each iteration of the search and
  of the merging pass moves on along the heap, which ends.
* **Files.** `SlotsOK` follows the written bytes slot by slot; `StoredShape`
  says that a name leads to one slot, so that each call of `filesystem.c` is
  the call, or the failure, of the map.
* **Shell.** `ShellInv` keeps the table's invariant under the shell's calls and
  adds what each command knows between two of them (`JobIsUnderWay`): until a
  copy is written its source holds what was read and its destination is a file
  just made, empty and another than the source; a source about to be deleted
  has its content under the other name; what is edited is a file. The
  properties of the moves, copies and saves are read off it. The same
  invariant shows that each step of the shell is one call of `FileStore` or
  none (`ShellUsesStore`).
* **Listings.** They are operators on the table, so `FsInv` is all the
  invariant they need; the work is in the operators. The recursion of
  `fs_print_tree` is well defined because a name in the table is longer by a
  component than its directory's, and the table is finite (`TreeExists`,
  `TreeUnfolds`). By induction from the deepest directory up, what is printed
  below a directory is exactly what `Reaches` it, without repetition and in
  tree order (`TreeIsShaped`): children are sorted (`OrderedElements`), each
  branch keeps to names that begin with its child's (`ChildLeads`), and
  concatenation keeps the order of the pieces (`FlattenPlaces`).
* **Editor.** `EditInv` compares the terminal with a second one on which the
  buffer was printed afresh below the same header (`Linked`): page and cursor
  agree up to whole rows that scrolled off (`Agree`). Erasing needs more than
  that, as the text that a backspace uncovers must still be on the page:
  `RoomAbove` says that the rows above the cursor hold the text since the last
  newline, which is where `MiniEditAssumption` comes in.
* **To-do list.** `TodoInv` says of each slot in use that it shows the task in
  its place; slots behind them hold whatever was there before the list was
  cleared, and `todo add` overwrites all of it. An `id` leads to the slot
  before it, so that `todo done` marks the right task (`Min` of one place).
* **Numbers.** No state is involved: what each conversion computes, for every
  string and every number. `ValueIs` and `AccumulateIs` unfold the two readings
  of digits, `AccumulateInRange` compares them: reading digit by digit stays
  exact as long as the number is an int, and one beyond the largest becomes the
  smallest, which `atoi` negates into itself (`AtoiNegative`). `utoa` is
  unfolded in `UtoaUnfolds` and writes each number without leading zeros
  (`UtoaIsNumeral`); with `UnsignedOpposite`, `itoa` writes every int
  (`ItoaDenotes`), the smallest included. `SplitAtOperator`, `SpacesSkipped`
  and `DigitsFound` say how a line is taken apart, for blanks of any length.
  `ClockReads` puts the three numbers of `alive` in their places.
* **Prompt.** `LineInv` adds that what is typed so far has no `NUL` in it. Each
  shift of the buffer is then compared, index by index, with the sequence
  operation of `CommandLine`, and the history array with its bounded past.
  `PlaceInv` is about the screen: the distance from the cursor to where the
  next key acts is a number of whole rows, not below zero, and the line ends
  above the end of the screen. It is needed for `ScreenFollowsLine`, because a
  step right from the last cell would otherwise lose the line; it also shows
  that the key left out there costs whole rows and never a column.
* **Mouse.** `MouseInv` follows the installation's script: which bytes the
  queues can hold at each of its 23 steps, where a 3 on its way comes from
  (`IdInv`), and which byte has its interrupt requested (`IrqInv`). `SyncInv`
  says that packet, port and queue together are one report from its first byte
  on, as long as nothing disturbed it; bit 3 of the first byte is what the
  handler's resynchronisation tests.
* **Screen.** `ScreenInv` gives each phase of a call its part of the Terminal's
  result: the rows already brought back (`RedrawOK`), blanked (`FillOK`), moved
  up (`MoveOK`), or the whole page still to be moved (`ScrollOK`). `SavedLine`
  shows that one write into the ring of history lines appends to the past and
  drops the oldest; `ViewShowsWindow` that `redraw_scroll`'s indices make a
  window. Types hold under every interleaving; the rest while `disturbed` is
  false, as `ScreenLost` shows it must.

Induction over the natural numbers is used in the form of a fact about sets
(`SetInduction`: a subset of `Nat` with 0 that is closed under successor is
`Nat`), which follows from the well-foundedness of `<`: the set is that of the
numbers for which a statement holds. It serves for the recursive functions of
`Heap`, `MiniEdit`, `Listings` and `Numbers`.

Only model-checked:

* All liveness (`EveryScanIsRead`, `StoredKeyIsReturned`, `CallsReturn`,
  `Resyncs`): fairness and ENABLED are out of the prover's reach.
* `ViewersShowLines`: what folds over a text compute.

## 5. Not modelled

The GDT and the Multiboot header (constant), `pic_mask_irq` (never called),
spurious interrupts of the 8259, what an exception prints, colours, the cursor
registers of the CRT controller, the serial mirror, row 25 of the screen (the
driver uses 24), the `%x` and `%s` of `terminal_printf`, `fs_list_notes`, the
mem* and str* functions (sequences in the models), `rand` and what draws from
it (`passgen`, `flip`, `dice`: 32-bit products beyond TLC's integers), `color`,
`date`, help texts and the dispatch on the command word. In the shell, arguments
longer than a buffer (`strncpy` to 32 or 64 bytes) and names with a trailing
slash. In the mouse driver, the waits for the input buffer, which change
nothing. In the keyboard, what the characters are: a character is the table
entry it comes from.

## 6. Plan

Done: input, heap, files, listings, screen, file commands, editor, prompt,
mouse, the small commands with state or arithmetic, and the proofs of section
4, which state every safety invariant that a run checks. What is left:

1. What the walks over a text (`top`, `btm`, `hunt`, `cnt`) compute, for every
   text.
2. As models, `keyboard_readline` with its echo over `Screen`, and the shell's
   dispatch, which has no state of its own.
