# Illinix 391 in TLA+

A verification development for the kernel in `src/student-distrib`: TLA+
specifications of its concurrent and stateful parts, TLC configurations that
check them on small instances, and TLAPS proofs of the most important results
for every value of the constants. File names below are relative to
`src/student-distrib` unless they start with `src/`.

Illinix is a uniprocessor x86 kernel with three text terminals. A base shell runs
on each; programs nest by `execute()` and return by `halt()`; the timer
interrupt switches terminals round robin; the keyboard belongs to the terminal
on the screen. Nothing takes a lock. System calls and exceptions enter through
trap gates, so they run with interrupts enabled and are preempted anywhere;
interrupt handlers run through interrupt gates and are atomic. That asymmetry is
where the hard behaviour comes from.

## Inventory

| component | state | operations | interacts with | should be true |
|---|---|---|---|---|
| process management (`syscall.c` 71-252, `lib.h`) | `pcbs[]`: present, parent, ebp, esp0; user page; TSS | `execute`, `halt` | called by programs, by `pit_handler` for Ctrl+C, by every exception handler | one line of callers per terminal; a slot is owned by one process; the machine is set up for the running process |
| scheduler (`sched.c`) | `terms[].pid`, `to_be_halt`, `active_term_id` | `initiate_shells`, `pit_handler` | switches stacks in the middle of anything | the next process has a frame to resume; every terminal gets its turn; Ctrl+C is acted upon |
| terminal switching (`lib.c` 316-366) | `shown_term_id`, video pages, coordinates | `switch_terminal` | called inside `keyboard_handler`, before its EOI | as above; screens do not mix |
| keyboard (`keyboard.c`) | `terms[].input`, IRQ1 in service | `keyboard_handler` | `putc`/`echo`, `switch_terminal`, `terminal_read` | the line fits its buffer; the EOI is sent |
| terminal driver (`term.c`) | the line buffer | `terminal_read`, `terminal_write` | busy-waits for the keyboard | a read needs an Enter of its own; what is typed while it looks at the length is all that it can pass the caller's buffer by |
| screen output (`lib.c`, `vidmap`) | pages, two mappings, `screen_x/y`, `cursor` | `putc`, `echo`, `clear`, `vidmap` | both handlers above and every program | a display shows only its terminal's output, at the right place |
| real-time clock (`rtc.c`) | `rtc`, `rtc_fired`, `rtc_curr`, `rtc_rate` of each pcb | `rtc_handler`, open, close, read, write | busy-waits for the handler | no read returns early; a read returns |
| file contents, disk (`filesys.c`) | inodes, data blocks, bitmap, ATA disk, `file_pos` | `read_data`, `write_data`, `find_free_datablock`, the transfers | preempted by other readers and writers | what was written stays, and is what reads return; a write changes its bytes only |
| directory, descriptors (`filesys.c`, `syscall.c` 300-492) | dentries, bitmap, descriptors, `dir_read`'s position | `open`, `close`, `create`, `delete`, `dir_read` | preempted by each other | unique names; the dentries asked for and no others; no open file is deleted; a name that is there is found |
| system call entry, exceptions (`linkage.S`, `idt.c`) | `exception_occurred` | entry, return, `halt(255)` | process management | part of the process model |
| interrupt controllers, boot order (`i8259.c`, `kernel.c`, `rtc_init`, `pit_init`) | masks, requests, in-service bits, register C | `i8259_init`, `enable_irq`, `send_eoi`, delivery by priority | every handler; the clock chip | no line is stuck or ended for another; the clock never stops |
| command line and `getargs` (`syscall.c` 147-252, 351-366) | `argv` of each pcb | the parsing in `execute`, `getargs` | the shell, every program with an argument | the first word runs, the second is delivered |
| kernel allocator (`malloc.c`) | the free header | `kmalloc_init`, `kmalloc` | no kernel caller yet | blocks do not meet |
| library functions (`lib.c`) | | `printf`, `itoa`, `memset*`, `memcpy`, `memmove` | all of the kernel | they do what their comments say |
| user programs (`src/fish`, `src/syscalls`) | `blink_array`, `grep`'s and the shell's buffers | `fish`'s list of blinking characters; `grep`'s search; the shell's loop | system calls, mapped video memory | a character blinks in its rhythm; the list stays a list; the lines with the pattern are printed |
| paging setup, descriptor tables | constant tables | | | not modelled |
| tests, build tools, images | | | | not modelled |

The hard behaviours are interleavings (a timer interrupt between any two
accesses of a system call; a keyboard interrupt that leaves a process inside its
handler), lookups that are stale when used (directory), several reads of one
variable (the line's length), non-atomic updates (file size, the clock's
countdown), slots reused with what their previous owner left, one global where
each process needs its own, restarts with a partly written disk, and, in the
sequential parts, arithmetic at the edges: 16- and 32-bit counters that wrap,
alignment, buffers of exactly the length of what goes into them. The
`hazards` of `PROJECT.json` list them at their lines, with the properties for each.

## Modules

| module | models | state and actions |
|---|---|---|
| `Kernel` | `execute`, `halt`, exceptions, `pit_handler`, the context half of `switch_terminal`, Ctrl+C, the EOI | One action per kernel entry; a base shell's restart may find its file deleted (`ShellMissing`). A stack is named by its owner's pid; `ebp` is the frame a process is resumed through and records who saved it and what was interrupted. Using a dead or missing frame ends in mode `crashed`. |
| `TerminalSessions` | abstract: one stack of programs per terminal, pushed by `execute`, popped by `halt` | |
| `KernelSessions` | the refinement: the stack is read off the parent pointers | |
| `KernelProofs` | theorems about `Kernel`, and the refinement | |
| `Rtc`, `MCRtc`, `RtcProofs` | `rtc.c` statement by statement, the handler as one step | `since` counts interrupts since the last restart of the countdown |
| `TerminalInput` | the keys that edit a line, `terminal_read` access by access, `terminal_write` | a line is its length; `entered`, `grown` and `overrun` are history variables |
| `TerminalInputProofs` | theorems about `TerminalInput`, `CommandLine` and `Format` | |
| `Screen` | `putc`, `echo`, `clear`, `vidmap`, the video half of both switches | a page is the set of terminals whose output it holds; `pos` says where a terminal's output has got to |
| `ScreenProofs` | theorems about `Screen` and `Console` | |
| `FileData`, `MCFileData` | `read_data`, `write_data`, positions, allocation, saves, restart | every access to a size, to a place of a block list, to a byte of a block and to a block of the disk is a step; every byte of the image is different, so a misplaced byte shows; `contents` and `raced` are history: what programs have written, without blocks |
| `FileDataProofs` | theorems about `FileData` and `Volume` | |
| `Directory`, `MCDirectory` | `open`, `close`, `create`, `delete`, `halt` | every comparison of a lookup, every field of a dentry that is copied or stored, every load and store of the count is a step; `expected`, `tainted` and `mixed` are history: the dentries the calls ask for, and which calls overlapped one that can mislead them |
| `DirectoryProofs` | theorems about `Directory` and `Listing` | |
| `Interrupts` | both controllers from power-on, the order of `entry()`, every handler's EOI, register C | `handler` is the handler that runs and its next step, `parked` the one inside `switch_terminal()` |
| `InterruptsProofs` | theorems about `Interrupts` | |
| `Volume` | `create`, `delete`, the transfers sector by sector, Ctrl+C and restarts | the directory in memory and on the disk; `kept`, `deleted`, `deletions`, `gone` and `stale` are history variables |
| `Listing` | `dir_read` of several readers under `create` and `delete` | the one `pos` of all processes, loaded and stored in separate steps, names that are torn while they are stored; `missing`, `overlapping` and `excuses` are history variables |
| `Console` | `putc` with tabs, backspace and scrolling; the keys and calls that print | video memory cell by cell, the line, and where it starts |
| `CommandLine` | the parsing in `execute`, `argv`, `getargs` character by character, because the properties are about the single bytes behind a word | a slot's `argv` with the descriptors behind it |
| `Format` | `printf`, `itoa` | one directive or character per step |
| `Memory` | `memset`, `memset_word`, `memset_dword`, `memcpy`, `memmove` | the registers and the cells |
| `Heap` | `kmalloc` | the free header and what was returned |
| `HeapProofs` | theorems about `Heap`, `Memory` and `Grep` | |
| `Blink` | `src/fish/blink.S`: add, remove, sync, the tasklet | `blink_array` with its `next` pointers; theorems in `RtcProofs` |
| `BlinkOrder` | abstract: a pile of blinking characters | `Blink` implements it: the list is read off the pointers |
| `Grep` | `src/syscalls/ece391grep.c` on one file, the search of `ece391support.c` | the buffer byte by byte; `printed` and `behind` are history variables |
| `MCParts` | instances of the last nine models | `unit` says which of them moves |

The models are separate because the code's parts meet in few places. What one
assumes another establishes: `TerminalInput` and `Screen` use that a terminal's
process finds `active_term_id` to be its own whenever it runs, which is
`MachineFollowsTerminal` of `Kernel`; `Screen`'s nesting of programs is the stack
of `TerminalSessions`; `Rtc`'s fairness needs that IRQ1 gets its EOI, because IRQ8
has lower priority, which is `ClockServed` of `Interrupts`; that module takes from
`Kernel` that the process left inside `switch_terminal()` gets its turn. `Volume` and
`FileData` divide the disk: the directory sector by sector there, the data blocks
with a transfer as one step here. `Console` is one terminal of `Screen` cell by cell.
The other parts share nothing, so that their instances sit side by side in
`MCParts`: only one unit moves in a behaviour, and their states add up.

The build is `-O0`, so every C access of a shared variable
is a memory access of its own; that decides the grain of `Rtc`,
`TerminalInput`, `FileData`, `Directory` and `Listing`. Two accesses are one step where
the one in between could not tell: a dentry's name is compared, and stored, at once in
`Directory`, for whoever looks at half a name sees it differ from the old one as after
the store, or from the new one as before; and a reader of `Listing` that copies a name
while it changes gets the old one, the new one or a torn one. What a
program does to its own buffers is left out.

A definition whose comment starts with "Mutant:" is a wrong version of the next
one. It is used by no specification; substituting it must break a property, which
shows that the property depends on the code it is about.

## Runs

| run | bounds | distinct states | what it shows |
|---|---|---|---|
| `kernel` | 2 terminals, 4 slots, Ctrl+C | 220 k | `TypeOK`, `ProcessForest`, `MachineFollowsTerminal`, `SwitchTargetsLive`, `KeyboardInService`; `RoundRobin`, `CtrlCHonoured`, `KeyboardComesBack`; and that the kernel implements `TerminalSessions`; the file `shell` is in place |
| `kernel_sessions_window` | 2 terminals, 4 slots, interrupts inside `execute`'s last instructions, the file `shell` deleted at any time | 100 k | sessions stay correct even where the machine may crash |
| `kernel_eoi_lost` | violation | | Ctrl+C can halt a process inside `keyboard_handler` |
| `kernel_exec_interrupted` | violation | | a timer interrupt between `execute`'s `sti` and `iret` |
| `interrupts` | the four lines in use | 316 | `InServiceOwed`, `ClockNotLost`; `ClockServed` |
| `rtc` | 2 slots, 4 Hz, periods 1 and 2, requests from -2 to 8 | 91 k | `CountdownInPeriod`, `ReadNotEarly`, `ReadReturns` |
| `terminal_input` | 2 terminals, a line of 2, buffers of 1 and of 3 | 139 k | `ReadNeedsEnter`, `ReadWithinCapacity`, `EnterEndsRead` |
| `screen` | 3 terminals, 2 nested programs, coordinates modulo 2 | 863 k | `OwnOutputOnly`, `CoordinatesKept`, `MappingsFollow` |
| `file_data` | 2 processes, 2 files, blocks of 2 bytes, transfers of up to 4, 2 calls, any number of restarts and Ctrl+C | 599 k | `FilesAsWritten`, `ReadsContents` |
| `file_write_shared_block` | violation: two created files | | small writes to files without blocks go to block 0 |
| `directory` | 2 processes with one descriptor, 3 names, 2 dentries, the directory's own among them | 4.0 M | `NamesUnique`, `DirectoryAsAsked`, `OpenFilesNamed`, `LookupsComplete` |
| `parts` | the nine units below | 907 k | one or two properties of each unit, `TypesOK` for all of them, and that `Blink` implements `BlinkOrder` |

The units of `parts`:

| unit | bounds | properties |
|---|---|---|
| `kmalloc` | a heap of 256 bytes, requests around multiples of the header's 16 and the largest one, and 1 beyond it | `BlocksDisjoint` |
| `blink` | 3 slots, 2 locations, 2 rhythms, 2-bit countdowns (signed half: 2) | `PeriodKept`, `ImplementsOrder` |
| `command` | all lines of up to 5 characters over two letters and the space, `MAX_TERMINAL` 4, 2 programs, capacities 0 to 3 | `CommandUnderstood` (`NamedProgramRuns` and `ArgumentDelivered` of `CommandLine`) |
| `printf` | all formats of up to 3 of 8 pieces, words of 8 bits with the extreme values as arguments | `FormatFollowed` |
| `console` | a screen of 8 by 2, a line of 2 | `LineShown` |
| `volume` | 3 dentries in 2 sectors, 3 names, any number of saves, Ctrl+C and restarts | `DeletedStaysDeleted`, `FewFilesLost` |
| `listing` | 2 readers, 3 names, 2 dentries, a position of up to 3, any number of listings | `ListingComplete` |
| `memory` | 12 cells: every routine, start, source and length that fits | `BlockWritten` |
| `grep` | files of up to 6 characters over two letters and the newline, a buffer of 3, 2 patterns, a letter or a newline in the byte behind the buffer | `LinesFound` |

Each module has a `TypeOK`. Those of `Kernel` and of the units are checked; those of
`Rtc`, `TerminalInput`, `Screen`, `FileData` and `Directory` are part of proved
invariants; that of `Interrupts` documents the variables, and its properties fail first
where a value is out of range.

Why the bounds are enough. *Kernel*: with four slots and two terminals a base
shell has a program that has a program, slots are freed and taken in any order,
and one terminal runs out of slots because of the other; more of either only
repeats this, and the safety invariants are proved for every number. The shell's missing
file is in the run in which the machine may crash anyway, with `CtrlC` off there. *Interrupts*:
nothing is bounded; all other lines stay masked. *Rtc*: period 1 ends at the first
interrupt and period 2 counts down once; the proofs cover all others.
*TerminalInput*: a line of 2 can be empty, partly filled and full, and the second
terminal is enough for keys to go elsewhere; one buffer is longer than the line, as
in the shell (1023 bytes for 128), the other one shorter, as in `syserr` (127) and
`sigtest` (1), so that the line outgrows it while `terminal_read()` looks at the length. *Screen*: three terminals so that shown, active and next can
all differ. *FileData*: blocks of two bytes give every alignment, the first file
spans two blocks out of order with a byte free in the second, and four bytes span three
blocks; the descriptors start at every position that reading can have left. `MaxCalls` is
two, enough for two calls of two processes to be inside each other, or for one to follow
another through a restart; of the first file's inode the disk's copy is taken on a
restart, of the second's the installed one, and of no data block. Guards that are bounds:
a transfer stays within the block list (`HasSlot`), a write takes a block only while one
is free. *Directory*: one call inside another is the interference, and each of them is
cut at every step; the two dentries are the directory itself and a file, so that a
created one fits only after a deletion, and deleting the first moves the second. Guards
that are bounds: `create()` has room, and `delete()` finds its place still inside the
table (`Moves`) and the count above zero (`ClearsLast`, `Lowers`), which another
`delete()` could only have broken after it was misled. The constraint `Unmixed` stops
where a misled call has changed the directory, because nothing is claimed from there on.
*Volume*: two sectors are enough for a save to be cut in the middle, one
dentry in the second moves into the first. *Listing*: two readers are inside each other
and inside a deletion at every step; two names are there at once, the third comes when
one has gone, and with `MaxPos` above the number of dentries the position can be driven
past the end. *Heap*: three calls split the first header, the wrapped one, and run
past the end; the proof covers every size. *Blink*: three slots give a head, a
middle and an end to remove. *CommandLine*: five characters are one more than the
limit, so that it cuts the spaces, the name or the argument. *Format*: three pieces
put a directive after two others; eight bits have the same edges as 32. *Console*:
two tabs fit in a row, a line goes over its end, two rows scroll. *Memory*: three
words give every alignment with and without whole words between. *Grep*: six
characters fill the buffer up to three times, with lines that fit, lines that are cut
off and moved to the front, and lines longer than the buffer.

Deadlock is checked in every run except the two with the window in `execute`,
where a crashed machine stops, and `parts`, where a call or a line ends.

## Fairness

- `Kernel`: weak fairness of `pit_handler`, because the timer is hardware and no
  code path masks it for good; strong fairness of `KeyboardEoi`, because a
  process that gets slice after slice executes the few instructions left of
  `keyboard_handler`. Programs have no fairness: they may loop for ever.
- `Rtc`: weak fairness of `rtc_handler` (hardware) and of a process inside a call
  (round robin, the property `RoundRobin` of `Kernel`).
- `Interrupts`: weak fairness of the handlers' steps, the timer and the clock
  (processor and hardware go on); strong fairness of `Boot`, since `entry()` runs
  whenever no handler does; of accepting each line, because a request is kept until
  it is served and the processor takes the most urgent one; and of `PitResumes`,
  which is `RoundRobin` of `Kernel`. `ClockServed` assumes besides that the timer
  leaves time for other interrupts (`TimerLeavesTime`: 100 Hz, and handlers of
  microseconds) and that the user stops typing for once.
- `TerminalInput`: weak fairness of a reader's steps, for the same reason; none of
  the user.

`RoundRobin` and `CtrlCHonoured` assume that the user eventually stops pressing
F1-F3: each press gives the processor to a terminal out of turn.
`KeyboardComesBack` needs no such assumption, since the next press needs the EOI.

## Proofs

`KernelProofs` proves, for all `TERMINAL_COUNT <= MAX_PROCESS`, that `Spec` implies
`[]` of `TypeOK`, `ProcessForest`, `MachineFollowsTerminal`, `SwitchTargetsLive` and
`KeyboardInService`. It assumes `KernelAssumption` (the constants' types) and, in
each theorem, `StiWindow = FALSE`: with the window the results are false
(`kernel_exec_interrupted`). The inductive invariant `KernelInv` is the
conjunction of the five and of what they need from each other. All of them assume
besides that the file `shell` is in place (`ShellMissing = FALSE`), without which a base
shell cannot be restarted and `halt()` crashes. None is inductive
alone: `halt()` hands the machine to the parent, which is only a live process
because the callers form a line; the timer resumes a frame, which is only there
because whoever was switched out last saved it; and which frame the EOI comes
with matters only because the process that owes it is some terminal's. A second
result, `EoiKeptWithoutCtrlC`, shows that Ctrl+C is the only way to lose an EOI.

`RtcProofs` proves `ReadNotEarly` and `CountdownInPeriod` for any slots and
frequency limits under `RtcAssumption` (the limits are positive and ordered). The
inductive invariant `RtcInv` relates the countdown to the interrupts already
counted: an open clock that no call is in the middle of setting has
`since + rtc_curr >= rtc_rate`, and the flag a waiting read polls was raised at the
end of a period. Neither property is inductive alone, because a read
that starts later relies on what earlier calls left in the fields.

`InterruptsProofs` proves `InServiceOwed` and `ClockNotLost`. The module has no
constants, so that TLC's check is complete already; the proof says why they hold.
Interrupts are off in every handler (`HandlerAlone`), so at most two handlers are
under way, the one that runs and a `keyboard_handler()` left in `switch_terminal()`;
and while that one waits its line stays in service, which keeps a second
`keyboard_handler()` from starting and from ending the first one's line (`OneKeyboard`).
`i8259_init()` forgets requests, and a forgotten one of the clock would be its last; it
comes before the clock is started (`ClockAfterControllers`).

`HeapProofs` proves `BlocksDisjoint` for any heap whose size is a multiple of 64, any
requests and any word that holds the heap's size (`HeapAssumption`). The obvious
argument, that the free header's size bounds what is handed out, is not available:
after the second call `RestSize` makes it 2^32 - 16 (lemma `Rest`). What holds instead
is `FreeHeader`: the header is aligned, behind every block, inside the heap, and
claims either what is left or nearly everything; both are at least a header more
than the largest request (lemma `Aligned`), so that the heap is laid out once and the
branch that returns a block whole is never taken. A header that would lie past the
heap faults, which ends the caller.

`ScreenProofs` proves `OwnOutputOnly`, `CoordinatesKept` and `MappingsFollow` for any
number of terminals and nested programs. They are proved together with the types and
with `SomeProcess` (every terminal runs one), since a write goes to the right page
only because the mapping followed the last switch, and a switch copies the right page
only because it held one terminal's output.

`TerminalInputProofs` proves `ReadNeedsEnter` for any terminals, lines and buffers, by
`EnterInv`, whose extra part is `WaitEndsByEnter`: a read that still waits and finds
`in_progress` cleared has had its Enter. `ReadWithinCapacity` is proved for
buffers of every size, by `WithinBuffers`: a line is never longer than when its length
was compared with the capacity plus what was typed since (`grown`), whichever of the
three reads of the length comes next, until a Tab on a full line overwrites the length.
So the caller's buffer is passed by at most that, and never by more than a line and its
NUL.

The same module follows the line into the program and proves `CommandUnderstood` of
`CommandLine` for any lines without NUL inside, any programs, capacities and
`MAX_TERMINAL` (`CommandLineAssumption`). The four loops of `execute()` stop within the
part of the line they may look at and split it (`LoopsSplit`); no word starts outside
the two parts that are words (`SplitWords`), so counting the words up to one, as the
reference does, gives 1 and 2 for them (`WordsParsed`). Behind a name the second word
and its NUL are shorter than `argv` (`ArgumentFits`); what else the copy brings is
overwritten when the descriptors are set up (`CopyHolds`). `CommandInv` keeps that in the
slot whatever the program opens, and `getargs()` takes it from there: as much as there is
room for, with the NUL if there is room for it too, and nothing behind the buffer but, in
the next byte, that NUL.

Its third part proves `FormatFollowed` of `Format`, for any formats of characters and
the seven directives `printf()` knows, any arguments, as many as the format takes, and
words of any number of hexadecimal digits (`FormatAssumption`; eight in the code). The
reference reads a numeral from its first digit, multiplying; `itoa()` makes it from the
last one, dividing. A digit more at the low end (`LowestMore`) connects the two, by
induction over the number. A word has no more hexadecimal digits than the buffer of
`%#x` holds, since a longer numeral without leading zeros is not below 1 with `WIDTH`
zeros (`ManyDigits`), and the zeros in front count nothing (`ReadsZeros`). `PrintfInv`
says that between two steps whole pieces are behind, and that as many arguments are
used up as there are directives other than `%%` among them (`NextPieceIs`); so a
directive meets its own argument, and the `#` its own conversion.

`KernelProofs` also proves that the kernel implements `TerminalSessions`
(`SessionsImplemented`). The stack of a terminal is read off the parent pointers by a
recursive function, about which the prover knows nothing but its definition: lemmas
about `Chain` first show that the definition has a value, by well-founded induction
over the set of natural numbers at which the equation holds. `ProcessForest`
then bounds the chain (no process occurs twice, by counting), which makes every stack
the line of a terminal's processes (`SessionsAreLines`), and every action of `Kernel` a
push, a pop, a restart of a base shell, a switch, or a stutter.

`FileDataProofs` proves `FilesAsWritten` and `ReadsContents` for any block size, block
lists, image, processes and number of calls (`FileDataAssumption`). The code finds
byte `i` of a transfer by splitting the transfer at block boundaries; that this is byte
`pos + i` of the file follows from one fact, that a number has only one quotient and
remainder. `FileInv` keeps sizes and transfers inside their block lists, also between a
write's comparison and its store of the size, in the middle of a transfer and after a
restart with part of the disk. It says where a transfer has got to (`Placed`, `Chunk`), that
the block number a call has loaded is still its file's unless the place was given another
one meanwhile (`Loaded`, `moved`), and how the size a write compared with relates to the
one it stores (`Inside`): that a file is cut only by a race for its size (`raced`) comes
from there. Neither property takes the allocation to be right. A write that replaces a
block, or gets one that another file has too, ends the claim for exactly the bytes in
that place (`WriteAllocates`, `ContentsAfter`); what the two properties claim is every
other byte, through every such write.

`DirectoryProofs` proves `NamesUnique`, `DirectoryAsAsked`, `OpenFilesNamed` and
`LookupsComplete` for any processes, descriptors, names, inodes and dentries. None
is inductive alone, since a call acts on what it read before it was preempted, and since
in the middle of a change one dentry is half stored. `DirectoryInv` adds that one process at
most stores into the directory, that every dentry but the one it is storing is whole and
asked for (`TableSound`), how far the storing has got (`StoreSound`), and that what any
other call has read is still so, unless an overlapping one can mislead it (`CallSound`). All of
this ends when a misled call changes the directory (`mixed`); that it does not end earlier is
the content of the theorems: overlaps of lookups with a `create()` of another name, or of
calls that only look with each other, do no harm, and a misled call does none until its first store.
`DirectoryAssumption` describes any image whose names differ.

The same module proves `ListingComplete` for any readers, names and table. The invariant
counts. Wherever a listing may go on, at the position or at the value a preempted
reader is about to store (`ListsFrom`), the names that are neither ahead nor in that reader's
hands are missed (`Skipped`); a deletion that has still to move a name from behind that
place to before it may add one (`Twice`), and so may each overlapping reader that has not
yet loaded the position (`Astray`). `ListingInv` says that the sum is excused: every
deletion, and every call that overlaps a deletion or another call, has been counted once.
A call that overlaps none passes exactly the name it has copied (`Alone`).

`FileDataProofs` also proves `DeletedStaysDeleted` and `FewFilesLost` of `Volume`, for
any names, any table and any division of it into sectors (`VolumeAssumption`).
`VolumeInv` says of a save cut anywhere that each name kept has a place in memory and one
on the disk; dentries only move to the front, so the latter is not before the former, and
at most one behind the count for each deletion: a lost name occupies one of the places
the count leaves out. The bound counts calls of `delete()`: a save cut short and a restart
can leave a name in two places, and deleting both loses two files for one name.

`HeapProofs` also proves `BlockWritten` of `Memory`, for any memory and any calls that
fit it (`MemoryAssumption`). `MemoryInv` relates the registers, which always account for
the rest of the region, to the cells: those written, a prefix or for `memmove()` backwards
a suffix of the region, hold what was asked for, and all others are as they were. The last
is what lets a copy read its source: the direction `memmove()` chooses keeps the source
ahead of what is written, and so does `memcpy()` unless it moves memory up into itself.

`RtcProofs` also proves, for any array of `blink`'s characters, any rhythms and any width
of the countdown (`BlinkAssumption`: no character has location 0, which marks a free cell,
and lengths are words), that the pointers form a list (`BlinkListIntact`), that
`PeriodKept` holds, and that `Blink` implements `BlinkOrder`. `BlinkInv` says that some
sequence of slots without repetition is what the pointers spell (`IsList`) and has
exactly the cells in use (`CellsFit`); so it is shorter than the array whenever a cell is
free. What the model computes by following the pointers, a recursive function, is then
that sequence and no other (`ListIs`). Each operation is one on the sequence, `AddStep`
to `TickStep`: a push, `RemoveAt` at the first place with the location, a change of one
entry, a change of all. For the rhythm `OnTime` adds that the countdown and the time since
the last change make up the length of the status.

`ScreenProofs` also proves `LineShown` of `Console`, for any screen whose rows are whole
tab stops and that holds the longest line, four cells to a character, above its last row
(`ConsoleAssumption`; 24 rows of 80 and 128 characters in the code), and any writes.
`putc()` does not know the line: it takes a tab back by counting cells with the tab's
attribute, at most four, so the property rests on what the cells say. `LineInv` adds to
it that everything from the cursor on is blank and that a tab's cell is the last before
a tab stop or has another one behind it (`Good`), and that a line which starts between
two stops does not start behind a tab's cell (`Stands`). Then the cells counted are the
last character's: at a stop no tab is cut, and a tab narrower than four cells follows a
character or a start that is none (`LineShrinks`). For the other direction (`LineGrows`)
every echo is one shift of the screen, by nothing or a row; the assumption keeps the
line's first cell on the screen, since after a scroll the cursor is at the start of the
last row. The ends of the characters and what a write has printed are recursive
functions; that they have values is proved by induction, as for `Chain`.

`HeapProofs` also proves `LinesFound` of `Grep`, for a buffer of any size, any texts
and patterns without NUL and any rest of the stack (`GrepAssumption`). In `SearchInv`
the part of the buffer that counts is the file in front of the position (`Window`), a
read that leaves room has reached the end (`ReadOn`), and what is printed are the lines
that start before the next one of the buffer (`Found`). The step that needs an argument
is the search of a line without a newline behind it (`WholeLine`): either the file ends
there, or the line fills the buffer from its first byte, and then, as it fits, the next
character of the file is the newline. That newline is in front of the next read, and no
line starts at it; so the invariant allows for one more case than a start (`Fresh`). The
reference is again a recursive function (`LinesFrom`, `LinesFromIs`), and characters at
which no line starts add nothing to it (`NoStarts`).

What the proofs assume about constants is checked by TLC on every instance: the
`...Assumption` of a module that the runs extend, and `CommandConstants`,
`BlinkConstants`, `FormatConstants`, `ConsoleConstants`, `VolumeConstants`,
`MemoryConstants` and `GrepConstants` in `MCParts`.

Only model-checked: all liveness properties (fairness and ENABLED are beyond the
prover). The library's induction theorems take an operator as a parameter; the proofs
that need induction, over numbers or over what a recursive function computes, use the
least member of a set of counterexamples instead (`LeastMember`, `AllFrom`). `TypesOK`
has no theorem of its own: it puts together the types of the nine units of `MCParts`,
each of which is part of a proved invariant of its unit.

## Known disagreements between code and documentation

The violation runs show three. Others were met while modelling and follow from
what the modules state; no run is kept for them:

- `exception_occurred` is one flag for all processes, set before `halt()`'s `cli`.
  Preempted in between, another program is reported as "terminated by exception"
  (`Kernel`: `ExceptionRecorded`, `ReturnValue`).
- `rtc_handler` serves slots 3 to 5 only, so a read in any other slot never
  returns (`Rtc`: `Ticked`).
- Tab on a full line is stored over the line's length (`KeyTab`, `overrun`).
- `vidmap()` in the background maps a page by pid, which for all but base shells
  is no terminal's (`MappingsFollow` has it as its exception); `halt()` does not
  restore the parent's mapping; Ctrl+L clears the active terminal's page, not the
  one on the screen (`clear`).
- Two writes to one file, one storing the size between the other's comparison with it
  and its store: the size stored last may be the smaller one and cuts off what the other one wrote (`WriteGrows`; the history
  variable `raced` marks the file, and `FilesAsWritten` says that nothing else cuts one).
- A write that leaves its first block takes a free block for every place behind it,
  also where there was one (`filesys.c` 266, 268): the file's old contents there are lost,
  also behind the write. It takes one more if it fills its last block exactly. As nothing
  marks a block, all the blocks it takes are the same one, and so are those of every other
  write until the next start (`TakesBlock`, `find_free_datablock`; `contents` becomes `Lost`
  there).
- A failed `write()` moves the position back by one (`PositionAfterFailure`).
- Transfers count one sector for each block, so a restart loses the data blocks
  (`Merged`). On the shipped image (64 inodes, 63 data blocks) 16 of 128 blocks
  are transferred.
- `find_free_inode()` looks at the data blocks' bitmap and marks nothing, so
  created files share an inode; `delete()` clears the bits of the first blocks. On the
  shipped image (19 dentries) it returns 2 at first; after a write beyond 4 KB to a
  created file, a restart and deletions it may return the inode of an installed file.
- `create()` never compares with the 63 dentries there is room for: the 64th is
  stored over inode 0. A name longer than 32 characters is stored cut off, and is
  not found again, so that it can be created twice.
- `dir_read()` has one position for all descriptors: two listings at once share the
  names between them, and a listing misses a file for each one deleted meanwhile. It
  looks at the position, copies the dentry there and increments the position
  (`filesys.c` 363-373) with interrupts enabled: two readers, each preempted by the other, get one
  name twice and skip the next, with no deletion at all, and a store that comes after the
  other's rewind puts the position of the old listing into the new one. A dentry that is being
  stored is read with half a name (`Listing`: `Torn`). `ListingComplete` bounds what a
  listing misses by the calls that overlapped.
- Two `create()` calls, two `delete()` calls, and `open()` or `create()` during a `delete()`
  race: the same place or the same name taken twice, another file's dentry deleted, a file
  deleted under the process that is opening it, the count stored from an old value
  (`Directory`: `tainted`, `mixed`). `create()` raises the count before the dentry is there (`syscall.c`
  441), and `memmove()` moves dentries that others look at: a lookup may copy the type of
  one dentry and the inode of another, or miss a name that moves past it
  (`LookupsComplete` and `OpenFilesNamed` say between which calls it cannot).
- A buffer no longer than the line (127 in `syserr`, 1 in `sigtest`): a key typed
  between `terminal_read()`'s three reads of the length is copied past its end.
  `ReadWithinCapacity` says by how much.
- `delete()` looks at descriptors only, so that `shell` can be deleted, or overwritten, while
  shells run. When a base shell then ends, `execute("shell")` returns -1 to `halt()`,
  which goes on with the code for other processes although a base shell has no parent, and
  dereferences NULL (`syscall.c` 178-182; the comment at 94 says that the terminal never
  closes). `Kernel`: `halt` with `ShellMissing`; the machine ends in mode `crashed`.
- A save cut short leaves dentries behind the count, which a start reads and a later
  `create()` may bring back (`Volume`: `stale`). A restart forgets what was created
  since the last save.
- Ctrl+L clears the screen and leaves the line in its buffer; Backspace then reads
  one cell in front of the screen (`lib.c` 215) before it finds at 224 that there is
  nothing to delete. The page there is not mapped, and the fault comes inside
  `keyboard_handler` (`Console`: `BackspaceStays`).
- A tab that ends at the end of a row leaves `screen_x` there, and what follows runs
  past the row (`Console`: `RunsOn`).
- `execute()` without an argument copies from `argument` to where the name ended in
  `file_name`, over `argv` and the descriptors behind it, which are set up only
  afterwards (`Copied`). `getargs()` writes its NUL one byte behind a buffer that the
  argument fills, although `syscall.c` 355 calls the length the capacity of the buffer
  (`ArgumentDelivered` does not ask for that byte, and allows no other).
- `kmalloc()`'s four page tables all map the first 4 MB of physical memory
  (`malloc.c` 37), and the size of the free header wraps (`RestSize`): it never refuses
  a request of up to 4 MB, and a header past the heap faults.
- `grep` tests the byte behind the last one read to see whether a line was cut off. At
  the buffer's end nothing was ever stored there: if the stack left a newline in it,
  the cut-off line ends there. A line longer than the buffer is split (`LinesFound`
  excludes both).
- `mp1_ioctl_sync` always draws the second character as off; `printf("%")` reads
  behind its format; `memcpy()` may not move memory up into itself, `memmove()` may.
- `entry()` has its call of `initiate_shells()` commented out (`kernel.c` 168); the
  models start in the state that function sets up, and `Interrupts` makes the call.

## Not modelled, and why

- Modifier keys and scan code tables: they decide which character is stored, which
  changes nothing that is checked, and whether a key is a command; any command may come
  at any time.
- The ATA port protocol, and two transfers that program the ports at once: `Volume`
  begins a save when none is going on. The clearing of blocks in `delete()`; a file
  system with no free block, where -1 becomes a block number.
- `paging_init()`, descriptor tables, the multiboot printout: straight-line code that
  runs once and fills constants. The entries that change later are state of `Kernel`
  and `Screen`.
- The string functions of `lib.c`: the kernel calls only `strlen`, on the digits of
  `printf()`, and `strncmp`, `strncpy` on names, which are values in the models. The hardware
  cursor's position: nothing reads it (`get_cursor_pos()` has no caller).
- `disable_irq()`, `file_size()`, `read_dentry_by_index()` from outside,
  `set_handler()`, `sigreturn()`: no caller, or no effect.
- The base shells' own descriptors: `delete()` looks at slots 3 to 5 only, so
  `Directory`'s processes are those.
- `Directory` and `Volume` are not composed: a call preempted by another while a save
  is cut short is in neither. Their product is out of TLC's reach at bounds at which
  both happen.
- Tests and build tools, and what user programs compute other than `fish`'s list:
  programs may make any call at any time. The shell's loop is `Caller` of
  `TerminalInput`, and the stores of `fish` into video memory are `UserWrites` of
  `Screen`.

## Plan

1. *Done*: `Kernel` with its sessions and proofs, `Rtc` with proofs, `TerminalInput`,
   `Screen`, `FileData`, `Directory`.
2. *Done*: `Interrupts`, `Volume`, `Listing`, `Console`, `CommandLine`, `Format`,
   `Memory`, `Grep`, `Blink` with its abstraction, `Heap` with proofs, the proofs about
   `Screen` and `TerminalInput`.
3. *Done*: the proofs about `FileData`, `Directory`, `Listing`, `Volume`, `Memory`,
   `CommandLine`, `Format`, `Interrupts`, `Console` and `Grep`, and that `Kernel` implements
   `TerminalSessions` and `Blink` implements `BlinkOrder`.
4. *Next, models*: an atomic directory, of which `expected` is the state, that
   `Directory` implements until a misled call changes it; a terminal as a queue of lines
   that `TerminalInput` implements; two transfers on one set of ATA ports; the image's
   inode and block numbers at full size, for the sequences of `create()` and
   `delete()` named above.
