------------------------------- MODULE Screen -------------------------------
(***************************************************************************)
(* Video memory shared by the terminals.  Every terminal has a backing     *)
(* page; the terminal on the screen owns the video page instead, and the   *)
(* kernel's and the user's video mapping are redirected at every switch.   *)
(* One pair of coordinates, screen, serves whoever is active; the others'  *)
(* are kept in terms[.].cursor.                                            *)
(*                                                                         *)
(* Page contents are abstracted to the set of terminals whose output they  *)
(* hold, coordinates to a counter that wraps at MaxPos.  A terminal's      *)
(* processes are the stack module TerminalSessions describes, as far as    *)
(* their vidmap flags go.  putc() runs with interrupts disabled when       *)
(* called from terminal_write() or keyboard_handler().  pos is a history   *)
(* variable: where the terminal's own output and echo have got to.         *)
(***************************************************************************)
EXTENDS Integers, Sequences

CONSTANTS
    TERMINAL_COUNT,
    MaxPos,             \* bound: coordinates are taken modulo this
    MaxDepth            \* bound: processes of one terminal

ASSUME ScreenAssumption ==
    /\ TERMINAL_COUNT \in Nat \ {0}
    /\ MaxPos \in Nat \ {0}
    /\ MaxDepth \in Nat \ {0}

Term == 0 .. (TERMINAL_COUNT - 1)
Vram == TERMINAL_COUNT          \* the page at 0xB8000
Stray == TERMINAL_COUNT + 1     \* a page after the backing pages
Pages == Term \cup {Vram, Stray}

VARIABLES
    active_term_id, shown_term_id,
    page,                       \* what each page of video memory holds
    kernel_vidmem,              \* page behind the kernel's 0xB8000
    user_vidmem, user_present,  \* the user's mapping
    screen,                     \* screen_x, screen_y
    cursor,                     \* terms[.].cursor
    vidmap_flags,               \* pcb->vidmap, per terminal, outermost first
    pos

pageVars  == <<kernel_vidmem, user_vidmem, user_present>>
coordVars == <<screen, cursor, pos>>
vars == <<active_term_id, shown_term_id, page, pageVars, coordVars, vidmap_flags>>

TypeOK ==
    /\ active_term_id \in Term
    /\ shown_term_id \in Term
    /\ page \in [Pages -> SUBSET Term]
    /\ kernel_vidmem \in Pages
    /\ user_vidmem \in Pages
    /\ user_present \in BOOLEAN
    /\ screen \in 0 .. (MaxPos - 1)
    /\ cursor \in [Term -> 0 .. (MaxPos - 1)]
    /\ vidmap_flags \in [Term -> Seq(BOOLEAN)]
    /\ pos \in [Term -> 0 .. (MaxPos - 1)]

\* initiate_shells(); the user mapping is not present yet.
Init ==
    /\ active_term_id = 0
    /\ shown_term_id = 0
    /\ page = [g \in Pages |-> {}]
    /\ kernel_vidmem = Vram
    /\ user_vidmem = Vram
    /\ user_present = FALSE
    /\ screen = 0
    /\ cursor = [t \in Term |-> 0]
    /\ vidmap_flags = [t \in Term |-> <<FALSE>>]
    /\ pos = [t \in Term |-> 0]

Depth(t) == Len(vidmap_flags[t])
Flag(t) == vidmap_flags[t][Depth(t)]        \* of the terminal's process
PageOf(t) == IF t = shown_term_id THEN Vram ELSE t

-----------------------------------------------------------------------------
(* Output.                                                                  *)

Step(c) == (c + 1) % MaxPos

\* What is stored to the stray page is seen nowhere.
Output(g, t) == page' = IF g = Stray THEN page ELSE [page EXCEPT ![g] = @ \cup {t}]

\* Mutant: the coordinates are kept for whoever is active, not for the terminal
\* on the screen.
CursorAfterActive(x) == [cursor EXCEPT ![active_term_id] = x]

\* The cursor record putc() and echo() keep for the terminal on the screen.
CursorAfter(x) == [cursor EXCEPT ![shown_term_id] = x]

\* putc() for terminal_write() of the active terminal's process.
putc ==
    /\ Output(kernel_vidmem, active_term_id)
    /\ screen' = Step(screen)
    /\ cursor' = IF active_term_id = shown_term_id THEN CursorAfter(screen') ELSE cursor
    /\ pos' = [pos EXCEPT ![active_term_id] = Step(@)]
    /\ UNCHANGED <<active_term_id, shown_term_id, pageVars, vidmap_flags>>

\* echo() of a key typed on the shown terminal: when another one is active, the
\* video page is reached by its second mapping and the coordinates are swapped.
echo ==
    /\ pos' = [pos EXCEPT ![shown_term_id] = Step(@)]
    /\ \/ /\ active_term_id = shown_term_id
          /\ Output(kernel_vidmem, shown_term_id)
          /\ screen' = Step(screen)
          /\ cursor' = CursorAfter(screen')
       \/ /\ active_term_id # shown_term_id
          /\ Output(Vram, shown_term_id)
          /\ cursor' = CursorAfter(Step(cursor[shown_term_id]))
          /\ UNCHANGED screen
    /\ UNCHANGED <<active_term_id, shown_term_id, pageVars, vidmap_flags>>

\* Ctrl+L: clear() empties the page behind video_mem and homes the coordinates
\* of the terminal on the screen.
clear ==
    /\ page' = [page EXCEPT ![kernel_vidmem] = {}]
    /\ cursor' = CursorAfter(0)
    /\ screen' = IF shown_term_id = active_term_id THEN 0 ELSE screen
    /\ pos' = [pos EXCEPT ![shown_term_id] = 0]
    /\ UNCHANGED <<active_term_id, shown_term_id, pageVars, vidmap_flags>>

\* The active terminal's process stores through the address vidmap() gave it,
\* as fish does for every character that blinks.
UserWrites ==
    /\ user_present
    /\ Output(user_vidmem, active_term_id)
    /\ UNCHANGED <<active_term_id, shown_term_id, pageVars, coordVars, vidmap_flags>>

-----------------------------------------------------------------------------
(* System calls of the active terminal's process.                           *)

SetFlags(fs) == vidmap_flags' = [vidmap_flags EXCEPT ![active_term_id] = fs]

\* The page vidmap() maps: in the background it goes by the caller's pid, which
\* is the terminal's number only for a base shell.
VidmapPage ==
    IF active_term_id = shown_term_id THEN Vram
    ELSE IF Depth(active_term_id) = 1 THEN active_term_id ELSE Stray

vidmap ==
    /\ SetFlags([vidmap_flags[active_term_id] EXCEPT ![Depth(active_term_id)] = TRUE])
    /\ user_present' = TRUE
    /\ user_vidmem' = VidmapPage
    /\ UNCHANGED <<active_term_id, shown_term_id, page, kernel_vidmem, coordVars>>

\* execute(): the mapping stays as the caller had it until the next switch.
execute ==
    /\ Depth(active_term_id) < MaxDepth
    /\ SetFlags(Append(vidmap_flags[active_term_id], FALSE))
    /\ UNCHANGED <<active_term_id, shown_term_id, page, pageVars, coordVars>>

\* halt(): likewise; a base shell starts again without the mapping's flag.
halt ==
    /\ SetFlags(IF Depth(active_term_id) = 1 THEN <<FALSE>>
                ELSE SubSeq(vidmap_flags[active_term_id], 1, Depth(active_term_id) - 1))
    /\ UNCHANGED <<active_term_id, shown_term_id, page, pageVars, coordVars>>

-----------------------------------------------------------------------------
(* Switches.                                                                *)

\* Mutant: the mapping is chosen for the terminal that is being left.
PageForLeft(next_id) == PageOf(active_term_id)

\* The page both mappings get when terminal next_id becomes active.
PageFor(next_id) == PageOf(next_id)

\* pit_handler()
pit_handler ==
    LET next_id == (active_term_id + 1) % TERMINAL_COUNT
        saved   == [cursor EXCEPT ![active_term_id] = screen]
    IN  /\ active_term_id' = next_id
        /\ cursor' = saved
        /\ screen' = saved[next_id]
        /\ kernel_vidmem' = PageFor(next_id)
        /\ user_vidmem' = PageFor(next_id)
        /\ user_present' = Flag(next_id)
        /\ UNCHANGED <<shown_term_id, page, pos, vidmap_flags>>

\* Mutant: the incoming page is shown before the outgoing one is saved.
SwappedShowFirst(next_id) ==
    [page EXCEPT ![shown_term_id] = page[next_id], ![Vram] = page[next_id]]

\* switch_terminal() saves the video page and shows the other terminal's.
Swapped(next_id) ==
    [page EXCEPT ![shown_term_id] = page[Vram], ![Vram] = page[next_id]]

switch_terminal(next_id) ==
    LET saved == [cursor EXCEPT ![active_term_id] = screen]
    IN  /\ next_id # shown_term_id
        /\ page' = Swapped(next_id)
        /\ cursor' = saved
        /\ screen' = saved[next_id]
        /\ kernel_vidmem' = Vram
        /\ user_vidmem' = Vram
        /\ active_term_id' = next_id
        /\ shown_term_id' = next_id
        /\ user_present' = Flag(next_id)
        /\ UNCHANGED <<pos, vidmap_flags>>

-----------------------------------------------------------------------------
Next ==
    \/ putc \/ echo \/ clear \/ UserWrites
    \/ vidmap \/ execute \/ halt
    \/ pit_handler
    \/ \E n \in Term : switch_terminal(n)

Spec == Init /\ [][Next]_vars

-----------------------------------------------------------------------------
(* Properties.                                                              *)

\* A terminal's display holds nothing but that terminal's output, wherever it
\* currently lives, though every writer goes through the same two mappings.
OwnOutputOnly == \A t \in Term : page[PageOf(t)] \subseteq {t}

\* Output continues where the terminal's own output stopped, whatever other
\* terminals wrote and whatever was echoed meanwhile.
CoordinatesKept ==
    /\ screen = pos[active_term_id]
    /\ \A t \in Term \ {active_term_id} : cursor[t] = pos[t]

\* Both mappings lead to the display of the terminal that is running, after any
\* sequence of switches and vidmap(), execute() and halt() calls.  The exception:
\* what vidmap() maps by pid in the background is a page no terminal uses, and
\* stays mapped no longer than until the next switch.
MappingsFollow ==
    /\ kernel_vidmem = PageOf(active_term_id)
    /\ \/ user_vidmem = PageOf(active_term_id)
       \/ user_vidmem = Stray /\ active_term_id # shown_term_id
=============================================================================
