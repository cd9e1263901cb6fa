--------------------------- MODULE TerminalInput ---------------------------
(***************************************************************************)
(* The line buffer of each terminal: keyboard_handler() fills the one of   *)
(* the terminal on the screen, terminal_read() of the terminal's process   *)
(* waits for Enter and copies it, terminal_write() empties it.             *)
(*                                                                         *)
(* terminal_read() runs with interrupts enabled and the build does not     *)
(* optimise, so each of its accesses to the buffer's length is a step.     *)
(* The process of terminal t finds active_term_id = t whenever it runs     *)
(* (MachineFollowsTerminal of module Kernel), so its steps are indexed by  *)
(* t and may interleave freely.  Which characters are typed is abstracted  *)
(* away: a line is its length.  entered, grown and overrun are history     *)
(* variables.                                                              *)
(***************************************************************************)
EXTENDS Integers

CONSTANTS
    Term,
    MAX_TERMINAL,   \* capacity of the line buffer
    Capacities,     \* what programs pass to read(): 1023, 127 (syserr) or 1 (sigtest)
    TabByte         \* what the length becomes when its low byte is hit by '\t'

ASSUME TerminalInputAssumption ==
    /\ MAX_TERMINAL \in Nat \ {0}
    /\ Capacities \subseteq Nat
    /\ TabByte \in Nat

VARIABLES
    length, in_progress,    \* terms[.].input
    shown_term_id,
    pc,                     \* where in terminal_read() the process is
    nbytes, count,          \* its argument, and the variable it becomes
    entered,                \* Enter was pressed here since the call began
    grown,                  \* characters the line got since the call looked at its length
    overrun                 \* Tab was stored past the end of this line buffer

inputVars == <<length, in_progress>>
readVars  == <<pc, nbytes, count>>
vars == <<inputVars, shown_term_id, readVars, entered, grown, overrun>>

Locations == {"idle", "wait", "check", "nul", "clip", "copy", "clear", "return"}

TypeOK ==
    /\ length \in [Term -> Nat]
    /\ in_progress \in [Term -> BOOLEAN]
    /\ shown_term_id \in Term
    /\ pc \in [Term -> Locations]
    /\ nbytes \in [Term -> Capacities \cup {0}]
    /\ count \in [Term -> Nat]
    /\ entered \in [Term -> BOOLEAN]
    /\ grown \in [Term -> 0..MAX_TERMINAL]
    /\ overrun \in [Term -> BOOLEAN]

\* initiate_shells()
Init ==
    /\ length = [t \in Term |-> 0]
    /\ in_progress = [t \in Term |-> FALSE]
    /\ shown_term_id \in Term
    /\ pc = [t \in Term |-> "idle"]
    /\ nbytes = [t \in Term |-> 0]
    /\ count = [t \in Term |-> 0]
    /\ entered = [t \in Term |-> FALSE]
    /\ grown = [t \in Term |-> 0]
    /\ overrun = [t \in Term |-> FALSE]

-----------------------------------------------------------------------------
(* keyboard_handler(), for the terminal on the screen.                      *)

SetLength(n) == length' = [length EXCEPT ![shown_term_id] = n]

\* A character arrives; terminal_read() may be between its comparison of the length
\* and its last use of it.  Bound: more characters than a line holds make no difference.
Grow ==
    grown' = [grown EXCEPT ![shown_term_id] =
                 IF pc[shown_term_id] \in {"nul", "clip"} /\ @ < MAX_TERMINAL THEN @ + 1 ELSE @]

\* A visible character; one that does not fit is only echoed.
KeyVisible ==
    /\ length[shown_term_id] < MAX_TERMINAL
    /\ SetLength(length[shown_term_id] + 1)
    /\ Grow
    /\ UNCHANGED <<in_progress, shown_term_id, readVars, entered, overrun>>

\* Tab has no such check: on a full line it is stored over the low byte of the
\* length itself, before or after the increment.
KeyTab ==
    /\ \/ /\ length[shown_term_id] < MAX_TERMINAL
          /\ SetLength(length[shown_term_id] + 1)
          /\ UNCHANGED overrun
       \/ /\ length[shown_term_id] = MAX_TERMINAL       \* bound: one byte past the end
          /\ \E n \in {length[shown_term_id] + 1, TabByte} : SetLength(n)
          /\ overrun' = [overrun EXCEPT ![shown_term_id] = TRUE]
    /\ Grow
    /\ UNCHANGED <<in_progress, shown_term_id, readVars, entered>>

KeyBackspace ==
    /\ length[shown_term_id] > 0
    /\ SetLength(length[shown_term_id] - 1)
    /\ UNCHANGED <<in_progress, shown_term_id, readVars, entered, grown, overrun>>

\* Mutant: Enter empties the line, as for an interactive reader.
KeyEnterClears ==
    /\ SetLength(0)
    /\ entered' = [entered EXCEPT ![shown_term_id] = pc[shown_term_id] # "idle"]
    /\ UNCHANGED <<in_progress, shown_term_id, readVars, grown, overrun>>

KeyEnter ==
    /\ in_progress' = [in_progress EXCEPT ![shown_term_id] = FALSE]
    /\ entered' = [entered EXCEPT ![shown_term_id] = pc[shown_term_id] # "idle"]
    /\ UNCHANGED <<length, shown_term_id, readVars, grown, overrun>>

\* F1..F3 change the terminal the keyboard belongs to.
KeySwitch(n) ==
    /\ n # shown_term_id
    /\ shown_term_id' = n
    /\ UNCHANGED <<inputVars, readVars, entered, grown, overrun>>

keyboard_handler ==
    \/ KeyVisible \/ KeyTab \/ KeyBackspace \/ KeyEnter \/ \E n \in Term : KeySwitch(n)

-----------------------------------------------------------------------------
(* The process of terminal t.                                               *)

At(t, l) == pc[t] = l
Goto(t, l) == pc' = [pc EXCEPT ![t] = l]

\* Mutant: the wait is for an Enter since the last read, not since this one.
ReadBeginsLate(t, n) ==
    /\ At(t, "idle")
    /\ n > 0
    /\ nbytes' = [nbytes EXCEPT ![t] = n]
    /\ count' = [count EXCEPT ![t] = n]
    /\ Goto(t, "wait")
    /\ UNCHANGED <<inputVars, shown_term_id, entered, grown, overrun>>

\* terminal_read(): start recording; -1 for an empty buffer ...
ReadBegins(t, n) ==
    /\ At(t, "idle")
    /\ n > 0
    /\ in_progress' = [in_progress EXCEPT ![t] = TRUE]
    /\ nbytes' = [nbytes EXCEPT ![t] = n]
    /\ count' = [count EXCEPT ![t] = n]
    /\ Goto(t, "wait")
    /\ UNCHANGED <<length, shown_term_id, entered, grown, overrun>>

\* ... spin until Enter ...
ReadWaits(t) ==
    /\ At(t, "wait") /\ ~in_progress[t]
    /\ Goto(t, "check")
    /\ UNCHANGED <<inputVars, shown_term_id, nbytes, count, entered, grown, overrun>>

\* Mutant: room for the NUL is not asked for.
ReadComparesWithoutRoom(t) ==
    /\ At(t, "check")
    /\ Goto(t, IF count[t] >= length[t] THEN "nul" ELSE "copy")
    /\ UNCHANGED <<inputVars, shown_term_id, nbytes, count, entered, grown, overrun>>

\* ... if the line is shorter than the buffer ...
ReadCompares(t) ==
    /\ At(t, "check")
    /\ Goto(t, IF count[t] > length[t] THEN "nul" ELSE "copy")
    /\ UNCHANGED <<inputVars, shown_term_id, nbytes, count, entered, grown, overrun>>

\* ... store a NUL after it ...
ReadTerminates(t) ==
    /\ At(t, "nul")
    /\ Goto(t, "clip")
    /\ UNCHANGED <<inputVars, shown_term_id, nbytes, count, entered, grown, overrun>>

\* ... and copy no more than it; each time the length is read anew ...
ReadClips(t) ==
    /\ At(t, "clip")
    /\ count' = [count EXCEPT ![t] = length[t]]
    /\ Goto(t, "copy")
    /\ UNCHANGED <<inputVars, shown_term_id, nbytes, entered, grown, overrun>>

\* The last use of the call's variables.
Forget(t) ==
    /\ nbytes' = [nbytes EXCEPT ![t] = 0]
    /\ count' = [count EXCEPT ![t] = 0]
    /\ grown' = [grown EXCEPT ![t] = 0]

\* ... copy ...
ReadCopies(t) ==
    /\ At(t, "copy")
    /\ Goto(t, "clear")
    /\ Forget(t)
    /\ UNCHANGED <<inputVars, shown_term_id, entered, overrun>>

\* ... empty the line ...
ReadClears(t) ==
    /\ At(t, "clear")
    /\ length' = [length EXCEPT ![t] = 0]
    /\ Goto(t, "return")
    /\ UNCHANGED <<in_progress, shown_term_id, nbytes, count, entered, grown, overrun>>

\* The call is over.
Return(t) ==
    /\ Goto(t, "idle")
    /\ Forget(t)
    /\ entered' = [entered EXCEPT ![t] = FALSE]

\* ... and go on recording.
ReadReturns(t) ==
    /\ At(t, "return")
    /\ in_progress' = [in_progress EXCEPT ![t] = TRUE]
    /\ Return(t)
    /\ UNCHANGED <<length, shown_term_id, overrun>>

\* terminal_write(), between cli and sti: what was typed ahead is dropped.
terminal_write(t) ==
    /\ At(t, "idle")
    /\ length' = [length EXCEPT ![t] = 0]
    /\ UNCHANGED <<in_progress, shown_term_id, readVars, entered, grown, overrun>>

\* What the terminal's programs do between two reads: the shell prints a prompt
\* and reads a line into 1023 bytes, the others call both in any order.
Caller(t) == terminal_write(t) \/ \E n \in Capacities : ReadBegins(t, n)

\* The process is halted by Ctrl+C, or returns for good, wherever it is.
Halted(t) ==
    /\ ~At(t, "idle")
    /\ Return(t)
    /\ UNCHANGED <<inputVars, shown_term_id, overrun>>

-----------------------------------------------------------------------------
ReadStep(t) ==
    \/ ReadWaits(t) \/ ReadCompares(t) \/ ReadTerminates(t) \/ ReadClips(t)
    \/ ReadCopies(t) \/ ReadClears(t) \/ ReadReturns(t)

Next ==
    \/ keyboard_handler
    \/ \E t \in Term : Caller(t) \/ ReadStep(t) \/ Halted(t)

Spec == Init /\ [][Next]_vars

\* The round robin gives every terminal's process the processor again and again.
FairSpec == Spec /\ \A t \in Term : WF_vars(ReadStep(t))

-----------------------------------------------------------------------------
(* Properties.                                                              *)

\* A read gets past its wait only after Enter was pressed on its own terminal
\* since it began: neither an Enter typed earlier, nor one typed while another
\* terminal was on the screen, nor what an earlier reader left behind ends it.
ReadNeedsEnter ==
    \A t \in Term : pc[t] \notin {"idle", "wait"} => entered[t]

\* How far into the caller's buffer the next statement of terminal_read() stores: the
\* NUL behind the line, or the bytes it copies.
Reach(t) ==
    CASE At(t, "nul")  -> length[t] + 1
      [] At(t, "copy") -> count[t]
      [] OTHER         -> 0

\* Neither buffer is overrun by more than the typing that the read overlaps: the line
\* fits its own whatever is typed while it is being read, and terminal_read() passes
\* the capacity it was given by no more bytes than were typed between its comparison of
\* the length and its copy (by none, then, when nothing was), and never reaches beyond
\* a line and its NUL in a buffer shorter than that (unless Tab on a full line has
\* destroyed the line's length).
ReadWithinCapacity ==
    \A t \in Term : ~overrun[t] =>
        /\ length[t] <= MAX_TERMINAL
        /\ Reach(t) <= nbytes[t] + grown[t]
        /\ Reach(t) <= nbytes[t] \/ Reach(t) <= MAX_TERMINAL + 1

\* A read that has seen Enter returns, whatever else is typed.
EnterEndsRead ==
    \A t \in Term : (pc[t] # "idle" /\ entered[t]) ~> pc[t] = "idle"
=============================================================================
