------------------------------ MODULE Console ------------------------------
(***************************************************************************)
(* The line a user types and the cells it occupies on the screen: putc()   *)
(* with its tabs, backspaces and scrolling, under the keys that edit the   *)
(* line and the writes and reads of the program.  One terminal, on the     *)
(* screen and active; what several do to each other is in Screen, and how  *)
(* terminal_read() loses to the keyboard in TerminalInput.                 *)
(***************************************************************************)
EXTENDS Integers, SequencesExt

CONSTANTS
    COLS, ROWS,         \* NUM_COLS, a multiple of 4, and NUM_ROWS: 80, 25
    MAX_TERMINAL,       \* the line's capacity
    Writes              \* what a program writes: sequences of characters

\* The longest line, with four cells to a character, fits above the last row.
ConsoleAssumption ==
    /\ COLS \in Nat \ {0} /\ COLS % 4 = 0 /\ ROWS \in Nat \ {0}
    /\ MAX_TERMINAL \in Nat /\ 4 * MAX_TERMINAL <= (ROWS - 1) * COLS
    /\ Writes \subseteq Seq(STRING)

VARIABLES
    console,            \* the video memory, screen_x and screen_y
    line,               \* terms[].input.content, up to its length
    reading,            \* where terminal_read() is
    start,              \* history: the column the line starts at, as long as it
                        \* stands on the screen in one piece; modulo 4
    stuck               \* why the model stops

vars == <<console, line, reading, start, stuck>>

NONE == -1
Cells == 0 .. ROWS * COLS - 1
BLANK == "blank"
Offset(con) == COLS * con.y + con.x

Init ==
    /\ console = [cell |-> [i \in Cells |-> BLANK], x |-> 0, y |-> 0]
    /\ line = <<>> /\ reading = "no" /\ start = 0 /\ stuck = "no"

-----------------------------------------------------------------------------
(* putc(), as functions of the console.                                     *)

scroll(con) ==
    [con EXCEPT !.cell = [i \in Cells |-> IF i + COLS \in Cells THEN @[i + COLS] ELSE BLANK], !.y = @ - 1]

NewLine(con) ==
    LET next == [con EXCEPT !.x = 0, !.y = @ + 1]
    IN  IF next.y = ROWS THEN scroll(next) ELSE next

Visible(con, c) ==
    LET next == [con EXCEPT !.cell[Offset(con)] = c, !.x = @ + 1]
    IN  IF next.x = COLS THEN NewLine(next) ELSE next

\* A tab's cells carry an attribute of their own.  No new line is begun: screen_x
\* may be left at COLS.
Tab(con) ==
    LET end == (Offset(con) \div 4 + 1) * 4
    IN  [con EXCEPT !.cell = [i \in Cells |-> IF i \in Offset(con) .. end - 1 THEN "tab" ELSE @[i]],
                    !.x = @ + end - Offset(con)]

\* Mutant: a tab counts as one cell.
ErasedOne(con) == 1

\* How many cells '\b' takes back: one, or the cells of a tab, at most four.
Erased(con) ==
    LET last == Offset(con) - 1
    IN  CHOOSE n \in 1 .. 4 :
            /\ \A i \in 1 .. n - 1 : con.cell[last] = "tab" /\ con.cell[last - i] = "tab"
            /\ n = 4 \/ last - n < 0 \/ con.cell[last] # "tab" \/ con.cell[last - n] # "tab"

Backspace(con) ==
    LET n == Erased(con)
        cells == (Offset(con) - n) .. (Offset(con) - 1)
    IN  [cell |-> [i \in Cells |-> IF i \in cells THEN BLANK ELSE con.cell[i]],
         x |-> IF con.x >= n THEN con.x - n ELSE con.x + COLS - n,
         y |-> IF con.x >= n THEN con.y ELSE con.y - 1]

putc(con, c) ==
    CASE c = "nl" -> NewLine(con) [] c = "tab" -> Tab(con) [] OTHER -> Visible(con, c)

\* After a tab that ended at the end of a row, output runs on past the row without
\* ever meeting its end again; the model stops there.
RunsOn(con, c) == c # "nl" /\ con.x >= COLS

Put(c) ==
    /\ stuck = "no"
    /\ stuck' = IF RunsOn(console, c) THEN "past the row" ELSE "no"
    /\ console' = IF RunsOn(console, c) THEN console ELSE putc(console, c)

-----------------------------------------------------------------------------
(* The keyboard.                                                            *)

\* A character is echoed even when there is no room for it.
KeyVisible ==
    /\ Put("a")
    /\ IF Len(line) < MAX_TERMINAL
       THEN line' = Append(line, "a") /\ UNCHANGED start
       ELSE start' = NONE /\ UNCHANGED line
    /\ UNCHANGED reading

\* On a full line the tab goes over the length: TerminalInput.
KeyTab ==
    /\ Len(line) < MAX_TERMINAL
    /\ Put("tab") /\ line' = Append(line, "tab")
    /\ UNCHANGED <<reading, start>>

\* In the upper left corner putc() looks at the attribute in front of the screen,
\* on a page that is not mapped, before it sees that there is nothing to delete.
KeyBackspace ==
    /\ stuck = "no" /\ line # <<>>
    /\ IF Offset(console) = 0
       THEN stuck' = "page fault" /\ UNCHANGED <<console, line>>
       ELSE console' = Backspace(console) /\ line' = Front(line) /\ UNCHANGED stuck
    /\ UNCHANGED <<reading, start>>

\* The line stays until it is read: it is now above the cursor.
KeyEnter ==
    /\ Put("nl")
    /\ reading' = IF reading = "waiting" THEN "entered" ELSE reading
    /\ start' = NONE
    /\ UNCHANGED line

\* Ctrl+L: clear() takes the line off the screen and leaves it in the buffer.
clear ==
    /\ stuck = "no"
    /\ console' = [cell |-> [i \in Cells |-> BLANK], x |-> 0, y |-> 0]
    /\ start' = IF line = <<>> THEN 0 ELSE NONE
    /\ UNCHANGED <<line, reading, stuck>>

-----------------------------------------------------------------------------
(* The program.                                                             *)

\* terminal_read() and terminal_write() empty the line; the next one starts here.
LineEmptied(con) == line' = <<>> /\ start' = con.x % 4

ReadBegins == stuck = "no" /\ reading = "no" /\ reading' = "waiting" /\ UNCHANGED <<console, line, start, stuck>>
ReadEnds == stuck = "no" /\ reading = "entered" /\ reading' = "no" /\ LineEmptied(console) /\ UNCHANGED <<console, stuck>>

\* The console after each character of s.
Printed(s) ==
    LET put[k \in 0 .. Len(s)] == IF k = 0 THEN console ELSE putc(put[k - 1], s[k])
    IN  put

terminal_write(s) ==
    LET stops == \E k \in 1 .. Len(s) : RunsOn(Printed(s)[k - 1], s[k]) IN
    /\ stuck = "no" /\ reading = "no"
    /\ stuck' = IF stops THEN "past the row" ELSE "no"
    /\ console' = IF stops THEN console ELSE Printed(s)[Len(s)]
    /\ LineEmptied(console')
    /\ UNCHANGED reading

Next ==
    \/ KeyVisible \/ KeyTab \/ KeyBackspace \/ KeyEnter \/ clear
    \/ ReadBegins \/ ReadEnds
    \/ \E s \in Writes : terminal_write(s)

Spec == Init /\ [][Next]_vars

-----------------------------------------------------------------------------
\* Every variable has its type; the coordinates are on the screen, or just behind
\* the end of a row.
TypeOK ==
    /\ DOMAIN console.cell = Cells /\ console.x \in 0 .. COLS /\ console.y \in 0 .. ROWS - 1
    /\ line \in Seq({"a", "tab"}) /\ Len(line) <= MAX_TERMINAL
    /\ reading \in {"no", "waiting", "entered"}
    /\ start \in NONE .. 3
    /\ stuck \in {"no", "past the row", "page fault"}

\* Where the k-th character of the line ends, counted from the tab stop before it.
EndOf ==
    LET end[k \in 0 .. Len(line)] ==
            IF k = 0 THEN start
            ELSE IF line[k] = "tab" THEN (end[k - 1] \div 4 + 1) * 4 ELSE end[k - 1] + 1
    IN  end

LineInFront ==
    LET first == Offset(console) - EndOf[Len(line)]
    IN  \A k \in DOMAIN line : \A i \in EndOf[k - 1] .. EndOf[k] - 1 :
            first + i \in Cells /\ console.cell[first + i] = line[k]
BlankAhead == \A i \in Cells : i >= Offset(console) => console.cell[i] = BLANK

\* What the user sees is what the program will read: the cells in front of the
\* cursor are the line, tabs included, however it was edited, over the ends of rows
\* and through scrolling.  From the cursor on the screen is empty: nothing of a
\* deleted character is left, and nothing that was printed is overwritten.
LineShown == stuck = "no" => BlankAhead /\ (start # NONE => LineInFront)

\* Backspace in the upper left corner deletes nothing, and does no harm: what
\* putc() promises.  It does not hold after Ctrl+L on a line that is not empty.
BackspaceStays == stuck # "page fault"
=============================================================================
