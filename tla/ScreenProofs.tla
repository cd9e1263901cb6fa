---------------------------- MODULE ScreenProofs ----------------------------
(***************************************************************************)
(* Proofs about module Screen, for any number of terminals, programs and   *)
(* positions.  The three properties need each other: output stays on its   *)
(* terminal's page because the mappings follow the active terminal, and    *)
(* switch_terminal() may exchange the pages because each holds its own     *)
(* terminal's output only.                                                 *)
(*                                                                         *)
(* The second part is about module Console, for a screen of any size: the  *)
(* characters of the line are in front of the cursor in one piece          *)
(* (Stands), everything behind it is blank, and a tab's cells reach to a   *)
(* tab stop.  Hence '\b' takes back as many cells as the last character    *)
(* has, though putc() only looks for cells that a tab might have left.     *)
(***************************************************************************)
EXTENDS Screen, SequenceTheorems, WellFoundedInduction, TLAPS

CONSTANTS COLS, ROWS, MAX_TERMINAL, Writes

VARIABLES console, line, reading, start, stuck

C == INSTANCE Console

\* Every terminal has a process at all times.
SomeProcess == \A t \in Term : Depth(t) >= 1

ScreenInv ==
    /\ TypeOK
    /\ SomeProcess
    /\ OwnOutputOnly
    /\ CoordinatesKept
    /\ MappingsFollow

\* The video page and the stray page are no terminal's backing page.
LEMMA PagesDiffer ==
    /\ TERMINAL_COUNT \in Nat /\ 0 \in Term /\ Term \subseteq Nat
    /\ Vram \in Pages /\ Stray \in Pages /\ Term \subseteq Pages
    /\ Vram \notin Term /\ Stray \notin Term /\ Vram # Stray
  BY ScreenAssumption DEF Term, Vram, Stray, Pages

\* A terminal's page is the screen's if it is shown, and else its own.
LEMMA PageOfTerminal ==
    ASSUME NEW t \in Term
    PROVE  PageOf(t) \in Pages /\ PageOf(t) # Stray
  BY PagesDiffer DEF PageOf

\* The displays of two terminals are two pages.
LEMMA DisplaysDiffer ==
    ASSUME NEW t \in Term, NEW u \in Term, t # u
    PROVE  PageOf(t) # PageOf(u)
  BY PagesDiffer DEF PageOf

\* Coordinates stay within their modulus.
LEMMA StepInRange ==
    /\ 0 \in 0 .. (MaxPos - 1)
    /\ \A c \in 0 .. (MaxPos - 1) : Step(c) \in 0 .. (MaxPos - 1)
  BY ScreenAssumption DEF Step

\* The round robin leads to a terminal.
LEMMA NextTerminal ==
    ASSUME NEW t \in Term
    PROVE  (t + 1) % TERMINAL_COUNT \in Term
  BY ScreenAssumption DEF Term

\* What a terminal stores to a page it may use shows on no other display.
LEMMA OutputStays ==
    ASSUME TypeOK, OwnOutputOnly, NEW t \in Term, NEW g \in Pages,
           g = PageOf(t) \/ g = Stray, Output(g, t)
    PROVE  /\ page' \in [Pages -> SUBSET Term]
           /\ \A u \in Term : page'[PageOf(u)] \subseteq {u}
  <1>1. CASE g = Stray
    BY <1>1 DEF Output, TypeOK, OwnOutputOnly
  <1>2. CASE g # Stray
    <2>1. g = PageOf(t) /\ page' = [page EXCEPT ![g] = @ \cup {t}]
      BY <1>2 DEF Output
    <2>2. page \in [Pages -> SUBSET Term]
      BY DEF TypeOK
    <2>3. page' \in [Pages -> SUBSET Term]
      BY <2>1, <2>2
    <2>4. ASSUME NEW u \in Term PROVE page'[PageOf(u)] \subseteq {u}
      <3>1. PageOf(u) \in Pages /\ page[PageOf(u)] \subseteq {u}
        BY PageOfTerminal DEF OwnOutputOnly
      <3>2. CASE u = t
        BY <2>1, <2>2, <3>1, <3>2
      <3>3. CASE u # t
        BY <2>1, <2>2, <3>1, <3>3, DisplaysDiffer
      <3>4. QED
        BY <3>2, <3>3
    <2>5. QED
      BY <2>3, <2>4
  <1>3. QED
    BY <1>1, <1>2

\* The screens initiate_shells() sets up.
LEMMA InitScreenInv == Init => ScreenInv
  <1> SUFFICES ASSUME Init PROVE ScreenInv
    OBVIOUS
  <1> USE DEF Init
  <1>1. TypeOK
    <2>1. <<FALSE>> \in Seq(BOOLEAN)
      OBVIOUS
    <2>2. vidmap_flags \in [Term -> Seq(BOOLEAN)]
      BY <2>1
    <2>3. page \in [Pages -> SUBSET Term]
      OBVIOUS
    <2>4. cursor \in [Term -> 0 .. (MaxPos - 1)] /\ pos \in [Term -> 0 .. (MaxPos - 1)]
      BY StepInRange
    <2>5. QED
      BY <2>2, <2>3, <2>4, PagesDiffer, StepInRange DEF TypeOK
  <1>2. SomeProcess
    BY DEF SomeProcess, Depth
  <1>3. OwnOutputOnly
    BY PageOfTerminal DEF OwnOutputOnly
  <1>4. CoordinatesKept
    BY PagesDiffer DEF CoordinatesKept
  <1>5. MappingsFollow
    BY DEF MappingsFollow, PageOf
  <1>6. QED
    BY <1>1, <1>2, <1>3, <1>4, <1>5 DEF ScreenInv

-----------------------------------------------------------------------------
(* Output.                                                                  *)

\* A program's output goes to its own terminal's page, where that has got to.
LEMMA PutcPreserves ==
    ASSUME ScreenInv, putc
    PROVE  ScreenInv'
  <1> USE DEF ScreenInv, putc
  <1>1. /\ page' \in [Pages -> SUBSET Term]
        /\ \A u \in Term : page'[PageOf(u)] \subseteq {u}
    BY OutputStays DEF TypeOK, MappingsFollow
  <1>2. screen' \in 0 .. (MaxPos - 1) /\ cursor' \in [Term -> 0 .. (MaxPos - 1)]
    BY StepInRange DEF TypeOK, CursorAfter
  <1>3. TypeOK'
    BY <1>1, <1>2, StepInRange DEF TypeOK, pageVars
  <1>4. SomeProcess'
    BY DEF SomeProcess, Depth
  <1>5. OwnOutputOnly'
    BY <1>1 DEF OwnOutputOnly, PageOf
  <1>6. CoordinatesKept'
    BY DEF CoordinatesKept, TypeOK, CursorAfter
  <1>7. MappingsFollow'
    BY DEF MappingsFollow, PageOf, pageVars
  <1>8. QED
    BY <1>3, <1>4, <1>5, <1>6, <1>7

\* The keyboard's output goes to the shown terminal's, with the running one's kept.
LEMMA EchoPreserves ==
    ASSUME ScreenInv, echo
    PROVE  ScreenInv'
  <1> USE DEF ScreenInv, echo
  <1>1. /\ page' \in [Pages -> SUBSET Term]
        /\ \A u \in Term : page'[PageOf(u)] \subseteq {u}
    <2>1. PageOf(shown_term_id) = Vram /\ shown_term_id \in Term
      BY DEF PageOf, TypeOK
    <2>2. Output(Vram, shown_term_id)
      BY <2>1 DEF MappingsFollow
    <2>3. QED
      BY <2>1, <2>2, OutputStays, PagesDiffer
  <1>2. screen' \in 0 .. (MaxPos - 1) /\ cursor' \in [Term -> 0 .. (MaxPos - 1)]
    BY StepInRange DEF TypeOK, CursorAfter
  <1>3. TypeOK'
    BY <1>1, <1>2, StepInRange DEF TypeOK, pageVars
  <1>4. SomeProcess'
    BY DEF SomeProcess, Depth
  <1>5. OwnOutputOnly'
    BY <1>1 DEF OwnOutputOnly, PageOf
  <1>6. CoordinatesKept'
    <2>1. CASE active_term_id = shown_term_id
      BY <2>1 DEF CoordinatesKept, TypeOK, CursorAfter
    <2>2. CASE active_term_id # shown_term_id
      BY <2>2 DEF CoordinatesKept, TypeOK, CursorAfter
    <2>3. QED
      BY <2>1, <2>2
  <1>7. MappingsFollow'
    BY DEF MappingsFollow, PageOf, pageVars
  <1>8. QED
    BY <1>3, <1>4, <1>5, <1>6, <1>7

\* Ctrl+L clears one page and sends the shown terminal's output back to the corner.
LEMMA ClearPreserves ==
    ASSUME ScreenInv, clear
    PROVE  ScreenInv'
  <1> USE DEF ScreenInv, clear
  <1>1. /\ page' \in [Pages -> SUBSET Term]
        /\ \A u \in Term : page'[PageOf(u)] \subseteq {u}
    BY PageOfTerminal DEF TypeOK, OwnOutputOnly
  <1>2. screen' \in 0 .. (MaxPos - 1) /\ cursor' \in [Term -> 0 .. (MaxPos - 1)]
    BY StepInRange DEF TypeOK, CursorAfter
  <1>3. TypeOK'
    BY <1>1, <1>2, StepInRange DEF TypeOK, pageVars
  <1>4. SomeProcess'
    BY DEF SomeProcess, Depth
  <1>5. OwnOutputOnly'
    BY <1>1 DEF OwnOutputOnly, PageOf
  <1>6. CoordinatesKept'
    BY DEF CoordinatesKept, TypeOK, CursorAfter
  <1>7. MappingsFollow'
    BY DEF MappingsFollow, PageOf, pageVars
  <1>8. QED
    BY <1>3, <1>4, <1>5, <1>6, <1>7

\* fish stores to its terminal's display, or where nobody looks.
LEMMA UserWritesPreserves ==
    ASSUME ScreenInv, UserWrites
    PROVE  ScreenInv'
  <1> USE DEF ScreenInv, UserWrites
  <1>1. /\ page' \in [Pages -> SUBSET Term]
        /\ \A u \in Term : page'[PageOf(u)] \subseteq {u}
    BY OutputStays DEF TypeOK, MappingsFollow
  <1>2. TypeOK'
    BY <1>1 DEF TypeOK, pageVars, coordVars
  <1>3. SomeProcess'
    BY DEF SomeProcess, Depth
  <1>4. OwnOutputOnly'
    BY <1>1 DEF OwnOutputOnly, PageOf
  <1>5. CoordinatesKept' /\ MappingsFollow'
    BY DEF CoordinatesKept, MappingsFollow, PageOf, pageVars, coordVars
  <1>6. QED
    BY <1>2, <1>3, <1>4, <1>5

-----------------------------------------------------------------------------
(* System calls.                                                            *)

\* The flags of the active terminal's processes change, and of no other's.
LEMMA FlagsPreserve ==
    ASSUME ScreenInv, NEW fs \in Seq(BOOLEAN), Len(fs) >= 1, SetFlags(fs)
    PROVE  vidmap_flags' \in [Term -> Seq(BOOLEAN)] /\ SomeProcess'
  BY DEF ScreenInv, TypeOK, SomeProcess, Depth, SetFlags

\* The process of a terminal has a flag.
LEMMA FlagIsBoolean ==
    ASSUME ScreenInv, NEW t \in Term
    PROVE  /\ vidmap_flags[t] \in Seq(BOOLEAN) /\ Depth(t) \in Nat /\ Depth(t) >= 1
           /\ Flag(t) \in BOOLEAN
  <1>1. vidmap_flags[t] \in Seq(BOOLEAN) /\ Depth(t) \in Nat /\ Depth(t) >= 1
    BY DEF ScreenInv, TypeOK, SomeProcess, Depth
  <1>2. QED
    BY <1>1, ElementOfSeq DEF Flag, Depth

\* vidmap() maps the page of the process that runs, or one named by its pid.
LEMMA VidmapPreserves ==
    ASSUME ScreenInv, vidmap
    PROVE  ScreenInv'
  <1> DEFINE fs == [vidmap_flags[active_term_id] EXCEPT ![Depth(active_term_id)] = TRUE]
  <1>1. active_term_id \in Term
    BY DEF ScreenInv, TypeOK
  <1>2. fs \in Seq(BOOLEAN) /\ Len(fs) >= 1
    BY <1>1, FlagIsBoolean, ExceptSeq DEF Depth
  <1>3. vidmap_flags' \in [Term -> Seq(BOOLEAN)] /\ SomeProcess'
    BY <1>2, FlagsPreserve DEF vidmap
  <1> USE DEF ScreenInv, vidmap
  <1>4. VidmapPage \in Pages
    BY PagesDiffer DEF VidmapPage, TypeOK
  <1>5. TypeOK'
    BY <1>3, <1>4 DEF TypeOK, coordVars
  <1>6. OwnOutputOnly' /\ CoordinatesKept'
    BY DEF OwnOutputOnly, CoordinatesKept, PageOf, coordVars
  <1>7. MappingsFollow'
    BY DEF MappingsFollow, PageOf, VidmapPage
  <1>8. QED
    BY <1>3, <1>5, <1>6, <1>7

\* execute() leaves the mapping and starts a program without the flag.
LEMMA ExecutePreserves ==
    ASSUME ScreenInv, execute
    PROVE  ScreenInv'
  <1> DEFINE fs == Append(vidmap_flags[active_term_id], FALSE)
  <1>1. active_term_id \in Term
    BY DEF ScreenInv, TypeOK
  <1>2. fs \in Seq(BOOLEAN) /\ Len(fs) >= 1
    BY <1>1, FlagIsBoolean, AppendProperties DEF Depth
  <1>3. vidmap_flags' \in [Term -> Seq(BOOLEAN)] /\ SomeProcess'
    BY <1>2, FlagsPreserve DEF execute
  <1> USE DEF ScreenInv, execute
  <1>4. TypeOK'
    BY <1>3 DEF TypeOK, pageVars, coordVars
  <1>5. OwnOutputOnly' /\ CoordinatesKept' /\ MappingsFollow'
    BY DEF OwnOutputOnly, CoordinatesKept, MappingsFollow, PageOf, pageVars, coordVars
  <1>6. QED
    BY <1>3, <1>4, <1>5

\* halt() returns to a process of the same terminal.
LEMMA HaltPreserves ==
    ASSUME ScreenInv, halt
    PROVE  ScreenInv'
  <1> DEFINE fs == IF Depth(active_term_id) = 1 THEN <<FALSE>>
                   ELSE SubSeq(vidmap_flags[active_term_id], 1, Depth(active_term_id) - 1)
  <1>1. active_term_id \in Term
    BY DEF ScreenInv, TypeOK
  <1>2. fs \in Seq(BOOLEAN) /\ Len(fs) >= 1
    <2>1. CASE Depth(active_term_id) = 1
      BY <2>1
    <2>2. CASE Depth(active_term_id) # 1
      <3>1. /\ vidmap_flags[active_term_id] \in Seq(BOOLEAN)
            /\ Depth(active_term_id) \in Nat /\ Depth(active_term_id) >= 2
        BY <1>1, <2>2, FlagIsBoolean
      <3>2. \A i \in 1 .. Depth(active_term_id) - 1 :
                vidmap_flags[active_term_id][i] \in BOOLEAN
        BY <3>1, ElementOfSeq DEF Depth
      <3>3. QED
        BY <2>2, <3>1, <3>2, SubSeqProperties
    <2>3. QED
      BY <2>1, <2>2
  <1>3. vidmap_flags' \in [Term -> Seq(BOOLEAN)] /\ SomeProcess'
    BY <1>2, FlagsPreserve DEF halt
  <1> USE DEF ScreenInv, halt
  <1>4. TypeOK'
    BY <1>3 DEF TypeOK, pageVars, coordVars
  <1>5. OwnOutputOnly' /\ CoordinatesKept' /\ MappingsFollow'
    BY DEF OwnOutputOnly, CoordinatesKept, MappingsFollow, PageOf, pageVars, coordVars
  <1>6. QED
    BY <1>3, <1>4, <1>5

-----------------------------------------------------------------------------
(* Switches.                                                                *)

\* The coordinates of the terminal that is left are saved, those of the next one
\* are taken up; both where their output stopped.
LEMMA SavedCoordinates ==
    ASSUME ScreenInv, NEW next_id \in Term,
           cursor' = [cursor EXCEPT ![active_term_id] = screen],
           screen' = cursor'[next_id], pos' = pos, active_term_id' = next_id
    PROVE  /\ CoordinatesKept'
           /\ cursor' \in [Term -> 0 .. (MaxPos - 1)] /\ screen' \in 0 .. (MaxPos - 1)
  BY DEF ScreenInv, TypeOK, CoordinatesKept

\* The timer moves both mappings to the next terminal's page.
LEMMA PitPreserves ==
    ASSUME ScreenInv, pit_handler
    PROVE  ScreenInv'
  <1> DEFINE next_id == (active_term_id + 1) % TERMINAL_COUNT
  <1>1. next_id \in Term
    BY NextTerminal DEF ScreenInv, TypeOK
  <1>2. CoordinatesKept' /\ cursor' \in [Term -> 0 .. (MaxPos - 1)] /\ screen' \in 0 .. (MaxPos - 1)
    BY <1>1, SavedCoordinates DEF pit_handler
  <1>3. Flag(next_id) \in BOOLEAN /\ PageFor(next_id) \in Pages
    BY <1>1, FlagIsBoolean, PageOfTerminal DEF PageFor
  <1> USE DEF ScreenInv, pit_handler
  <1>4. TypeOK'
    BY <1>1, <1>2, <1>3 DEF TypeOK
  <1>5. SomeProcess' /\ OwnOutputOnly'
    BY DEF SomeProcess, Depth, OwnOutputOnly, PageOf
  <1>6. MappingsFollow'
    BY DEF MappingsFollow, PageFor, PageOf
  <1>7. QED
    BY <1>2, <1>4, <1>5, <1>6

\* The display of the terminal that leaves the screen moves to its backing page,
\* that of the next one to the video page.
LEMMA SwitchPreserves ==
    ASSUME ScreenInv, NEW next_id \in Term, switch_terminal(next_id)
    PROVE  ScreenInv'
  <1>1. CoordinatesKept' /\ cursor' \in [Term -> 0 .. (MaxPos - 1)] /\ screen' \in 0 .. (MaxPos - 1)
    BY SavedCoordinates DEF switch_terminal
  <1>2. Flag(next_id) \in BOOLEAN
    BY FlagIsBoolean
  <1> USE DEF ScreenInv, switch_terminal
  <1>3. /\ page \in [Pages -> SUBSET Term] /\ shown_term_id \in Term /\ shown_term_id # next_id
        /\ shown_term_id \in Pages /\ next_id \in Pages /\ Vram \in Pages /\ Vram \notin Term
    BY PagesDiffer DEF TypeOK
  <1>4. /\ page' \in [Pages -> SUBSET Term]
        /\ page'[Vram] = page[next_id] /\ page'[shown_term_id] = page[Vram]
        /\ \A t \in Term \ {shown_term_id} : page'[t] = page[t]
    BY <1>3, PagesDiffer DEF Swapped
  <1>5. TypeOK'
    BY <1>1, <1>2, <1>3, <1>4 DEF TypeOK
  <1>6. OwnOutputOnly'
    <2> SUFFICES ASSUME NEW t \in Term PROVE page'[PageOf(t)'] \subseteq {t}
      BY DEF OwnOutputOnly
    <2>1. CASE t = next_id
      BY <1>3, <1>4, <2>1 DEF PageOf, OwnOutputOnly
    <2>2. CASE t = shown_term_id
      BY <1>3, <1>4, <2>2 DEF PageOf, OwnOutputOnly
    <2>3. CASE t # next_id /\ t # shown_term_id
      BY <1>3, <1>4, <2>3 DEF PageOf, OwnOutputOnly
    <2>4. QED
      BY <2>1, <2>2, <2>3
  <1>7. SomeProcess' /\ MappingsFollow'
    BY DEF SomeProcess, Depth, MappingsFollow, PageOf
  <1>8. QED
    BY <1>1, <1>5, <1>6, <1>7

-----------------------------------------------------------------------------
\* Every step preserves the invariant.
LEMMA NextScreenInv == ScreenInv /\ [Next]_vars => ScreenInv'
  <1> SUFFICES ASSUME ScreenInv, [Next]_vars PROVE ScreenInv'
    OBVIOUS
  <1>1. CASE putc
    BY <1>1, PutcPreserves
  <1>2. CASE echo
    BY <1>2, EchoPreserves
  <1>3. CASE clear
    BY <1>3, ClearPreserves
  <1>4. CASE UserWrites
    BY <1>4, UserWritesPreserves
  <1>5. CASE vidmap
    BY <1>5, VidmapPreserves
  <1>6. CASE execute
    BY <1>6, ExecutePreserves
  <1>7. CASE halt
    BY <1>7, HaltPreserves
  <1>8. CASE pit_handler
    BY <1>8, PitPreserves
  <1>9. ASSUME NEW n \in Term, switch_terminal(n) PROVE ScreenInv'
    BY <1>9, SwitchPreserves
  <1>10. CASE UNCHANGED vars
    BY <1>10 DEF vars, pageVars, coordVars, ScreenInv, TypeOK, SomeProcess, Depth,
                 OwnOutputOnly, CoordinatesKept, MappingsFollow, PageOf
  <1>11. QED
    BY <1>1, <1>2, <1>3, <1>4, <1>5, <1>6, <1>7, <1>8, <1>9, <1>10 DEF Next

\* For any number of terminals and processes: the inductive invariant.
THEOREM ScreenInvariant == Spec => []ScreenInv
  BY InitScreenInv, NextScreenInv, PTL DEF Spec

\* No terminal's display ever holds another terminal's output: putc(), echo(),
\* clear(), the stores through vidmap() and both switches.
THEOREM ScreenOwnOutput == Spec => []OwnOutputOnly
  <1>1. ScreenInv => OwnOutputOnly
    BY DEF ScreenInv
  <1>2. QED
    BY <1>1, ScreenInvariant, PTL

\* Every terminal's output continues where it stopped.
THEOREM ScreenCoordinates == Spec => []CoordinatesKept
  <1>1. ScreenInv => CoordinatesKept
    BY DEF ScreenInv
  <1>2. QED
    BY <1>1, ScreenInvariant, PTL

\* The kernel's and the user's mapping lead to the running terminal's display.
THEOREM ScreenMappings == Spec => []MappingsFollow
  <1>1. ScreenInv => MappingsFollow
    BY DEF ScreenInv
  <1>2. QED
    BY <1>1, ScreenInvariant, PTL

-----------------------------------------------------------------------------
(* The line on the screen.                                                  *)

\* A set of natural numbers has a least member.
LEMMA LeastMember ==
    ASSUME NEW S, S \subseteq Nat, S # {}
    PROVE  \E x \in S : \A y \in S : x <= y
  <1>1. PICK x \in S : \A y \in S : ~(<<y, x>> \in OpToRel(<, Nat))
    BY NatLessThanWellFounded, WFMin, Zenon
  <1>2. \A y \in S : y < x => <<y, x>> \in OpToRel(<, Nat)
    BY DEF OpToRel
  <1>3. \A y \in S : ~(y < x)
    BY <1>1, <1>2
  <1>4. x \in Nat /\ \A y \in S : y \in Nat
    OBVIOUS
  <1>5. QED
    BY <1>3, <1>4

\* Induction, for a set of natural numbers.
LEMMA AllFrom ==
    ASSUME NEW S, NEW m \in Nat, m \in S, \A n \in Nat : n >= m /\ n \in S => n + 1 \in S
    PROVE  \A n \in Nat : n >= m => n \in S
  <1> DEFINE N == {n \in Nat : n >= m /\ n \notin S}
  <1>1. ASSUME N # {} PROVE FALSE
    <2>1. PICK n \in N : \A k \in N : n <= k
      <3>1. N \subseteq Nat
        OBVIOUS
      <3> HIDE DEF N
      <3>2. QED
        BY <1>1, <3>1, LeastMember
    <2>2. n # m /\ n - 1 \in Nat /\ n - 1 >= m /\ n - 1 \notin N
      BY <2>1
    <2>3. QED
      BY <2>1, <2>2
  <1>2. QED
    BY <1>1

-----------------------------------------------------------------------------
(* The screen's rows.                                                       *)

\* The number of cells, and of those above the last row.
Size == ROWS * COLS
Above == (ROWS - 1) * COLS

\* Rows have whole tab stops, and the offset of a place is on the screen or just behind it.
LEMMA Rows ==
    ASSUME C!ConsoleAssumption
    PROVE  /\ COLS \in Nat /\ COLS >= 4 /\ ROWS \in Nat /\ ROWS >= 1
           /\ Size \in Nat /\ Above \in Nat /\ Size = Above + COLS /\ Above % 4 = 0
           /\ \A y \in 0 .. ROWS - 1 : /\ COLS * y \in Nat /\ (COLS * y) % 4 = 0
                                       /\ COLS * y <= Above
                                       /\ COLS * (y + 1) = COLS * y + COLS
                                       /\ y = ROWS - 1 <=> COLS * y = Above
                                       /\ y > 0 => COLS * y >= COLS /\ COLS * (y - 1) = COLS * y - COLS
  <1>1. COLS \in Nat /\ COLS >= 4 /\ ROWS \in Nat /\ ROWS >= 1 /\ ROWS - 1 \in Nat
    BY DEF C!ConsoleAssumption
  <1>2. Size \in Nat /\ Above \in Nat /\ Size = Above + COLS
    BY <1>1 DEF Size, Above
  <1>3. PICK q \in Nat : COLS = 4 * q
    BY <1>1 DEF C!ConsoleAssumption
  <1>4. \A y \in Nat : COLS * y \in Nat /\ (COLS * y) % 4 = 0
    <2> TAKE y \in Nat
    <2>1. COLS * y = 4 * (q * y) /\ q * y \in Nat
      BY <1>1, <1>3
    <2> DEFINE p == q * y
    <2> HIDE DEF p
    <2>2. (4 * p) % 4 = 0 /\ 4 * p \in Nat
      BY <2>1 DEF p
    <2>3. QED
      BY <2>1, <2>2 DEF p
  <1>5. \A y \in Nat : COLS * (y + 1) = COLS * y + COLS
    BY <1>1
  <1>6. \A y \in 0 .. ROWS - 1 : COLS * y <= Above /\ (y = ROWS - 1 <=> COLS * y = Above)
    BY <1>1 DEF Above
  <1>7. \A y \in 0 .. ROWS - 1 : y > 0 => COLS * y >= COLS /\ COLS * (y - 1) = COLS * y - COLS
    BY <1>1
  <1>8. Above % 4 = 0
    BY <1>1, <1>4 DEF Above
  <1>9. \A y \in 0 .. ROWS - 1 : y \in Nat
    BY <1>1
  <1>10. \A y \in 0 .. ROWS - 1 : /\ COLS * y \in Nat /\ (COLS * y) % 4 = 0
                                 /\ COLS * (y + 1) = COLS * y + COLS
    BY <1>4, <1>5, <1>9, Zenon
  <1>11. QED
    BY ONLY <1>1, <1>2, <1>6, <1>7, <1>8, <1>10, Zenon

-----------------------------------------------------------------------------
(* What putc() does, in terms of offsets.                                   *)

IsConsole(con) ==
    /\ DOMAIN con = {"cell", "x", "y"} /\ DOMAIN con.cell = C!Cells
    /\ con.x \in 0 .. COLS /\ con.y \in 0 .. ROWS - 1

\* Where a character that starts at n ends.
After(n, c) == IF c = "tab" THEN (n \div 4 + 1) * 4 ELSE n + 1

\* The cells, moved up by sh.
Moved(con, sh, i) == IF i + sh \in C!Cells THEN con.cell[i + sh] ELSE C!BLANK

\* next is con with c in front of the cursor, all of it moved up by sh.
Prints(con, c, next, sh) ==
    /\ IsConsole(next) /\ sh \in {0, COLS}
    /\ C!Offset(next) = After(C!Offset(con), c) - sh
    /\ \A i \in C!Cells :
            next.cell[i] = IF i + sh \in C!Offset(con) .. After(C!Offset(con), c) - 1
                           THEN c ELSE Moved(con, sh, i)
    /\ sh = COLS => C!Offset(next) = Above

\* The offset of a place, and its tab stop.
LEMMA Places ==
    ASSUME C!ConsoleAssumption, NEW con, IsConsole(con)
    PROVE  /\ C!Offset(con) \in 0 .. Size
           /\ con.x < COLS => C!Offset(con) < Size
           /\ C!Offset(con) % 4 = con.x % 4
           /\ C!Cells = 0 .. Size - 1
  <1>1. con.x \in 0 .. COLS /\ con.y \in 0 .. ROWS - 1
    BY DEF IsConsole
  <1> DEFINE d == COLS * con.y
  <1>2. /\ d \in Nat /\ d % 4 = 0 /\ d <= Above
        /\ COLS \in Nat /\ Above \in Nat /\ Size = Above + COLS
    BY <1>1, Rows
  <1>3. C!Offset(con) = d + con.x
    BY DEF C!Offset
  <1> HIDE DEF d
  <1>4. (d + con.x) % 4 = con.x % 4
    BY <1>1, <1>2
  <1>5. C!Cells = 0 .. Size - 1
    BY Rows DEF C!Cells, Size
  <1>6. d + con.x \in 0 .. Size /\ (con.x < COLS => d + con.x < Size)
    <2> DEFINE x == con.x
    <2>1. /\ x \in Nat /\ x <= COLS /\ d \in Nat /\ d <= Above
          /\ COLS \in Nat /\ Above \in Nat /\ Size = Above + COLS
      BY <1>1, <1>2
    <2> HIDE DEF x
    <2>2. d + x \in 0 .. Size /\ (x < COLS => d + x < Size)
      BY ONLY <2>1
    <2>3. QED
      BY <2>2 DEF x
  <1>7. QED
    BY ONLY <1>3, <1>4, <1>5, <1>6

\* '\n' moves the cells up by a row, or not at all.
LEMMA NewLineDoes ==
    ASSUME C!ConsoleAssumption, NEW con, IsConsole(con)
    PROVE  /\ IsConsole(C!NewLine(con))
           /\ C!NewLine(con).x = 0
           /\ \E sh \in {0, COLS} :
                /\ C!Offset(C!NewLine(con)) = COLS * con.y + COLS - sh
                /\ \A i \in C!Cells : C!NewLine(con).cell[i] = Moved(con, sh, i)
                /\ sh = COLS => C!Offset(C!NewLine(con)) = Above
  <1> DEFINE new == C!NewLine(con)
             next == [con EXCEPT !.x = 0, !.y = @ + 1]
  <1>1. con.x \in 0 .. COLS /\ con.y \in 0 .. ROWS - 1
    BY DEF IsConsole
  <1>2. /\ DOMAIN next = {"cell", "x", "y"} /\ next.cell = con.cell /\ DOMAIN next.cell = C!Cells
        /\ next.x = 0 /\ next.y = con.y + 1
    BY DEF IsConsole
  <1>3. /\ COLS \in Nat /\ COLS * (con.y + 1) = COLS * con.y + COLS /\ COLS * con.y \in Nat
        /\ (con.y = ROWS - 1 <=> COLS * con.y = Above)
    BY <1>1, Rows
  <1>4. COLS \in Nat /\ ROWS \in Nat
    BY Rows
  <1>5. CASE con.y + 1 # ROWS
    <2>1. new = next
      BY <1>2, <1>5 DEF C!NewLine
    <2> HIDE DEF next, new
    <2>2. IsConsole(new) /\ new.x = 0
      BY <1>4, <1>1, <1>2, <1>5, <2>1 DEF IsConsole
    <2>3. C!Offset(new) = COLS * con.y + COLS - 0
      BY <1>1, <1>2, <1>3, <2>1 DEF C!Offset
    <2>4. \A i \in C!Cells : new.cell[i] = Moved(con, 0, i)
      BY <1>2, <2>1 DEF Moved, C!Cells
    <2>5. COLS # 0
      BY Rows
    <2>6. QED
      BY <2>2, <2>3, <2>4, <2>5 DEF new
  <1>6. CASE con.y + 1 = ROWS
    <2>1. new = C!scroll(next)
      BY <1>2, <1>6 DEF C!NewLine
    <2> HIDE DEF next, new
    <2>2. /\ DOMAIN new = {"cell", "x", "y"} /\ DOMAIN new.cell = C!Cells
          /\ new.x = 0 /\ new.y = next.y - 1
          /\ \A i \in C!Cells : new.cell[i] = IF i + COLS \in C!Cells THEN next.cell[i + COLS] ELSE C!BLANK
      BY <1>2, <2>1 DEF C!scroll
    <2>3. IsConsole(new) /\ new.x = 0
      BY <1>4, <1>1, <1>2, <2>2 DEF IsConsole
    <2>4. C!Offset(new) = COLS * con.y + COLS - COLS /\ C!Offset(new) = Above
      BY <1>1, <1>2, <1>3, <1>6, <2>2 DEF C!Offset
    <2>5. \A i \in C!Cells : new.cell[i] = Moved(con, COLS, i)
      BY <1>2, <2>2 DEF Moved
    <2>6. QED
      BY <2>3, <2>4, <2>5 DEF new
  <1>7. QED
    BY <1>5, <1>6

\* Whole tab stops further, a place is as far from its stop.
LEMMA StopsMoved ==
    ASSUME NEW m \in Nat, NEW s \in Nat, s % 4 = 0
    PROVE  (m + s) % 4 = m % 4 /\ m + s \in Nat /\ m + 1 + s = m + s + 1
  OBVIOUS

\* Arithmetic of tab stops.
LEMMA AfterFacts ==
    ASSUME NEW n \in Nat, NEW c
    PROVE  /\ After(n, c) \in Nat /\ n < After(n, c) /\ After(n, c) <= n + 4
           /\ c = "tab" => After(n, c) % 4 = 0
           /\ c # "tab" => After(n, c) = n + 1
           /\ \A m \in Nat : m % 4 = 0 => After(m + n, c) = m + After(n, c)
           /\ \A m \in Nat : m % 4 = 0 /\ n < m => After(n, c) <= m
  BY DEF After

\* A visible character.
LEMMA VisibleDoes ==
    ASSUME C!ConsoleAssumption, NEW con, IsConsole(con), con.x < COLS, NEW c, c # "tab"
    PROVE  \E sh \in {0, COLS} : Prints(con, c, C!Visible(con, c), sh)
  <1> DEFINE new == C!Visible(con, c)
             at == C!Offset(con)
             next == [con EXCEPT !.cell[at] = c, !.x = @ + 1]
  <1>1. /\ con.x \in 0 .. COLS /\ con.y \in 0 .. ROWS - 1
        /\ COLS \in Nat /\ COLS * con.y \in Nat
    BY Rows DEF IsConsole
  <1>2. /\ at \in C!Cells /\ at \in Nat /\ C!Cells = 0 .. Size - 1
        /\ Size \in Nat /\ After(at, c) = at + 1
    <2>1. at \in 0 .. Size /\ at < Size /\ C!Cells = 0 .. Size - 1
      BY Places, Zenon
    <2> HIDE DEF at
    <2>2. QED
      BY <2>1, Rows, AfterFacts
  <1> HIDE DEF at
  <1>3. /\ DOMAIN next = {"cell", "x", "y"} /\ DOMAIN next.cell = C!Cells
        /\ next.x = con.x + 1 /\ next.y = con.y
        /\ \A i \in C!Cells : next.cell[i] = IF i = at THEN c ELSE con.cell[i]
    BY <1>2 DEF IsConsole
  <1>4. new = IF next.x = COLS THEN C!NewLine(next) ELSE next
    BY DEF C!Visible, at
  <1> HIDE DEF next, new
  <1>5. IsConsole(next)
    BY <1>1, <1>3 DEF IsConsole
  <1>6. C!Offset(next) = at + 1
    BY <1>1, <1>3 DEF C!Offset, at
  <1>7. ASSUME NEW sh \in {0, COLS}, IsConsole(new), \A i \in C!Cells : new.cell[i] = Moved(next, sh, i),
               C!Offset(new) = at + 1 - sh, sh = COLS => C!Offset(new) = Above
        PROVE  Prints(con, c, new, sh)
    <2>1. ASSUME NEW i \in C!Cells
          PROVE  new.cell[i] = IF i + sh \in at .. After(at, c) - 1 THEN c ELSE Moved(con, sh, i)
      <3>1. i + sh \in at .. After(at, c) - 1 <=> i + sh = at
        BY <1>1, <1>2
      <3>2. new.cell[i] = Moved(next, sh, i)
        BY <1>7
      <3>3. CASE i + sh \in C!Cells
        BY <1>3, <3>1, <3>2, <3>3 DEF Moved
      <3>4. CASE i + sh \notin C!Cells
        BY <1>2, <3>1, <3>2, <3>4 DEF Moved
      <3>5. QED
        BY <3>3, <3>4
    <2>2. QED
      BY <1>2, <1>7, <2>1 DEF Prints, at
  <1>8. CASE next.x = COLS
    <2>1. PICK sh \in {0, COLS} : /\ C!Offset(new) = COLS * next.y + COLS - sh
                                  /\ \A i \in C!Cells : new.cell[i] = Moved(next, sh, i)
                                  /\ sh = COLS => C!Offset(new) = Above
      BY <1>4, <1>5, <1>8, NewLineDoes
    <2>2. IsConsole(new)
      BY <1>4, <1>5, <1>8, NewLineDoes
    <2>3. COLS * next.y + COLS = at + 1
      BY <1>6, <1>8 DEF C!Offset
    <2>4. C!Offset(new) = at + 1 - sh
      <3> DEFINE d == COLS * next.y
      <3>1. C!Offset(new) = d + COLS - sh /\ d + COLS = at + 1
        BY <2>1, <2>3
      <3>2. d \in Nat /\ COLS \in Nat /\ at \in Nat /\ sh \in Nat
        BY <1>1, <1>2, <1>3
      <3> HIDE DEF d
      <3>3. QED
        BY ONLY <3>1, <3>2
    <2>5. Prints(con, c, new, sh)
      BY ONLY <1>7, <2>1, <2>2, <2>4
    <2>6. QED
      BY <2>5 DEF new
  <1>9. CASE next.x # COLS
    <2>1. COLS # 0
      BY Rows
    <2>2. \A i \in C!Cells : new.cell[i] = Moved(next, 0, i)
      BY <1>2, <1>4, <1>9 DEF Moved
    <2>3. IsConsole(new) /\ C!Offset(new) = at + 1 - 0
      BY <1>2, <1>4, <1>5, <1>6, <1>9
    <2>4. 0 \in {0, COLS} /\ (0 = COLS => C!Offset(new) = Above)
      BY <2>1
    <2>5. Prints(con, c, new, 0)
      BY ONLY <1>7, <2>2, <2>3, <2>4
    <2>6. QED
      BY <2>4, <2>5 DEF new
  <1>10. QED
    BY <1>8, <1>9

\* A tab, which never scrolls.
LEMMA TabDoes ==
    ASSUME C!ConsoleAssumption, NEW con, IsConsole(con), con.x < COLS
    PROVE  Prints(con, "tab", C!Tab(con), 0)
  <1> DEFINE new == C!Tab(con)
             at == C!Offset(con)
             end == After(at, "tab")
             d == COLS * con.y
  <1>1. /\ con.x \in 0 .. COLS /\ con.x < COLS /\ con.y \in 0 .. ROWS - 1
        /\ COLS \in Nat /\ COLS # 0 /\ COLS % 4 = 0 /\ d \in Nat /\ d % 4 = 0
    BY Rows DEF IsConsole, C!ConsoleAssumption
  <1>2. at \in Nat /\ C!Cells = 0 .. Size - 1 /\ Size \in Nat
    BY Places, Rows
  <1>3. at = d + con.x
    BY DEF C!Offset
  <1>4. /\ DOMAIN new = {"cell", "x", "y"} /\ DOMAIN new.cell = C!Cells
        /\ new.x = con.x + end - at /\ new.y = con.y
        /\ \A i \in C!Cells : new.cell[i] = IF i \in at .. end - 1 THEN "tab" ELSE con.cell[i]
    BY DEF C!Tab, IsConsole, After
  <1>5. C!Offset(new) = d + new.x
    BY <1>4 DEF C!Offset
  <1> HIDE DEF new, at, end, d
  <1>6. end \in Nat /\ at < end /\ end <= d + COLS
    <2>1. d + COLS \in Nat /\ (d + COLS) % 4 = 0
      BY <1>1, StopsMoved
    <2>2. at < d + COLS
      BY <1>1, <1>3
    <2>3. QED
      BY <1>2, <2>1, <2>2, AfterFacts DEF end
  <1>7. new.x = end - d
    BY <1>1, <1>3, <1>4, <1>6
  <1>8. new.x \in 0 .. COLS
    BY <1>1, <1>3, <1>6, <1>7
  <1>9. IsConsole(new)
    BY <1>1, <1>4, <1>8 DEF IsConsole
  <1>10. C!Offset(new) = end - 0
    BY <1>1, <1>5, <1>6, <1>7
  <1>11. \A i \in C!Cells : i + 0 = i
    BY <1>2
  <1>12. QED
    BY <1>1, <1>4, <1>9, <1>10, <1>11 DEF Prints, Moved, new, at, end

\* What putc() does to a character that is not a new line, before the end of a row.
LEMMA PutDoes ==
    ASSUME C!ConsoleAssumption, NEW con, IsConsole(con), con.x < COLS, NEW c, c # "nl"
    PROVE  \E sh \in {0, COLS} : Prints(con, c, C!putc(con, c), sh)
  <1>1. CASE c = "tab"
    BY <1>1, TabDoes DEF C!putc
  <1>2. CASE c # "tab"
    BY <1>2, VisibleDoes DEF C!putc
  <1>3. QED
    BY <1>1, <1>2

-----------------------------------------------------------------------------
(* Behind the cursor the screen is blank, and a tab reaches to a tab stop.  *)

BlankFrom(con) == \A i \in C!Cells : i >= C!Offset(con) => con.cell[i] = C!BLANK
TabsWhole(con) == \A i \in C!Cells : con.cell[i] = "tab" /\ i % 4 # 3 => con.cell[i + 1] = "tab"
Good(con) == IsConsole(con) /\ BlankFrom(con) /\ TabsWhole(con)

\* The last cell is a tab's at a tab stop only.
LEMMA TabBefore ==
    ASSUME C!ConsoleAssumption, NEW con, Good(con), C!Offset(con) > 0,
           con.cell[C!Offset(con) - 1] = "tab"
    PROVE  C!Offset(con) % 4 = 0
  <1> DEFINE at == C!Offset(con)
  <1>1. at \in 0 .. Size /\ C!Cells = 0 .. Size - 1 /\ Size \in Nat /\ Size % 4 = 0
    <2>1. Above % 4 = 0 /\ COLS % 4 = 0 /\ Size = Above + COLS /\ Above \in Nat /\ COLS \in Nat
      BY Rows DEF C!ConsoleAssumption
    <2>2. Size \in Nat /\ Size % 4 = 0
      BY <2>1, StopsMoved
    <2>3. QED
      BY <2>2, Places DEF Good
  <1>2. at > 0 /\ con.cell[at - 1] = "tab"
    OBVIOUS
  <1>3. BlankFrom(con) /\ TabsWhole(con)
    BY DEF Good
  <1>4. \A i \in C!Cells : i >= at => con.cell[i] # "tab"
    BY <1>3 DEF BlankFrom, C!BLANK
  <1>5. SUFFICES ASSUME at % 4 # 0 PROVE FALSE
    OBVIOUS
  <1> HIDE DEF at
  <1>6. at - 1 \in C!Cells /\ (at - 1) % 4 # 3 /\ at \in C!Cells /\ at - 1 + 1 = at /\ at >= at
    BY <1>1, <1>2, <1>5
  <1>7. con.cell[at - 1 + 1] = "tab"
    BY <1>2, <1>3, <1>6 DEF TabsWhole
  <1>8. QED
    BY <1>4, <1>6, <1>7

\* How much '\b' takes back.
LEMMA ErasedFacts ==
    ASSUME C!ConsoleAssumption, NEW con, Good(con), C!Offset(con) > 0
    PROVE  LET at == C!Offset(con)
               n == C!Erased(con)
           IN  /\ n \in 1 .. 4 /\ n <= at
               /\ con.cell[at - 1] # "tab" => n = 1
               /\ con.cell[at - 1] = "tab" =>
                    /\ at % 4 = 0
                    /\ \A i \in 1 .. n : con.cell[at - i] = "tab"
                    /\ n = 4 \/ n = at \/ con.cell[at - n - 1] # "tab"
  <1> DEFINE at == C!Offset(con)
             last == at - 1
             E(n) == /\ \A i \in 1 .. n - 1 : con.cell[last] = "tab" /\ con.cell[last - i] = "tab"
                     /\ n = 4 \/ last - n < 0 \/ con.cell[last] # "tab" \/ con.cell[last - n] # "tab"
             n == C!Erased(con)
  <1>1. at \in Nat /\ at > 0
    BY Places, Rows DEF Good
  <1>2. con.cell[last] = "tab" => at % 4 = 0
    BY TabBefore
  <1>3. \E k \in 1 .. 4 : E(k)
    <2>1. CASE con.cell[last] # "tab"
      <3>1. E(1)
        BY <2>1
      <3>2. QED
        BY <3>1
    <2>2. CASE con.cell[last] = "tab"
      <3>1. E(1) \/ con.cell[last - 1] = "tab"
        BY <2>2
      <3>2. con.cell[last - 1] = "tab" => E(2) \/ con.cell[last - 2] = "tab"
        BY <2>2
      <3>3. con.cell[last - 1] = "tab" /\ con.cell[last - 2] = "tab"
            => E(3) \/ con.cell[last - 3] = "tab"
        BY <2>2
      <3>4. con.cell[last - 1] = "tab" /\ con.cell[last - 2] = "tab" /\ con.cell[last - 3] = "tab"
            => E(4)
        BY <2>2
      <3>5. QED
        BY <3>1, <3>2, <3>3, <3>4
    <2>3. QED
      BY <2>1, <2>2
  <1>4. n = CHOOSE k \in 1 .. 4 : E(k)
    BY DEF C!Erased
  <1>5. n \in 1 .. 4 /\ E(n)
    <2> HIDE DEF n, E
    <2>1. QED
      BY <1>3, <1>4
  <1> HIDE DEF n, at
  <1>6. con.cell[last] # "tab" => n = 1
    BY <1>1, <1>5
  <1>7. ASSUME con.cell[last] = "tab"
        PROVE  /\ \A i \in 1 .. n : con.cell[at - i] = "tab"
               /\ n = 4 \/ n = at \/ con.cell[at - n - 1] # "tab"
               /\ n <= at
    <2>1. ASSUME NEW i \in 1 .. n PROVE con.cell[at - i] = "tab"
      <3>1. CASE i = 1
        BY <1>7, <3>1
      <3>2. CASE i # 1
        <4>1. i - 1 \in 1 .. n - 1 /\ last - (i - 1) = at - i
          BY <1>1, <1>5, <3>2
        <4>2. QED
          BY <1>5, <4>1
      <3>3. QED
        BY <3>1, <3>2
    <2>2. at >= 4
      BY <1>1, <1>2, <1>7
    <2>3. last - n = at - n - 1
      BY <1>1, <1>5
    <2>4. QED
      BY <1>1, <1>5, <1>7, <2>1, <2>2, <2>3
  <1>8. n <= at
    BY <1>1, <1>6, <1>7
  <1>9. QED
    BY <1>2, <1>5, <1>6, <1>7, <1>8 DEF n, at

\* What '\b' does, where there is something in front of the cursor.
LEMMA BackspaceDoes ==
    ASSUME C!ConsoleAssumption, NEW con, Good(con), C!Offset(con) > 0
    PROVE  LET at == C!Offset(con)
               n == C!Erased(con)
           IN  /\ IsConsole(C!Backspace(con))
               /\ C!Offset(C!Backspace(con)) = at - n
               /\ \A i \in C!Cells :
                    C!Backspace(con).cell[i] = IF i \in at - n .. at - 1 THEN C!BLANK ELSE con.cell[i]
  <1> DEFINE at == C!Offset(con)
             n == C!Erased(con)
             new == C!Backspace(con)
  <1>1. /\ con.x \in 0 .. COLS /\ con.y \in 0 .. ROWS - 1
        /\ COLS \in Nat /\ COLS * con.y \in Nat /\ COLS >= 4
    BY Rows DEF IsConsole, Good
  <1>2. at = COLS * con.y + con.x /\ at > 0 /\ at % 4 = con.x % 4
    BY Places DEF C!Offset, Good
  <1>3. n \in 1 .. 4 /\ n <= at /\ (n = 1 \/ at % 4 = 0)
    BY ErasedFacts
  <1>4. /\ DOMAIN new = {"cell", "x", "y"} /\ DOMAIN new.cell = C!Cells
        /\ new.x = IF con.x >= n THEN con.x - n ELSE con.x + COLS - n
        /\ new.y = IF con.x >= n THEN con.y ELSE con.y - 1
        /\ \A i \in C!Cells : new.cell[i] = IF i \in at - n .. at - 1 THEN C!BLANK ELSE con.cell[i]
    BY DEF C!Backspace
  <1> HIDE DEF n, at, new
  <1>5. CASE con.x >= n
    <2>1. IsConsole(new)
      BY <1>1, <1>3, <1>4, <1>5 DEF IsConsole
    <2>2. C!Offset(new) = at - n
      BY <1>1, <1>2, <1>3, <1>4, <1>5 DEF C!Offset
    <2>3. QED
      BY <1>4, <2>1, <2>2 DEF n, at, new
  <1>6. CASE con.x < n
    <2>1. con.x = 0
      BY <1>1, <1>2, <1>3, <1>6
    <2>2. con.y > 0
      BY <1>1, <1>2, <2>1
    <2>3. COLS * (con.y - 1) = COLS * con.y - COLS
      BY <1>1, <2>2, Rows
    <2>4. IsConsole(new)
      <3>1. new.x = COLS - n /\ new.y = con.y - 1
        BY <1>1, <1>3, <1>4, <1>6, <2>1
      <3>2. new.x \in 0 .. COLS /\ new.y \in 0 .. ROWS - 1
        BY <1>1, <1>3, <2>2, <3>1, Rows
      <3>3. QED
        BY <1>4, <3>2 DEF IsConsole
    <2>5. C!Offset(new) = COLS * (con.y - 1) + (COLS - n)
      BY <1>1, <1>3, <1>4, <1>6, <2>1 DEF C!Offset
    <2>6. C!Offset(new) = at - n
      BY <1>1, <1>2, <1>3, <2>1, <2>3, <2>5
    <2>7. QED
      BY <1>4, <2>4, <2>6 DEF n, at, new
  <1>7. QED
    BY <1>1, <1>3, <1>5, <1>6

\* The screen ends at a tab stop.
LEMMA CellsFacts ==
    ASSUME C!ConsoleAssumption
    PROVE  /\ Size \in Nat /\ Size % 4 = 0 /\ COLS \in Nat /\ COLS % 4 = 0 /\ C!Cells = 0 .. Size - 1
           /\ \A i \in C!Cells : i \in Nat /\ (i % 4 # 3 => i + 1 \in C!Cells)
  <1>1. Above % 4 = 0 /\ COLS % 4 = 0 /\ Size = Above + COLS /\ Above \in Nat /\ COLS \in Nat
    BY Rows DEF C!ConsoleAssumption
  <1>2. Size \in Nat /\ Size % 4 = 0
    BY <1>1, StopsMoved
  <1>3. C!Cells = 0 .. Size - 1
    BY Rows DEF C!Cells, Size
  <1>4. QED
    BY <1>1, <1>2, <1>3

\* Printing, scrolling, deleting and clearing leave the screen as it should be.
LEMMA GoodPrints ==
    ASSUME C!ConsoleAssumption, NEW con, Good(con), NEW c, NEW next, NEW sh, Prints(con, c, next, sh)
    PROVE  Good(next)
  <1> DEFINE at == C!Offset(con)
             end == After(at, c)
  <1>1. at \in Nat /\ end \in Nat /\ at < end /\ (c = "tab" => end % 4 = 0)
    <2>1. at \in Nat
      BY Places, Rows DEF Good
    <2> HIDE DEF at
    <2>2. QED
      BY <2>1, AfterFacts
  <1>2. /\ C!Offset(next) = end - sh /\ sh \in Nat /\ sh % 4 = 0
        /\ \A i \in C!Cells : next.cell[i] = IF i + sh \in at .. end - 1 THEN c ELSE Moved(con, sh, i)
    BY CellsFacts DEF Prints
  <1>3. \A i \in C!Cells : i >= at => con.cell[i] = C!BLANK
    BY DEF Good, BlankFrom
  <1>4. TabsWhole(con)
    BY DEF Good
  <1> HIDE DEF at, end
  <1>5. BlankFrom(next)
    <2>1. SUFFICES ASSUME NEW i \in C!Cells, i >= end - sh PROVE next.cell[i] = C!BLANK
      BY <1>2 DEF BlankFrom
    <2>2. i \in Nat /\ i + sh >= end /\ i + sh \notin at .. end - 1 /\ i + sh >= at
      <3>1. i \in Nat
        BY CellsFacts
      <3>2. i + sh >= end
        BY <1>1, <1>2, <2>1, <3>1
      <3>3. QED
        BY <1>1, <1>2, <3>1, <3>2
    <2>3. QED
      BY <1>2, <1>3, <2>2 DEF Moved
  <1>6. TabsWhole(next)
    <2>1. SUFFICES ASSUME NEW i \in C!Cells, next.cell[i] = "tab", i % 4 # 3
                   PROVE  next.cell[i + 1] = "tab"
      BY DEF TabsWhole
    <2>2. /\ i \in Nat /\ i + 1 \in C!Cells /\ (i + sh) % 4 # 3
          /\ i + 1 + sh = i + sh + 1 /\ i + sh \in Nat
      <3>1. i \in Nat /\ i + 1 \in C!Cells
        BY <2>1, CellsFacts
      <3>2. QED
        BY <1>2, <2>1, <3>1, StopsMoved
    <2>3. CASE i + sh \in at .. end - 1
      <3>1. c = "tab"
        BY <1>2, <2>1, <2>3
      <3>2. i + 1 + sh \in at .. end - 1
        BY <1>1, <2>2, <2>3, <3>1
      <3>3. QED
        BY <1>2, <2>2, <3>1, <3>2
    <2>4. CASE i + sh \notin at .. end - 1
      <3>1. i + sh \in C!Cells /\ con.cell[i + sh] = "tab"
        BY <1>2, <2>1, <2>4 DEF Moved, C!BLANK
      <3>2. i + 1 + sh \in C!Cells /\ con.cell[i + 1 + sh] = "tab"
        BY <1>4, <2>2, <3>1, CellsFacts DEF TabsWhole
      <3>3. i + 1 + sh < at
        BY <1>1, <1>2, <1>3, <2>2, <3>2 DEF C!BLANK
      <3>4. i + 1 + sh \notin at .. end - 1
        BY <1>1, <2>2, <3>3
      <3>5. QED
        BY <1>2, <2>2, <3>2, <3>4 DEF Moved
    <2>5. QED
      BY <2>3, <2>4
  <1>7. QED
    BY <1>5, <1>6 DEF Good, Prints

\* A new line.
LEMMA GoodNewLine ==
    ASSUME C!ConsoleAssumption, NEW con, Good(con)
    PROVE  Good(C!NewLine(con))
  <1> DEFINE at == C!Offset(con)
             next == C!NewLine(con)
             d == COLS * con.y
  <1>1. at \in Nat /\ d \in Nat /\ at <= d + COLS /\ COLS \in Nat
    <2>1. con.x \in 0 .. COLS /\ con.y \in 0 .. ROWS - 1 /\ COLS \in Nat
      BY Rows DEF Good, IsConsole
    <2>2. d \in Nat
      BY <2>1, Rows
    <2>3. at = d + con.x
      BY DEF C!Offset
    <2> HIDE DEF d, at
    <2>4. QED
      BY <2>1, <2>2, <2>3
  <1>2. \A i \in C!Cells : i >= at => con.cell[i] = C!BLANK
    BY DEF Good, BlankFrom
  <1>3. TabsWhole(con)
    BY DEF Good
  <1>4. PICK sh \in {0, COLS} : /\ C!Offset(next) = d + COLS - sh
                                /\ \A i \in C!Cells : next.cell[i] = Moved(con, sh, i)
    BY NewLineDoes DEF Good
  <1>5. sh \in Nat /\ sh % 4 = 0
    BY CellsFacts
  <1> HIDE DEF at, next, d
  <1>6. BlankFrom(next)
    <2>1. SUFFICES ASSUME NEW i \in C!Cells, i >= d + COLS - sh PROVE next.cell[i] = C!BLANK
      BY <1>4 DEF BlankFrom
    <2>2. i \in Nat /\ i + sh >= at
      BY <1>1, <1>5, <2>1, CellsFacts
    <2>3. QED
      BY <1>2, <1>4, <2>2 DEF Moved
  <1>7. TabsWhole(next)
    <2>1. SUFFICES ASSUME NEW i \in C!Cells, next.cell[i] = "tab", i % 4 # 3
                   PROVE  next.cell[i + 1] = "tab"
      BY DEF TabsWhole
    <2>2. /\ i \in Nat /\ i + 1 \in C!Cells /\ (i + sh) % 4 # 3 /\ i + 1 + sh = i + sh + 1
      <3>1. i \in Nat /\ i + 1 \in C!Cells
        BY <2>1, CellsFacts
      <3>2. QED
        BY <1>5, <2>1, <3>1, StopsMoved
    <2>3. i + sh \in C!Cells /\ con.cell[i + sh] = "tab"
      BY <1>4, <2>1 DEF Moved, C!BLANK
    <2>4. i + 1 + sh \in C!Cells /\ con.cell[i + 1 + sh] = "tab"
      BY <1>3, <2>2, <2>3, CellsFacts DEF TabsWhole
    <2>5. QED
      BY <1>4, <2>2, <2>4 DEF Moved
  <1>8. IsConsole(next)
    BY NewLineDoes DEF Good, next
  <1>9. QED
    BY <1>6, <1>7, <1>8 DEF Good, next

\* '\b', which takes a tab back as a whole.
LEMMA GoodBackspace ==
    ASSUME C!ConsoleAssumption, NEW con, Good(con), C!Offset(con) > 0
    PROVE  Good(C!Backspace(con))
  <1> DEFINE at == C!Offset(con)
             n == C!Erased(con)
             next == C!Backspace(con)
  <1>1. at \in Nat /\ at <= Size
    BY Places, Rows DEF Good
  <1>2. \A i \in C!Cells : i >= at => con.cell[i] = C!BLANK
    BY DEF Good, BlankFrom
  <1>3. TabsWhole(con)
    BY DEF Good
  <1>4. /\ IsConsole(next) /\ C!Offset(next) = at - n
        /\ \A i \in C!Cells : next.cell[i] = IF i \in at - n .. at - 1 THEN C!BLANK ELSE con.cell[i]
    BY BackspaceDoes
  <1>5. /\ n \in 1 .. 4 /\ n <= at
        /\ con.cell[at - 1] # "tab" => n = 1
        /\ con.cell[at - 1] = "tab" => at % 4 = 0 /\ (n = 4 \/ n = at \/ con.cell[at - n - 1] # "tab")
    BY ErasedFacts
  <1> HIDE DEF at, n, next
  <1>6. BlankFrom(next)
    BY <1>1, <1>2, <1>4, <1>5, CellsFacts DEF BlankFrom
  <1>7. TabsWhole(next)
    <2>1. SUFFICES ASSUME NEW i \in C!Cells, next.cell[i] = "tab", i % 4 # 3
                   PROVE  next.cell[i + 1] = "tab"
      BY DEF TabsWhole
    <2>2. i \in Nat /\ i + 1 \in C!Cells
      BY <2>1, CellsFacts
    <2>3. i \notin at - n .. at - 1 /\ con.cell[i] = "tab"
      BY <1>4, <2>1 DEF C!BLANK
    <2>4. con.cell[i + 1] = "tab"
      BY <1>3, <2>1, <2>3 DEF TabsWhole
    <2>5. i + 1 < at
      BY <1>1, <1>2, <2>2, <2>4 DEF C!BLANK
    <2>6. i + 1 # at - n
      <3>1. SUFFICES ASSUME i = at - n - 1 PROVE FALSE
        BY <1>1, <1>5, <2>2
      <3>2. con.cell[at - 1] # "tab" => FALSE
        BY <1>1, <1>5, <2>4, <3>1
      <3>3. con.cell[at - 1] = "tab" => FALSE
        BY <1>1, <1>5, <2>1, <2>2, <2>3, <3>1
      <3>4. QED
        BY <3>2, <3>3
    <2>7. i + 1 \notin at - n .. at - 1
      BY <1>1, <1>5, <2>2, <2>3, <2>5, <2>6
    <2>8. QED
      BY <1>4, <2>2, <2>4, <2>7
  <1>8. QED
    BY <1>4, <1>6, <1>7 DEF Good, next

Cleared == [cell |-> [i \in C!Cells |-> C!BLANK], x |-> 0, y |-> 0]

\* clear().
LEMMA GoodCleared ==
    ASSUME C!ConsoleAssumption
    PROVE  Good(Cleared) /\ C!Offset(Cleared) = 0
  <1>1. IsConsole(Cleared)
    BY Rows DEF IsConsole, Cleared
  <1>2. BlankFrom(Cleared)
    BY DEF BlankFrom, Cleared
  <1>3. TabsWhole(Cleared)
    BY DEF TabsWhole, Cleared, C!BLANK
  <1>4. C!Offset(Cleared) = 0
    BY Rows DEF Cleared, C!Offset
  <1>5. QED
    BY <1>1, <1>2, <1>3, <1>4 DEF Good

\* Any character before the end of a row, and '\n'.
LEMMA GoodPut ==
    ASSUME C!ConsoleAssumption, NEW con, Good(con), NEW c, ~C!RunsOn(con, c)
    PROVE  Good(C!putc(con, c))
  <1>1. CASE c = "nl"
    BY <1>1, GoodNewLine DEF C!putc
  <1>2. CASE c # "nl"
    <2>1. con.x < COLS /\ IsConsole(con)
      BY <1>2, Rows DEF C!RunsOn, Good, IsConsole
    <2>2. QED
      BY <1>2, <2>1, PutDoes, GoodPrints
  <1>3. QED
    BY <1>1, <1>2

-----------------------------------------------------------------------------
(* A line and its cells.                                                    *)

Lines == Seq({"a", "tab"})

\* e[k]: where the k-th character of the line ends, from the tab stop before its start.
Ends(e, ln, st) ==
    /\ e \in [0 .. Len(ln) -> Nat] /\ e[0] = st
    /\ \A k \in 1 .. Len(ln) : e[k] = After(e[k - 1], ln[k])

\* The line is in front of the cursor, and no tab ends where it starts in a tab's cells.
Stands(con, ln, e) ==
    LET first == C!Offset(con) - e[Len(ln)]
    IN  /\ first \in Nat /\ first % 4 = 0
        /\ \A k \in 1 .. Len(ln) : \A i \in e[k - 1] .. e[k] - 1 : con.cell[first + i] = ln[k]
        /\ e[0] > 0 => con.cell[first + e[0] - 1] # "tab"

\* The characters of a line follow each other, with at most four cells each.
LEMMA EndsGrow ==
    ASSUME NEW ln \in Lines, NEW st \in 0 .. 3, NEW e, Ends(e, ln, st)
    PROVE  /\ \A k \in 0 .. Len(ln) : e[k] \in Nat /\ e[0] <= e[k] /\ e[k] <= e[Len(ln)]
           /\ \A k \in 1 .. Len(ln) : e[k - 1] < e[k] /\ e[k] <= e[k - 1] + 4
           /\ e[Len(ln)] <= 3 + 4 * Len(ln)
  <1> DEFINE L == Len(ln)
             S == {n \in Nat : n <= L => e[n] <= st + 4 * n /\ \A k \in 0 .. n : e[k] <= e[n]}
  <1>1. L \in Nat
    BY DEF Lines
  <1>2. e \in [0 .. L -> Nat] /\ e[0] = st /\ st \in Nat
    BY DEF Ends
  <1> HIDE DEF L
  <1>3. \A k \in 1 .. L : e[k - 1] \in Nat /\ e[k] \in Nat /\ e[k - 1] < e[k] /\ e[k] <= e[k - 1] + 4
    <2> TAKE k \in 1 .. L
    <2>1. k \in 0 .. L /\ k - 1 \in 0 .. L
      BY <1>1
    <2>2. e[k - 1] \in Nat /\ e[k] \in Nat
      BY <1>2, <2>1
    <2>3. e[k] = After(e[k - 1], ln[k])
      BY DEF Ends, L
    <2>4. QED
      BY <2>2, <2>3, AfterFacts
  <1>4. 0 \in S
    BY <1>2
  <1>5. ASSUME NEW n \in Nat, n \in S PROVE n + 1 \in S
    <2>1. SUFFICES ASSUME n + 1 <= L
                   PROVE  e[n + 1] <= st + 4 * (n + 1) /\ \A k \in 0 .. n + 1 : e[k] <= e[n + 1]
      OBVIOUS
    <2>2. e[n] <= st + 4 * n /\ \A k \in 0 .. n : e[k] <= e[n]
      BY <1>1, <1>5, <2>1
    <2>3. n + 1 \in 1 .. L /\ n + 1 - 1 = n
      BY <1>1, <2>1
    <2>4. e[n] \in Nat /\ e[n + 1] \in Nat /\ e[n] < e[n + 1] /\ e[n + 1] <= e[n] + 4
      BY <1>3, <2>3
    <2>5. e[n + 1] <= st + 4 * (n + 1)
      BY <1>2, <2>2, <2>4
    <2>6. ASSUME NEW k \in 0 .. n + 1 PROVE e[k] <= e[n + 1]
      <3>1. CASE k \in 0 .. n
        <4>1. e[k] <= e[n] /\ e[k] \in Nat
          BY <1>1, <1>2, <2>1, <2>2, <3>1
        <4>2. QED
          BY <2>4, <4>1
      <3>2. CASE k = n + 1
        BY <2>4, <3>2
      <3>3. QED
        BY <2>6, <3>1, <3>2
    <2>7. QED
      BY <2>5, <2>6
  <1>6. \A n \in Nat : n \in S
    <2> HIDE DEF S
    <2>1. \A n \in Nat : n >= 0 => n \in S
      BY <1>4, <1>5, AllFrom
    <2>2. QED
      BY <2>1
  <1>7. e[L] <= st + 4 * L /\ \A k \in 0 .. L : e[k] <= e[L]
    BY <1>1, <1>6
  <1>8. \A k \in 0 .. L : e[0] <= e[k]
    BY <1>1, <1>6
  <1>9. \A k \in 0 .. L : e[k] \in Nat
    BY <1>2
  <1>10. e[L] <= 3 + 4 * L
    <2>1. e[L] \in Nat
      BY <1>1, <1>9
    <2>2. QED
      BY <1>1, <1>7, <2>1
  <1>11. QED
    BY <1>3, <1>7, <1>8, <1>9, <1>10 DEF L

\* Where an empty line starts.
LEMMA EmptyStands ==
    ASSUME C!ConsoleAssumption, NEW con, Good(con)
    PROVE  /\ con.x % 4 \in 0 .. 3
           /\ \E e : Ends(e, <<>>, con.x % 4) /\ Stands(con, <<>>, e)
  <1> DEFINE at == C!Offset(con)
             e == [k \in 0 .. 0 |-> con.x % 4]
  <1>1. at \in Nat /\ at % 4 = con.x % 4 /\ con.x \in Nat
    <2>1. IsConsole(con) /\ Size \in Nat /\ COLS \in Nat
      BY Rows DEF Good
    <2>2. con.x \in Nat
      BY <2>1 DEF IsConsole
    <2>3. at \in 0 .. Size /\ at % 4 = con.x % 4
      BY <2>1, Places, Zenon
    <2> HIDE DEF at
    <2>4. QED
      BY <2>1, <2>2, <2>3
  <1>2. at > 0 /\ con.cell[at - 1] = "tab" => at % 4 = 0
    BY TabBefore
  <1> HIDE DEF at
  <1>3. con.x % 4 \in 0 .. 3 /\ con.x % 4 \in Nat
    BY <1>1
  <1>4. Len(<<>>) = 0 /\ e[0] = con.x % 4 /\ e \in [0 .. 0 -> Nat]
    BY <1>3
  <1> HIDE DEF e
  <1>5. Ends(e, <<>>, con.x % 4)
    BY <1>4 DEF Ends
  <1>6. at - e[0] \in Nat /\ (at - e[0]) % 4 = 0
    BY <1>1, <1>4
  <1>7. e[0] > 0 => con.cell[at - e[0] + e[0] - 1] # "tab"
    <2>1. SUFFICES ASSUME e[0] > 0 PROVE con.cell[at - e[0] + e[0] - 1] # "tab"
      OBVIOUS
    <2>2. at % 4 # 0 /\ at > 0 /\ at - e[0] + e[0] - 1 = at - 1
      BY <1>1, <1>3, <1>4, <2>1
    <2>3. QED
      BY <1>2, <2>2
  <1>8. Stands(con, <<>>, e)
    BY <1>4, <1>6, <1>7 DEF Stands, at
  <1>9. QED
    BY <1>3, <1>5, <1>8

\* A character, echoed and added to the line.
LEMMA LineGrows ==
    ASSUME C!ConsoleAssumption, NEW con, Good(con), NEW ln \in Lines, Len(ln) < MAX_TERMINAL,
           NEW st \in 0 .. 3, NEW e, Ends(e, ln, st), Stands(con, ln, e),
           NEW c \in {"a", "tab"}, NEW next, NEW sh, Prints(con, c, next, sh)
    PROVE  \E f : Ends(f, Append(ln, c), st) /\ Stands(next, Append(ln, c), f)
  <1> DEFINE L == Len(ln)
             longer == Append(ln, c)
             at == C!Offset(con)
             end == After(at, c)
             tip == After(e[L], c)
             f == [k \in 0 .. L + 1 |-> IF k \in 0 .. L THEN e[k] ELSE tip]
             first == at - e[L]
  <1>1. /\ L \in Nat /\ L < MAX_TERMINAL /\ MAX_TERMINAL \in Nat /\ 4 * MAX_TERMINAL <= Above
        /\ Above \in Nat /\ Above % 4 = 0
        /\ longer \in Lines /\ Len(longer) = L + 1 /\ longer[L + 1] = c
        /\ \A k \in 1 .. L : longer[k] = ln[k]
    <2>1. /\ L \in Nat /\ longer \in Lines /\ Len(longer) = L + 1 /\ longer[L + 1] = c
          /\ \A k \in 1 .. L : longer[k] = ln[k]
      BY DEF Lines
    <2>2. MAX_TERMINAL \in Nat /\ 4 * MAX_TERMINAL <= Above
      BY DEF C!ConsoleAssumption, Above
    <2>3. QED
      BY <2>1, <2>2, Rows
  <1>2. at \in Nat /\ at <= Size
    BY Places, Rows DEF Good
  <1>3. /\ \A k \in 0 .. L : e[k] \in Nat /\ e[0] <= e[k] /\ e[k] <= e[L]
        /\ \A k \in 1 .. L : e[k - 1] < e[k] /\ e[k] <= e[k - 1] + 4
        /\ e[L] <= 3 + 4 * L
    BY EndsGrow
  <1>4. /\ e \in [0 .. L -> Nat] /\ e[0] = st
        /\ \A k \in 1 .. L : e[k] = After(e[k - 1], ln[k])
    BY DEF Ends
  <1>5. /\ first \in Nat /\ first % 4 = 0
        /\ \A k \in 1 .. L : \A i \in e[k - 1] .. e[k] - 1 : con.cell[first + i] = ln[k]
        /\ e[0] > 0 => con.cell[first + e[0] - 1] # "tab"
    BY DEF Stands
  <1>6. /\ C!Offset(next) = end - sh /\ sh \in {0, COLS} /\ sh \in Nat /\ sh % 4 = 0
        /\ \A i \in C!Cells : next.cell[i] = IF i + sh \in at .. end - 1 THEN c ELSE Moved(con, sh, i)
        /\ sh = COLS => C!Offset(next) = Above
        /\ C!Offset(next) \in 0 .. Size
    <2>1. IsConsole(next) /\ sh \in {0, COLS}
      BY DEF Prints
    <2>2. sh \in Nat /\ sh % 4 = 0
      BY <2>1, CellsFacts
    <2>3. C!Offset(next) \in 0 .. Size
      BY <2>1, Places
    <2>4. QED
      BY <2>2, <2>3 DEF Prints
  <1> HIDE DEF L, longer, at, end, tip, first
  <1>7. e[L] \in Nat /\ at = first + e[L] /\ e[L] >= e[0] /\ 0 \in 0 .. L /\ e[0] \in Nat
    BY <1>1, <1>2, <1>3 DEF first
  <1>8. /\ tip \in Nat /\ e[L] < tip /\ tip <= e[L] + 4 /\ end = first + tip
    BY <1>5, <1>7, AfterFacts DEF tip, end
  <1>9. f[0] = e[0] /\ f[L + 1] = tip /\ \A k \in 0 .. L : f[k] = e[k]
    BY <1>1
  <1>10. f \in [0 .. L + 1 -> Nat]
    BY <1>1, <1>3, <1>8
  <1> HIDE DEF f
  <1>11. Ends(f, longer, st)
    <2>1. ASSUME NEW k \in 1 .. L + 1 PROVE f[k] = After(f[k - 1], longer[k])
      <3>1. CASE k = L + 1
        <4>1. k - 1 = L /\ L \in 0 .. L
          BY <1>1, <3>1
        <4>2. QED
          BY <1>1, <1>9, <3>1, <4>1 DEF tip
      <3>2. CASE k # L + 1
        <4>1. k \in 1 .. L /\ k \in 0 .. L /\ k - 1 \in 0 .. L
          BY <1>1, <3>2
        <4>2. QED
          BY <1>1, <1>4, <1>9, <4>1
      <3>3. QED
        BY <3>1, <3>2
    <2>2. QED
      BY <1>1, <1>4, <1>9, <1>10, <2>1 DEF Ends
  <1> DEFINE at2 == C!Offset(next)
             first2 == at2 - tip
  <1>12. first2 = first - sh
    BY <1>5, <1>6, <1>7, <1>8
  <1>13. first2 \in Nat /\ first2 % 4 = 0
    <2>1. CASE sh = 0
      BY <1>5, <1>12, <2>1
    <2>2. CASE sh = COLS
      <3>1. first2 = Above - tip /\ tip <= 3 + 4 * (L + 1)
        <4>1. tip <= 3 + 4 * (L + 1)
          <5>1. tip = e[L] + 1 \/ c = "tab"
            BY <1>7, AfterFacts DEF tip
          <5>2. QED
            BY <1>1, <1>3, <1>7, <1>8, <5>1
        <4>2. QED
          BY <1>6, <2>2, <4>1
      <3>2. 4 * (L + 1) <= Above
        BY <1>1
      <3>3. first2 >= -3
        BY <1>1, <1>8, <3>1, <3>2
      <3> HIDE DEF first2
      <3>4. QED
        BY <1>5, <1>6, <1>12, <3>3
    <2>3. QED
      BY <1>6, <2>1, <2>2
  <1> HIDE DEF first2
  <1>14. at2 = first2 + tip /\ at2 \in 0 .. Size /\ Size \in Nat
    BY <1>6, <1>8, CellsFacts DEF first2
  <1> HIDE DEF at2
  \* The cells of the line as it was have only moved.
  <1>15. ASSUME NEW i \in Nat, i < e[L]
         PROVE  next.cell[first2 + i] = con.cell[first + i]
    <2>1. first2 + i \in C!Cells
      BY <1>7, <1>8, <1>13, <1>14, <1>15, CellsFacts
    <2>2. first2 + i + sh = first + i /\ first + i < at /\ first + i \in C!Cells
      <3>1. first \in Nat /\ sh \in Nat /\ first2 + i + sh = first + i
        BY <1>5, <1>6, <1>12, <1>15
      <3>2. first + i < at
        BY <1>7, <1>15, <3>1
      <3>3. first + i \in C!Cells
        BY <1>2, <1>15, <3>1, <3>2, CellsFacts
      <3>4. QED
        BY <3>1, <3>2, <3>3
    <2>3. first2 + i + sh \notin at .. end - 1
      BY <1>2, <1>5, <2>2
    <2>4. next.cell[first2 + i] = Moved(con, sh, first2 + i)
      BY <1>6, <2>1, <2>3
    <2>5. QED
      BY <2>2, <2>4 DEF Moved
  <1>16. ASSUME NEW k \in 1 .. L + 1, NEW i \in f[k - 1] .. f[k] - 1
         PROVE  next.cell[first2 + i] = longer[k]
    <2>1. CASE k = L + 1
      <3>1. k - 1 = L /\ L \in 0 .. L
        BY <1>1, <2>1
      <3>2. i \in e[L] .. tip - 1 /\ i \in Nat
        <4>1. f[k - 1] = e[L] /\ f[k] = tip
          BY <1>9, <2>1, <3>1
        <4>2. i \in e[L] .. tip - 1
          BY <4>1
        <4>3. QED
          BY <1>7, <1>8, <4>2
      <3>3. first2 + i \in C!Cells
        BY <1>8, <1>13, <1>14, <3>2, CellsFacts
      <3>4. first2 + i + sh \in at .. end - 1
        <4>1. sh \in Nat /\ first \in Nat /\ first2 = first - sh
          BY <1>5, <1>6, <1>12
        <4>2. first2 + i + sh = first + i
          BY <3>2, <4>1
        <4>3. QED
          BY <1>7, <1>8, <3>2, <4>1, <4>2
      <3>5. QED
        BY <1>1, <1>6, <2>1, <3>3, <3>4
    <2>2. CASE k # L + 1
      <3>1. k \in 1 .. L /\ k \in 0 .. L /\ k - 1 \in 0 .. L
        BY <1>1, <2>2
      <3>2. i \in e[k - 1] .. e[k] - 1 /\ e[k - 1] \in Nat /\ e[k] \in Nat /\ e[k] <= e[L]
        BY <1>3, <1>9, <3>1
      <3>3. i \in Nat /\ i < e[L]
        BY <1>7, <3>2
      <3>4. QED
        BY <1>1, <1>5, <1>15, <3>1, <3>2, <3>3
    <2>3. QED
      BY <2>1, <2>2
  <1>17. f[0] > 0 => next.cell[first2 + f[0] - 1] # "tab"
    <2>1. SUFFICES ASSUME e[0] > 0 PROVE next.cell[first2 + e[0] - 1] # "tab"
      BY <1>9
    <2>2. e[0] - 1 \in Nat /\ e[0] - 1 < e[L]
      BY <1>7, <2>1
    <2>3. first2 + (e[0] - 1) = first2 + e[0] - 1 /\ first + (e[0] - 1) = first + e[0] - 1
      BY <1>5, <1>7, <1>13
    <2>4. QED
      BY <1>5, <1>15, <2>1, <2>2, <2>3
  <1>18. Stands(next, longer, f)
    <2>1. C!Offset(next) - f[Len(longer)] = first2
      BY <1>1, <1>9 DEF first2, at2
    <2>2. QED
      BY <1>1, <1>13, <1>16, <1>17, <2>1 DEF Stands
  <1>19. QED
    BY <1>11, <1>18 DEF longer

\* A line without its last character.
LEMMA FrontOfLine ==
    ASSUME NEW ln \in Lines, ln # <<>>
    PROVE  /\ Len(ln) \in Nat /\ Len(ln) >= 1 /\ C!Front(ln) \in Lines /\ Len(C!Front(ln)) = Len(ln) - 1
           /\ \A k \in 1 .. Len(ln) - 1 : C!Front(ln)[k] = ln[k]
           /\ \A k \in 1 .. Len(ln) : ln[k] \in {"a", "tab"}
  <1> DEFINE L == Len(ln)
             cut == [k \in 1 .. L - 1 |-> ln[k]]
  <1>1. ln \in Seq({"a", "tab"}) /\ L \in Nat /\ L # 0
    BY DEF Lines
  <1>2. L - 1 <= L /\ L >= 1 /\ L - 1 \in Nat
    BY <1>1
  <1>3. \A k \in 1 .. L : ln[k] \in {"a", "tab"}
    BY <1>1
  <1>4. \A k \in 1 .. L - 1 : ln[k] \in {"a", "tab"} /\ k \in 1 .. L
    BY <1>1, <1>3
  <1>5. C!Front(ln) = cut
    BY <1>1, <1>2 DEF C!Front
  <1>6. cut \in Seq({"a", "tab"}) /\ Len(cut) = L - 1
    BY <1>2, <1>4
  <1>7. QED
    BY <1>2, <1>3, <1>5, <1>6 DEF Lines

\* Backspace takes back exactly the cells of the last character.
LEMMA LineShrinks ==
    ASSUME C!ConsoleAssumption, NEW con, Good(con), NEW ln \in Lines, ln # <<>>,
           NEW st \in 0 .. 3, NEW e, Ends(e, ln, st), Stands(con, ln, e)
    PROVE  /\ C!Offset(con) > 0
           /\ \E f : Ends(f, C!Front(ln), st) /\ Stands(C!Backspace(con), C!Front(ln), f)
  <1> DEFINE L == Len(ln)
             shorter == C!Front(ln)
             at == C!Offset(con)
             n == C!Erased(con)
             next == C!Backspace(con)
             p == e[L - 1]
             q == e[L]
             w == q - p
             f == [k \in 0 .. L - 1 |-> e[k]]
             first == at - q
  <1>1. /\ L \in Nat /\ L >= 1
        /\ shorter \in Lines /\ Len(shorter) = L - 1 /\ \A k \in 1 .. L - 1 : shorter[k] = ln[k]
        /\ \A k \in 1 .. L : ln[k] \in {"a", "tab"}
    BY FrontOfLine
  <1>2. at \in Nat /\ at <= Size /\ Size \in Nat
    BY Places, Rows DEF Good
  <1>3. /\ \A k \in 0 .. L : e[k] \in Nat /\ e[0] <= e[k] /\ e[k] <= e[L]
        /\ \A k \in 1 .. L : e[k - 1] < e[k] /\ e[k] <= e[k - 1] + 4
    BY EndsGrow
  <1>4. /\ e \in [0 .. L -> Nat] /\ e[0] = st
        /\ \A k \in 1 .. L : e[k] = After(e[k - 1], ln[k])
    BY DEF Ends
  <1>5. /\ first \in Nat /\ first % 4 = 0
        /\ \A k \in 1 .. L : \A i \in e[k - 1] .. e[k] - 1 : con.cell[first + i] = ln[k]
        /\ e[0] > 0 => con.cell[first + e[0] - 1] # "tab"
    BY DEF Stands
  <1> HIDE DEF L, at
  <1>6. /\ L \in 1 .. L /\ L \in 0 .. L /\ L - 1 \in 0 .. L /\ 0 \in 0 .. L
        /\ q \in Nat /\ p \in Nat /\ e[0] \in Nat /\ e[0] <= p
        /\ p < q /\ q <= p + 4
        /\ q = After(p, ln[L]) /\ ln[L] \in {"a", "tab"}
    <2>1. L \in 1 .. L /\ L \in 0 .. L /\ L - 1 \in 0 .. L /\ 0 \in 0 .. L
      BY <1>1
    <2>2. QED
      BY <1>1, <1>3, <1>4, <2>1
  <1> HIDE DEF p, q
  <1>7. /\ first \in Nat /\ first % 4 = 0
        /\ e[0] > 0 => con.cell[first + e[0] - 1] # "tab"
        /\ at \in Nat /\ q \in Nat /\ p \in Nat /\ p < q /\ q <= p + 4 /\ e[0] \in Nat /\ e[0] <= p
    BY <1>2, <1>5, <1>6
  <1>8. w \in 1 .. 4
    BY <1>7
  <1>9. at = first + q
    BY <1>7
  <1> HIDE DEF first, w
  <1>10. w = q - p
    BY DEF w
  <1>11. at > 0
    BY <1>7, <1>9
  <1>12. C!Offset(con) > 0
    BY <1>11 DEF at
  <1>13. /\ n \in 1 .. 4 /\ n <= at
         /\ con.cell[at - 1] # "tab" => n = 1
         /\ con.cell[at - 1] = "tab" =>
               /\ \A i \in 1 .. n : con.cell[at - i] = "tab"
               /\ n = 4 \/ n = at \/ con.cell[at - n - 1] # "tab"
    BY <1>12, ErasedFacts DEF at
  <1>14. /\ IsConsole(next) /\ C!Offset(next) = at - n
         /\ \A i \in C!Cells : next.cell[i] = IF i \in at - n .. at - 1 THEN C!BLANK ELSE con.cell[i]
    BY <1>12, BackspaceDoes DEF at
  <1> HIDE DEF n, next
  <1>15. \A i \in 1 .. w : con.cell[at - i] = ln[L]
    <2> TAKE i \in 1 .. w
    <2>1. q - i \in p .. q - 1 /\ first + (q - i) = at - i
      <3>1. i \in Nat /\ 1 <= i /\ i <= q - p
        BY <1>8, <1>10
      <3>2. q - i \in p .. q - 1
        BY <1>7, <3>1
      <3>3. first + (q - i) = at - i
        BY <1>7, <1>9, <3>1
      <3>4. QED
        BY <3>2, <3>3
    <2>2. QED
      BY <1>5, <1>6, <2>1 DEF p, q
  <1>16. con.cell[at - 1] = ln[L]
    BY <1>15, <1>8
  <1>17. n = w
    <2>1. CASE ln[L] = "a"
      <3>1. q = p + 1
        BY <1>6, <2>1, AfterFacts
      <3>2. w = 1
        BY <1>7, <1>10, <3>1
      <3>3. QED
        BY <1>13, <1>16, <2>1, <3>2
    <2>2. CASE ln[L] = "tab"
      <3>1. con.cell[at - 1] = "tab" /\ q % 4 = 0
        BY <1>6, <1>16, <2>2, AfterFacts
      <3>2. ~(n < w)
        <4>1. SUFFICES ASSUME n < w PROVE FALSE
          OBVIOUS
        <4>2. n \in 1 .. 4 /\ n # 4
          BY <1>13, <1>8, <4>1
        <4>3. n + 1 \in 1 .. w /\ at - (n + 1) = at - n - 1
          BY <1>7, <1>8, <4>1, <4>2
        <4>4. n # at
          BY <1>7, <1>9, <1>10, <4>1, <4>2
        <4>5. con.cell[at - n - 1] = "tab"
          BY <1>15, <2>2, <4>3
        <4>6. QED
          BY <1>13, <3>1, <4>2, <4>4, <4>5
      <3>3. ~(n > w)
        <4>1. SUFFICES ASSUME n > w PROVE FALSE
          OBVIOUS
        <4>2. n \in 1 .. 4 /\ w < 4 /\ w + 1 \in 1 .. n
          BY <1>13, <1>8, <4>1
        <4>3. at - (w + 1) = first + (p - 1)
          BY <1>7, <1>9, <1>10
        <4>4. con.cell[first + (p - 1)] = "tab"
          <5>1. con.cell[at - (w + 1)] = "tab"
            BY <1>13, <3>1, <4>2
          <5>2. QED
            BY <4>3, <5>1
        <4>5. p % 4 # 0
          BY <1>7, <1>10, <3>1, <4>2
        <4>6. CASE L = 1
          <5>1. p = e[0]
            BY <4>6 DEF p
          <5>2. e[0] > 0 /\ first + (p - 1) = first + e[0] - 1
            BY <1>7, <4>5, <5>1
          <5>3. QED
            BY <1>7, <4>4, <5>2
        <4>7. CASE L # 1
          <5> DEFINE o == e[L - 1 - 1]
          <5>1. L - 1 \in 1 .. L /\ L - 1 - 1 \in 0 .. L
            BY <1>1, <4>7
          <5>2. o \in Nat /\ o < p /\ p = After(o, ln[L - 1])
            BY <1>3, <1>4, <5>1 DEF p
          <5>3. \A i \in o .. p - 1 : con.cell[first + i] = ln[L - 1]
            BY <1>5, <5>1 DEF p
          <5> HIDE DEF o
          <5>4. ln[L - 1] # "tab"
            BY <4>5, <5>2, AfterFacts
          <5>5. p - 1 \in o .. p - 1
            BY <1>7, <5>2
          <5>6. QED
            BY <4>4, <5>3, <5>4, <5>5
        <4>8. QED
          BY <4>6, <4>7
      <3>4. n \in 1 .. 4
        BY <1>13
      <3>5. QED
        BY <1>8, <3>2, <3>3, <3>4
    <2>3. QED
      BY <1>6, <2>1, <2>2
  <1> HIDE DEF shorter
  <1>18. f \in [0 .. L - 1 -> Nat] /\ \A k \in 0 .. L - 1 : f[k] = e[k] /\ k \in 0 .. L
    <2>1. \A k \in 0 .. L - 1 : k \in 0 .. L
      BY <1>1
    <2>2. QED
      BY <1>3, <2>1
  <1> HIDE DEF f
  <1>19. \A k \in 1 .. L - 1 : k \in 1 .. L /\ k \in 0 .. L - 1 /\ k - 1 \in 0 .. L - 1
    BY <1>1
  <1>20. f[0] = e[0] /\ f[L - 1] = p
    BY <1>1, <1>18 DEF p
  <1>21. Ends(f, shorter, st)
    BY <1>1, <1>4, <1>18, <1>19, <1>20 DEF Ends
  <1>22. at - n - p = first /\ at - n = first + p
    BY <1>7, <1>8, <1>9, <1>10, <1>17
  <1>23. ASSUME NEW i \in Nat, i < p
         PROVE  next.cell[first + i] = con.cell[first + i]
    <2>1. first + i < at /\ first + i < first + p /\ first + i \in Nat
      BY <1>7, <1>9, <1>23
    <2>2. first + i \in C!Cells
      BY <1>2, <2>1, CellsFacts
    <2>3. first + i \notin at - n .. at - 1
      BY <1>7, <1>22, <2>1
    <2>4. QED
      BY <1>14, <2>2, <2>3
  <1>24. ASSUME NEW k \in 1 .. L - 1, NEW i \in f[k - 1] .. f[k] - 1
         PROVE  next.cell[first + i] = shorter[k]
    <2>1. i \in e[k - 1] .. e[k] - 1 /\ e[k - 1] \in Nat /\ e[k] \in Nat
      BY <1>3, <1>18, <1>19
    <2>2. e[k] <= p
      <3>1. Ends(f, shorter, st) /\ shorter \in Lines /\ Len(shorter) = L - 1
        BY <1>1, <1>21
      <3>2. f[k] <= f[L - 1]
        BY <1>19, <3>1, EndsGrow
      <3>3. QED
        BY <1>18, <1>19, <1>20, <3>2
    <2>3. i \in Nat /\ i < p
      <3> DEFINE a == e[k - 1]
                 b == e[k]
      <3>1. i \in a .. b - 1 /\ a \in Nat /\ b \in Nat /\ b <= p /\ p \in Nat
        BY <1>6, <2>1, <2>2
      <3> HIDE DEF a, b
      <3>2. QED
        BY ONLY <3>1
    <2>4. QED
      BY <1>1, <1>5, <1>19, <1>23, <2>1, <2>3
  <1>25. f[0] > 0 => next.cell[first + f[0] - 1] # "tab"
    <2>1. SUFFICES ASSUME e[0] > 0 PROVE next.cell[first + e[0] - 1] # "tab"
      BY <1>20
    <2>2. e[0] - 1 \in Nat /\ e[0] - 1 < p /\ first + (e[0] - 1) = first + e[0] - 1
      BY <1>7, <2>1
    <2>3. QED
      BY <1>5, <1>23, <2>1, <2>2
  <1>26. Stands(next, shorter, f)
    <2>1. C!Offset(next) - f[Len(shorter)] = first
      BY <1>1, <1>14, <1>20, <1>22
    <2>2. QED
      BY <1>1, <1>5, <1>24, <1>25, <2>1 DEF Stands
  <1>27. QED
    BY <1>12, <1>21, <1>26 DEF next, shorter

-----------------------------------------------------------------------------
(* The recursive functions of Console.                                      *)

\* The ends that LineInFront counts with are those of any e with Ends.
LEMMA EndOfIs ==
    ASSUME line \in Lines, NEW e, Ends(e, line, start)
    PROVE  \A k \in 0 .. Len(line) : C!EndOf[k] = e[k]
  <1> DEFINE L == Len(line)
             Entry(g, k) == IF k = 0 THEN start
                           ELSE IF line[k] = "tab" THEN (g[k - 1] \div 4 + 1) * 4 ELSE g[k - 1] + 1
             Solves(g) == g = [k \in 0 .. L |-> Entry(g, k)]
  <1>1. L \in Nat
    BY DEF Lines
  <1>2. Solves(e)
    <2>1. ASSUME NEW k \in 0 .. L PROVE e[k] = Entry(e, k)
      <3>1. CASE k = 0
        BY <3>1 DEF Ends
      <3>2. CASE k # 0
        <4>1. k \in 1 .. L
          BY <1>1, <3>2
        <4>2. e[k] = After(e[k - 1], line[k])
          BY <4>1 DEF Ends
        <4>3. QED
          BY <3>2, <4>2 DEF After
      <3>3. QED
        BY <3>1, <3>2
    <2>2. e = [k \in 0 .. L |-> e[k]]
      BY DEF Ends
    <2>3. QED
      BY <2>1, <2>2, Zenon
  <1>3. Solves(C!EndOf)
    <2>1. C!EndOf = CHOOSE g : Solves(g)
      BY Zenon DEF C!EndOf
    <2> HIDE DEF Solves
    <2>2. QED
      BY <1>2, <2>1, Zenon
  <1> DEFINE S == {n \in Nat : n <= L => C!EndOf[n] = e[n]}
  <1>4. \A k \in 0 .. L : C!EndOf[k] = Entry(C!EndOf, k) /\ e[k] = Entry(e, k)
    <2> HIDE DEF Entry
    <2>1. QED
      BY <1>2, <1>3
  <1>5. 0 \in S
    BY <1>1, <1>4
  <1>6. ASSUME NEW n \in Nat, n \in S PROVE n + 1 \in S
    <2>1. SUFFICES ASSUME n + 1 <= L PROVE C!EndOf[n + 1] = e[n + 1]
      OBVIOUS
    <2>2. n + 1 \in 0 .. L /\ n + 1 # 0 /\ n + 1 - 1 = n /\ n <= L
      BY <1>1, <2>1
    <2>3. C!EndOf[n] = e[n]
      BY <1>6, <2>2
    <2>4. Entry(C!EndOf, n + 1) = Entry(e, n + 1)
      BY <2>2, <2>3
    <2>5. QED
      BY <1>4, <2>2, <2>4, Zenon
  <1>7. \A n \in Nat : n >= 0 => n \in S
    <2> HIDE DEF S
    <2>1. QED
      BY <1>5, <1>6, AllFrom
  <1>8. QED
    BY <1>1, <1>7

\* Each character of a write is printed after the one before it.
LEMMA PrintedIs ==
    ASSUME NEW s, Len(s) \in Nat
    PROVE  /\ C!Printed(s)[0] = console
           /\ \A k \in 1 .. Len(s) : C!Printed(s)[k] = C!putc(C!Printed(s)[k - 1], s[k])
  <1> DEFINE L == Len(s)
             Entry(g, k) == IF k = 0 THEN console ELSE C!putc(g[k - 1], s[k])
             Solves(g, n) == g = [k \in 0 .. n |-> Entry(g, k)]
             S == {n \in Nat : \E g : Solves(g, n)}
  <1>1. 0 \in S
    <2> DEFINE g == [k \in 0 .. 0 |-> console]
    <2>1. \A k \in 0 .. 0 : k = 0
      OBVIOUS
    <2>2. Solves(g, 0)
      BY <2>1, Zenon
    <2>3. QED
      BY <2>2
  <1>2. ASSUME NEW n \in Nat, n \in S PROVE n + 1 \in S
    <2>1. PICK g : Solves(g, n)
      BY <1>2
    <2> DEFINE h == [k \in 0 .. n + 1 |-> IF k \in 0 .. n THEN g[k] ELSE C!putc(g[n], s[k])]
    <2>2. \A k \in 0 .. n : g[k] = Entry(g, k)
      <3> HIDE DEF Entry
      <3>1. QED
        BY <2>1
    <2>3. \A k \in 0 .. n : k \in 0 .. n + 1 /\ (k # 0 => k - 1 \in 0 .. n)
      OBVIOUS
    <2>4. \A k \in 0 .. n : h[k] = g[k]
      BY <2>3
    <2>5. ASSUME NEW k \in 0 .. n + 1 PROVE h[k] = Entry(h, k)
      <3>1. CASE k \in 0 .. n
        <4>1. Entry(h, k) = Entry(g, k)
          <5> HIDE DEF h
          <5>1. QED
            BY <2>3, <2>4, <3>1, Zenon
        <4>2. QED
          BY <2>2, <2>4, <3>1, <4>1, Zenon
      <3>2. CASE k \notin 0 .. n
        <4>1. k - 1 = n /\ k # 0 /\ n \in 0 .. n
          BY <3>2
        <4>2. h[k] = C!putc(g[n], s[k])
          BY <3>2
        <4>3. h[k - 1] = g[n]
          BY <2>4, <4>1, Zenon
        <4> HIDE DEF h
        <4>4. QED
          BY <4>1, <4>2, <4>3, Zenon
      <3>3. QED
        BY <3>1, <3>2
    <2>6. Solves(h, n + 1)
      <3> HIDE DEF Entry
      <3>1. QED
        BY <2>5
    <2>7. n + 1 \in Nat
      OBVIOUS
    <2> HIDE DEF h, Solves
    <2>8. QED
      BY <2>6, <2>7
  <1>3. \E g : Solves(g, L)
    <2>1. \A n \in Nat : n >= 0 => n \in S
      <3> HIDE DEF S
      <3>1. QED
        BY <1>1, <1>2, AllFrom
    <2>2. QED
      BY <2>1
  <1>4. Solves(C!Printed(s), L)
    <2>1. C!Printed(s) = CHOOSE g : Solves(g, L)
      BY Zenon DEF C!Printed
    <2> HIDE DEF Solves
    <2>2. QED
      BY <1>3, <2>1, Zenon
  <1>5. \A k \in 0 .. L : C!Printed(s)[k] = Entry(C!Printed(s), k)
    <2> HIDE DEF Entry
    <2>1. QED
      BY <1>4
  <1>6. 0 \in 0 .. L /\ \A k \in 1 .. L : k \in 0 .. L /\ k # 0
    OBVIOUS
  <1> HIDE DEF L
  <1>7. QED
    BY <1>5, <1>6, Zenon DEF L

\* A write leaves the screen as it should be, if it does not run on.
LEMMA PrintedGood ==
    ASSUME C!ConsoleAssumption, NEW s, Len(s) \in Nat, Good(console),
           \A k \in 1 .. Len(s) : ~C!RunsOn(C!Printed(s)[k - 1], s[k])
    PROVE  Good(C!Printed(s)[Len(s)])
  <1> DEFINE S == {n \in Nat : n <= Len(s) => Good(C!Printed(s)[n])}
  <1>1. 0 \in S
    BY PrintedIs
  <1>2. ASSUME NEW n \in Nat, n \in S PROVE n + 1 \in S
    <2>1. SUFFICES ASSUME n + 1 <= Len(s) PROVE Good(C!Printed(s)[n + 1])
      OBVIOUS
    <2>2. n + 1 \in 1 .. Len(s) /\ n + 1 - 1 = n /\ n <= Len(s)
      BY <2>1
    <2>3. Good(C!Printed(s)[n]) /\ ~C!RunsOn(C!Printed(s)[n], s[n + 1])
      BY <1>2, <2>2
    <2>4. C!Printed(s)[n + 1] = C!putc(C!Printed(s)[n], s[n + 1])
      BY <2>2, PrintedIs
    <2>5. QED
      BY <2>3, <2>4, GoodPut
  <1>3. \A n \in Nat : n >= 0 => n \in S
    <2> HIDE DEF S
    <2>1. QED
      BY <1>1, <1>2, AllFrom
  <1>4. QED
    BY <1>3

-----------------------------------------------------------------------------
(* The line is shown.                                                       *)

LineStands == start # C!NONE => \E e : Ends(e, line, start) /\ Stands(console, line, e)

\* LineShown, and what keeps it: what is in front of the line is no tab's left half.
LineInv ==
    /\ line \in Lines /\ Len(line) <= MAX_TERMINAL
    /\ reading \in {"no", "waiting", "entered"} /\ start \in C!NONE .. 3
    /\ stuck \in {"no", "past the row", "page fault"}
    /\ IsConsole(console)
    /\ stuck = "no" => Good(console) /\ LineStands

\* It holds at first.
LEMMA InvInit == C!ConsoleAssumption /\ C!Init => LineInv
  <1> SUFFICES ASSUME C!ConsoleAssumption, C!Init PROVE LineInv
    OBVIOUS
  <1>1. console = Cleared
    BY DEF C!Init, Cleared
  <1>2. Good(console) /\ IsConsole(console) /\ console.x % 4 = 0
    <2>1. Good(console)
      BY <1>1, GoodCleared
    <2>2. console.x = 0
      BY <1>1 DEF Cleared
    <2>3. QED
      BY <2>1, <2>2 DEF Good
  <1>3. line = <<>> /\ start = 0 /\ stuck = "no" /\ reading = "no"
    BY DEF C!Init
  <1>4. LineStands
    BY <1>2, <1>3, EmptyStands DEF LineStands
  <1>5. line \in Lines /\ Len(line) <= MAX_TERMINAL
    BY <1>3 DEF Lines, C!ConsoleAssumption
  <1>6. start \in C!NONE .. 3
    BY <1>3 DEF C!NONE
  <1>7. QED
    BY <1>2, <1>3, <1>4, <1>5, <1>6 DEF LineInv

\* A column is a number.
LEMMA ColumnIsNat ==
    ASSUME C!ConsoleAssumption, NEW con, IsConsole(con)
    PROVE  con.x \in Nat
  <1>1. con.x \in 0 .. COLS /\ COLS \in Nat
    BY Rows DEF IsConsole
  <1>2. QED
    BY <1>1

\* Values of a line that was emptied.
LEMMA Small ==
    ASSUME C!ConsoleAssumption
    PROVE  /\ <<>> \in Lines /\ Len(<<>>) <= MAX_TERMINAL
           /\ \A n \in Nat : n % 4 \in 0 .. 3
           /\ \A n \in 0 .. 3 : n \in C!NONE .. 3
           /\ C!NONE \in C!NONE .. 3
  BY DEF Lines, C!ConsoleAssumption, C!NONE

\* An emptied line stands where the cursor is.
LEMMA LineEmptiedStands ==
    ASSUME C!ConsoleAssumption, IsConsole(console'), C!LineEmptied(console'),
           reading' \in {"no", "waiting", "entered"}, stuck' \in {"no", "past the row", "page fault"},
           stuck' = "no" => Good(console')
    PROVE  LineInv'
  <1>1. line' = <<>> /\ start' = console'.x % 4
    BY DEF C!LineEmptied
  <1>2. console'.x % 4 \in 0 .. 3
    <2>1. console'.x \in Nat
      BY ColumnIsNat
    <2>2. QED
      BY <2>1, Small
  <1>3. line' \in Lines /\ Len(line') <= MAX_TERMINAL
    BY <1>1, Small
  <1>4. ASSUME stuck' = "no" PROVE LineStands'
    <2>1. Good(console')
      BY <1>4
    <2>2. \E e : Ends(e, <<>>, console'.x % 4) /\ Stands(console', <<>>, e)
      BY <2>1, EmptyStands
    <2>3. QED
      BY <1>1, <2>2 DEF LineStands
  <1>5. start' \in C!NONE .. 3
    BY <1>1, <1>2, Small, Zenon
  <1>6. QED
    BY <1>3, <1>4, <1>5 DEF LineInv

\* What the keys that print do to the console.
LEMMA PutKeeps ==
    ASSUME C!ConsoleAssumption, LineInv, NEW c, C!Put(c)
    PROVE  /\ stuck = "no" /\ stuck' \in {"no", "past the row", "page fault"}
           /\ IsConsole(console')
           /\ stuck' = "no" => Good(console')
           /\ stuck' = "no" /\ c # "nl" => \E sh : Prints(console, c, console', sh)
  <1>1. stuck = "no" /\ Good(console) /\ IsConsole(console)
    BY DEF C!Put, LineInv
  <1>2. CASE C!RunsOn(console, c)
    BY <1>1, <1>2 DEF C!Put
  <1>3. CASE ~C!RunsOn(console, c)
    <2>1. console' = C!putc(console, c) /\ stuck' = "no"
      BY <1>3 DEF C!Put
    <2>2. Good(console')
      BY <1>1, <1>3, <2>1, GoodPut
    <2>3. ASSUME c # "nl" PROVE \E sh : Prints(console, c, console', sh)
      <3>1. console.x < COLS
        BY <1>1, <1>3, <2>3, Rows DEF C!RunsOn, IsConsole
      <3>2. QED
        BY <1>1, <2>1, <2>3, <3>1, PutDoes
    <2>4. QED
      BY <1>1, <2>1, <2>2, <2>3 DEF Good
  <1>4. QED
    BY <1>2, <1>3

\* A character that is echoed and added.
LEMMA KeyAdds ==
    ASSUME C!ConsoleAssumption, LineInv, NEW c \in {"a", "tab"}, C!Put(c), Len(line) < MAX_TERMINAL,
           line' = Append(line, c), start' = start, reading' = reading
    PROVE  LineInv'
  <1>1. /\ stuck = "no" /\ stuck' \in {"no", "past the row", "page fault"}
        /\ IsConsole(console')
        /\ stuck' = "no" => Good(console') /\ \E sh : Prints(console, c, console', sh)
    BY PutKeeps
  <1>2. line \in Lines /\ Len(line) \in Nat /\ MAX_TERMINAL \in Nat
    <2>1. line \in Lines /\ MAX_TERMINAL \in Nat
      BY DEF LineInv, C!ConsoleAssumption
    <2>2. QED
      BY <2>1 DEF Lines
  <1>3. line' \in Lines /\ Len(line') <= MAX_TERMINAL
    BY <1>2 DEF Lines
  <1>4. ASSUME stuck' = "no", start' # C!NONE
        PROVE  \E e : Ends(e, line', start') /\ Stands(console', line', e)
    <2>1. Good(console) /\ start \in 0 .. 3
      BY <1>1, <1>4 DEF LineInv, C!NONE
    <2>2. PICK e : Ends(e, line, start) /\ Stands(console, line, e)
      BY <1>1, <1>4 DEF LineInv, LineStands
    <2>3. PICK sh : Prints(console, c, console', sh)
      BY <1>1, <1>4
    <2>4. \E f : Ends(f, Append(line, c), start) /\ Stands(console', Append(line, c), f)
      BY <1>2, <2>1, <2>2, <2>3, LineGrows
    <2>5. QED
      BY <2>4
  <1>5. QED
    BY <1>1, <1>3, <1>4 DEF LineInv, LineStands

\* A character that leaves the line without a start.
LEMMA PutStopsLine ==
    ASSUME C!ConsoleAssumption, LineInv, NEW c, C!Put(c), start' = C!NONE, line' = line,
           reading' \in {"no", "waiting", "entered"} \/ reading' = reading
    PROVE  LineInv'
  <1>1. /\ stuck' \in {"no", "past the row", "page fault"}
        /\ IsConsole(console')
        /\ stuck' = "no" => Good(console')
    BY PutKeeps
  <1>2. line' \in Lines /\ Len(line') <= MAX_TERMINAL /\ reading' \in {"no", "waiting", "entered"}
    BY DEF LineInv
  <1>3. start' \in C!NONE .. 3
    BY Small, Zenon
  <1>4. QED
    BY <1>1, <1>2, <1>3 DEF LineInv, LineStands

\* Every step preserves it.
LEMMA InvStep ==
    ASSUME C!ConsoleAssumption, LineInv, [C!Next]_C!vars
    PROVE  LineInv'
  <1>1. CASE C!KeyVisible
    <2>1. CASE Len(line) < MAX_TERMINAL
      BY <1>1, <2>1, KeyAdds DEF C!KeyVisible
    <2>2. CASE ~(Len(line) < MAX_TERMINAL)
      <3>1. C!Put("a") /\ start' = C!NONE /\ line' = line /\ reading' = reading
        BY <1>1, <2>2 DEF C!KeyVisible
      <3>2. QED
        BY <3>1, PutStopsLine
    <2>3. QED
      BY <2>1, <2>2
  <1>2. CASE C!KeyTab
    BY <1>2, KeyAdds DEF C!KeyTab
  <1>3. CASE C!KeyBackspace
    <2>1. /\ stuck = "no" /\ Good(console) /\ LineStands /\ line # <<>> /\ line \in Lines
          /\ reading' = reading /\ start' = start
      BY <1>3 DEF C!KeyBackspace, LineInv
    <2>2. CASE C!Offset(console) = 0
      BY <1>3, <2>1, <2>2 DEF C!KeyBackspace, LineInv
    <2>3. CASE C!Offset(console) # 0
      <3>1. console' = C!Backspace(console) /\ line' = C!Front(line) /\ stuck' = stuck
        BY <1>3, <2>3, Zenon DEF C!KeyBackspace
      <3>2. C!Offset(console) > 0
        BY <2>1, <2>3, Places, Rows DEF Good
      <3>3. Good(console')
        BY <2>1, <3>1, <3>2, GoodBackspace
      <3>4. line' \in Lines /\ Len(line') <= MAX_TERMINAL
        <4>1. Len(line) \in Nat /\ C!Front(line) \in Lines /\ Len(C!Front(line)) = Len(line) - 1
          BY <2>1, FrontOfLine
        <4>2. Len(line) <= MAX_TERMINAL /\ MAX_TERMINAL \in Nat
          BY DEF LineInv, C!ConsoleAssumption
        <4>3. Len(C!Front(line)) <= MAX_TERMINAL
          BY <4>1, <4>2
        <4>4. QED
          BY <3>1, <4>1, <4>3
      <3>5. ASSUME start' # C!NONE
            PROVE  \E e : Ends(e, line', start') /\ Stands(console', line', e)
        <4>1. start \in 0 .. 3
          BY <2>1, <3>5 DEF LineInv, C!NONE
        <4>2. PICK e : Ends(e, line, start) /\ Stands(console, line, e)
          BY <2>1, <3>5 DEF LineStands
        <4>3. QED
          BY <2>1, <3>1, <4>1, <4>2, LineShrinks
      <3>6. QED
        BY <2>1, <3>1, <3>3, <3>4, <3>5 DEF LineInv, LineStands, Good
    <2>4. QED
      BY <2>2, <2>3
  <1>4. CASE C!KeyEnter
    <2>1. /\ C!Put("nl") /\ start' = C!NONE /\ line' = line
          /\ reading' = IF reading = "waiting" THEN "entered" ELSE reading
      BY <1>4 DEF C!KeyEnter
    <2>2. reading' \in {"no", "waiting", "entered"}
      BY <2>1 DEF LineInv
    <2>3. QED
      BY <2>1, <2>2, PutStopsLine
  <1>5. CASE C!clear
    <2>1. /\ console' = Cleared /\ stuck' = stuck /\ stuck = "no" /\ line' = line /\ reading' = reading
          /\ start' = IF line = <<>> THEN 0 ELSE C!NONE
      BY <1>5 DEF C!clear, Cleared
    <2>2. Good(console') /\ IsConsole(console')
      BY <2>1, GoodCleared DEF Good
    <2>3. CASE line = <<>>
      <3>1. C!LineEmptied(console')
        <4>1. console'.x = 0
          BY <2>1 DEF Cleared
        <4>2. QED
          BY <2>1, <2>3, <4>1 DEF C!LineEmptied
      <3>2. QED
        BY <2>1, <2>2, <3>1, LineEmptiedStands DEF LineInv
    <2>4. CASE line # <<>>
      BY <2>1, <2>2, <2>4 DEF LineInv, LineStands, C!NONE
    <2>5. QED
      BY <2>3, <2>4
  <1>6. CASE C!ReadBegins
    BY <1>6 DEF C!ReadBegins, LineInv, LineStands
  <1>7. CASE C!ReadEnds
    <2>1. /\ console' = console /\ C!LineEmptied(console') /\ stuck' = stuck /\ reading' = "no"
          /\ stuck = "no" /\ Good(console) /\ IsConsole(console)
      BY <1>7 DEF C!ReadEnds, C!LineEmptied, LineInv
    <2>2. QED
      BY <2>1, LineEmptiedStands
  <1>8. CASE \E s \in Writes : C!terminal_write(s)
    <2>1. PICK s \in Writes : C!terminal_write(s)
      BY <1>8
    <2>2. Len(s) \in Nat
      BY DEF C!ConsoleAssumption
    <2> DEFINE stops == \E k \in 1 .. Len(s) : C!RunsOn(C!Printed(s)[k - 1], s[k])
    <2>3. /\ stuck = "no" /\ reading = "no" /\ reading' = reading /\ C!LineEmptied(console')
          /\ stuck' = IF stops THEN "past the row" ELSE "no"
          /\ console' = IF stops THEN console ELSE C!Printed(s)[Len(s)]
      BY <2>1 DEF C!terminal_write
    <2>4. Good(console)
      BY <2>3 DEF LineInv
    <2>5. CASE stops
      BY <2>3, <2>4, <2>5, LineEmptiedStands DEF Good
    <2>6. CASE ~stops
      <3>1. Good(console')
        BY <2>2, <2>3, <2>4, <2>6, PrintedGood
      <3>2. QED
        BY <2>3, <3>1, LineEmptiedStands DEF Good
    <2>7. QED
      BY <2>5, <2>6
  <1>9. CASE UNCHANGED C!vars
    BY <1>9 DEF C!vars, LineInv, LineStands
  <1>10. QED
    BY <1>1, <1>2, <1>3, <1>4, <1>5, <1>6, <1>7, <1>8, <1>9 DEF C!Next

\* What the invariant says of LineShown.
LEMMA InvShows ==
    ASSUME C!ConsoleAssumption, LineInv
    PROVE  C!TypeOK /\ C!LineShown
  <1>1. C!TypeOK
    BY DEF LineInv, IsConsole, C!TypeOK, Lines
  <1>2. ASSUME stuck = "no" PROVE C!BlankAhead
    BY <1>2 DEF LineInv, Good, BlankFrom, C!BlankAhead
  <1>3. ASSUME stuck = "no", start # C!NONE PROVE C!LineInFront
    <2>1. PICK e : Ends(e, line, start) /\ Stands(console, line, e)
      BY <1>3 DEF LineInv, LineStands
    <2>2. /\ Good(console) /\ line \in Lines /\ Len(line) \in Nat /\ start \in 0 .. 3
      BY <1>3 DEF LineInv, Lines, C!NONE
    <2> DEFINE L == Len(line)
               at == C!Offset(console)
               first == at - e[L]
    <2>3. \A k \in 0 .. L : C!EndOf[k] = e[k]
      BY <2>1, <2>2, EndOfIs
    <2>4. /\ \A k \in 0 .. L : e[k] \in Nat /\ e[k] <= e[L]
      BY <2>1, <2>2, EndsGrow
    <2>5. /\ first \in Nat
          /\ \A k \in 1 .. L : \A i \in e[k - 1] .. e[k] - 1 : console.cell[first + i] = line[k]
      BY <2>1 DEF Stands
    <2>6. at \in Nat /\ at <= Size /\ Size \in Nat
      BY <2>2, Places, Rows DEF Good
    <2>7. DOMAIN line = 1 .. L
      BY <2>2 DEF Lines
    <2> HIDE DEF L, at
    <2>8. L \in 0 .. L /\ \A k \in 1 .. L : k \in 0 .. L /\ k - 1 \in 0 .. L
      BY <2>2 DEF L
    <2>9. at - C!EndOf[L] = first
      BY <2>3, <2>8
    <2>10. at = first + e[L] /\ e[L] \in Nat
      BY <2>4, <2>6, <2>8
    <2> HIDE DEF first
    <2>11. ASSUME NEW k \in 1 .. L, NEW i \in C!EndOf[k - 1] .. C!EndOf[k] - 1
           PROVE  first + i \in C!Cells /\ console.cell[first + i] = line[k]
      <3>1. i \in e[k - 1] .. e[k] - 1 /\ e[k - 1] \in Nat /\ e[k] \in Nat /\ e[k] <= e[L]
        BY <2>3, <2>4, <2>8
      <3>2. i \in Nat /\ first + i < at
        BY <2>5, <2>10, <3>1
      <3>3. first + i \in C!Cells
        BY <2>5, <2>6, <3>2, CellsFacts
      <3>4. QED
        BY <2>5, <3>1, <3>3
    <2>12. QED
      BY <2>7, <2>9, <2>11 DEF C!LineInFront, L, at
  <1>4. QED
    BY <1>1, <1>2, <1>3 DEF C!LineShown

\* What the user sees is what the program will read: the cells in front of the cursor
\* are the line, however it was edited, over the ends of rows and through scrolling,
\* and from the cursor on the screen is empty.
THEOREM LineIsShown == C!ConsoleAssumption => (C!Spec => [](C!TypeOK /\ C!LineShown))
  <1> SUFFICES ASSUME C!ConsoleAssumption PROVE C!Spec => [](C!TypeOK /\ C!LineShown)
    OBVIOUS
  <1>1. C!Init => LineInv
    BY InvInit
  <1>2. LineInv /\ [C!Next]_C!vars => LineInv'
    BY InvStep
  <1>3. LineInv => C!TypeOK /\ C!LineShown
    BY InvShows
  <1>4. QED
    BY <1>1, <1>2, <1>3, PTL DEF C!Spec
=============================================================================
