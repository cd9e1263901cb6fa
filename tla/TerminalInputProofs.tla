------------------------ MODULE TerminalInputProofs ------------------------
(***************************************************************************)
(* Proofs about module TerminalInput, for any number of terminals and any  *)
(* capacities.  ReadNeedsEnter rests on terminal_read() starting to record *)
(* before it waits: whoever finds recording over while it waits has had an *)
(* Enter since.  ReadWithinCapacity holds for buffers of every size, as    *)
(* terminal_read() reads the length three times: what was shorter than the *)
(* buffer at the first has grown by what was typed at the others, and is   *)
(* no longer than a line.                                                  *)
(*                                                                         *)
(* The second part follows the line into execute() and getargs(), module   *)
(* CommandLine: the four loops of execute() split what it looks at of the  *)
(* line into spaces, a word, spaces and a word, so that no other word can  *)
(* start before the second; as it is shorter than argv by then, argv holds *)
(* it and its NUL, and the descriptors behind argv are set up afterwards.  *)
(*                                                                         *)
(* The third part is about printf(), module Format, for every format of    *)
(* directives it knows and words of any width.  A numeral is read from the *)
(* front by multiplying, and itoa() makes it from the back by dividing;    *)
(* between two pieces, what is behind are whole pieces and their arguments.*)
(***************************************************************************)
EXTENDS TerminalInput, FiniteSetTheorems, SequenceTheorems, WellFoundedInduction, TLAPS

CONSTANTS Commands, Programs, Counts, Formats, Arguments, WORD, WIDTH

VARIABLES present, pcb, buf, delivered, typed, pieces, args, pos, esp, out

C == INSTANCE CommandLine
F == INSTANCE Format

\* A waiting read that finds recording over has had its Enter.
WaitEndsByEnter ==
    \A t \in Term : pc[t] = "wait" /\ ~in_progress[t] => entered[t]

\* From the comparison on, the line is shorter than the buffer but for what was typed;
\* so is what was taken of it.
Fits(t) ==
    /\ length[t] <= MAX_TERMINAL
    /\ pc[t] \in {"wait", "check"} => count[t] = nbytes[t] /\ nbytes[t] > 0
    /\ pc[t] \in {"nul", "clip"} => length[t] < nbytes[t] + grown[t] /\ nbytes[t] > 0
    /\ pc[t] = "copy" =>
          /\ count[t] <= nbytes[t] + grown[t]
          /\ count[t] <= nbytes[t] \/ count[t] <= MAX_TERMINAL

WithinBuffers == \A t \in Term : ~overrun[t] => Fits(t)

EnterInv == TypeOK /\ ReadNeedsEnter /\ WaitEndsByEnter

CapacityInv == TypeOK /\ WithinBuffers

\* The numbers the constants allow.
LEMMA Constants ==
    /\ MAX_TERMINAL \in Nat /\ MAX_TERMINAL >= 1 /\ TabByte \in Nat
    /\ Capacities \subseteq Nat
  BY TerminalInputAssumption

\* Nobody reads at first.
LEMMA InitEnterInv == Init => EnterInv /\ WithinBuffers
  BY Constants DEF Init, EnterInv, TypeOK, Locations, ReadNeedsEnter, WaitEndsByEnter,
                   WithinBuffers, Fits

\* What the types say of one terminal.
LEMMA NumbersOf ==
    ASSUME TypeOK, NEW t \in Term
    PROVE  /\ length[t] \in Nat /\ count[t] \in Nat /\ nbytes[t] \in Nat
           /\ grown[t] \in Nat /\ grown[t] <= MAX_TERMINAL
  <1>1. length[t] \in Nat /\ count[t] \in Nat /\ grown[t] \in 0..MAX_TERMINAL
    BY DEF TypeOK
  <1>2. nbytes[t] \in Capacities \cup {0}
    BY DEF TypeOK
  <1>3. nbytes[t] \in Nat
    <2>1. Capacities \subseteq Nat
      BY Constants
    <2>2. CASE nbytes[t] \in Capacities
      BY <2>1, <2>2, Zenon
    <2>3. CASE nbytes[t] = 0
      BY <2>3
    <2>4. QED
      BY <1>2, <2>2, <2>3, Zenon
  <1>4. grown[t] \in Nat /\ grown[t] <= MAX_TERMINAL
    BY <1>1, Constants
  <1>5. QED
    BY <1>1, <1>3, <1>4

-----------------------------------------------------------------------------
(* Types.                                                                   *)

\* Keys keep the types ...
LEMMA KeyboardTypes ==
    ASSUME TypeOK, keyboard_handler
    PROVE  TypeOK'
  <1> USE Constants DEF TypeOK, readVars
  <1>1. CASE KeyVisible
    BY <1>1 DEF KeyVisible, SetLength, Grow
  <1>2. CASE KeyTab
    <2>1. PICK n \in Nat : SetLength(n)
      BY <1>2 DEF KeyTab
    <2>2. overrun' \in [Term -> BOOLEAN]
      BY <1>2 DEF KeyTab
    <2>3. length' \in [Term -> Nat]
      BY <2>1 DEF SetLength
    <2>4. grown' \in [Term -> 0..MAX_TERMINAL]
      BY <1>2 DEF KeyTab, Grow
    <2>5. QED
      BY <1>2, <2>2, <2>3, <2>4 DEF KeyTab
  <1>3. CASE KeyBackspace
    BY <1>3 DEF KeyBackspace, SetLength
  <1>4. CASE KeyEnter
    BY <1>4 DEF KeyEnter
  <1>5. CASE \E n \in Term : KeySwitch(n)
    BY <1>5 DEF KeySwitch, inputVars
  <1>6. QED
    BY <1>1, <1>2, <1>3, <1>4, <1>5 DEF keyboard_handler

\* ... so do the accesses of terminal_read() ...
LEMMA ReadTypes ==
    ASSUME TypeOK, NEW t \in Term, ReadStep(t)
    PROVE  TypeOK'
  <1> USE Constants DEF TypeOK, Locations, inputVars, Goto, Forget, At
  <1>1. CASE ReadWaits(t)
    BY <1>1 DEF ReadWaits
  <1>2. CASE ReadCompares(t)
    BY <1>2 DEF ReadCompares
  <1>3. CASE ReadTerminates(t)
    BY <1>3 DEF ReadTerminates
  <1>4. CASE ReadClips(t)
    BY <1>4 DEF ReadClips
  <1>5. CASE ReadCopies(t)
    BY <1>5 DEF ReadCopies
  <1>6. CASE ReadClears(t)
    BY <1>6 DEF ReadClears
  <1>7. CASE ReadReturns(t)
    BY <1>7 DEF ReadReturns, Return
  <1>8. QED
    BY <1>1, <1>2, <1>3, <1>4, <1>5, <1>6, <1>7 DEF ReadStep

\* ... and calls, returns and halts.
LEMMA CallerTypes ==
    ASSUME TypeOK, NEW t \in Term, Caller(t) \/ Halted(t)
    PROVE  TypeOK'
  <1> USE Constants DEF TypeOK, Locations, inputVars, readVars, Goto, At
  <1>1. CASE terminal_write(t)
    BY <1>1 DEF terminal_write
  <1>2. ASSUME NEW n \in Capacities, ReadBegins(t, n) PROVE TypeOK'
    BY <1>2 DEF ReadBegins
  <1>3. CASE Halted(t)
    BY <1>3 DEF Halted, Return, Forget
  <1>4. QED
    BY <1>1, <1>2, <1>3 DEF Caller

\* Every step keeps the types.
LEMMA NextTypes == TypeOK /\ [Next]_vars => TypeOK'
  <1> SUFFICES ASSUME TypeOK, [Next]_vars PROVE TypeOK'
    OBVIOUS
  <1>1. CASE UNCHANGED vars
    BY <1>1 DEF vars, inputVars, readVars, TypeOK
  <1>2. QED
    BY <1>1, KeyboardTypes, ReadTypes, CallerTypes DEF Next

-----------------------------------------------------------------------------
(* A read needs an Enter of its own.                                        *)

\* Every step preserves the invariant: only Enter clears in_progress under a waiting read.
LEMMA NextEnterInv == EnterInv /\ [Next]_vars => EnterInv'
  <1> SUFFICES ASSUME EnterInv, [Next]_vars PROVE EnterInv'
    OBVIOUS
  <1>1. TypeOK'
    BY NextTypes DEF EnterInv
  <1> USE DEF EnterInv, TypeOK, ReadNeedsEnter, WaitEndsByEnter, inputVars, readVars
  <1>2. CASE keyboard_handler
    <2>1. CASE KeyEnter
      BY <1>1, <2>1 DEF KeyEnter
    <2>2. CASE KeyVisible \/ KeyTab \/ KeyBackspace \/ \E n \in Term : KeySwitch(n)
      <3>1. UNCHANGED <<pc, in_progress, entered>>
        BY <2>2 DEF KeyVisible, KeyTab, KeyBackspace, KeySwitch
      <3>2. QED
        BY <1>1, <3>1
    <2>3. QED
      BY <1>2, <2>1, <2>2 DEF keyboard_handler
  <1>3. ASSUME NEW t \in Term, ReadStep(t) PROVE EnterInv'
    <2>1. CASE ReadReturns(t)
      BY <1>1, <2>1 DEF ReadReturns, Return, Goto
    <2>2. CASE ReadWaits(t)
      BY <1>1, <2>2 DEF ReadWaits, Goto, At
    <2>3. CASE ~ReadReturns(t) /\ ~ReadWaits(t)
      <3>1. /\ UNCHANGED <<in_progress, entered>>
            /\ pc[t] \notin {"idle", "wait"}
            /\ \E l \in Locations \ {"idle", "wait"} : pc' = [pc EXCEPT ![t] = l]
        BY <1>3, <2>3 DEF ReadStep, ReadCompares, ReadTerminates, ReadClips, ReadCopies,
                          ReadClears, Goto, At, Locations
      <3>2. QED
        BY <1>1, <3>1
    <2>4. QED
      BY <2>1, <2>2, <2>3
  <1>4. ASSUME NEW t \in Term, Caller(t) PROVE EnterInv'
    <2>1. CASE terminal_write(t)
      BY <1>1, <2>1 DEF terminal_write
    <2>2. ASSUME NEW n \in Capacities, ReadBegins(t, n) PROVE EnterInv'
      BY <1>1, <2>2 DEF ReadBegins, Goto
    <2>3. QED
      BY <1>4, <2>1, <2>2 DEF Caller
  <1>5. ASSUME NEW t \in Term, Halted(t) PROVE EnterInv'
    BY <1>1, <1>5 DEF Halted, Return, Goto
  <1>6. CASE UNCHANGED vars
    BY <1>1, <1>6 DEF vars
  <1>7. QED
    BY <1>2, <1>3, <1>4, <1>5, <1>6 DEF Next

-----------------------------------------------------------------------------
(* Nothing is stored beyond the buffers.                                    *)

\* A longer line is within the bounds as long as it is one of a terminal's length ...
LEMMA GrowCapacity ==
    ASSUME CapacityInv, length[shown_term_id] < MAX_TERMINAL,
           SetLength(length[shown_term_id] + 1), Grow, UNCHANGED <<readVars, overrun, shown_term_id>>
    PROVE  WithinBuffers'
  <1> DEFINE s == shown_term_id
  <1>1. /\ s \in Term
        /\ \A t \in Term : t # s => length'[t] = length[t] /\ grown'[t] = grown[t]
        /\ length'[s] = length[s] + 1
        /\ grown'[s] = IF pc[s] \in {"nul", "clip"} /\ grown[s] < MAX_TERMINAL
                       THEN grown[s] + 1 ELSE grown[s]
        /\ UNCHANGED <<pc, nbytes, count, overrun>> /\ s' = s
    BY DEF CapacityInv, TypeOK, readVars, SetLength, Grow
  <1>2. ASSUME NEW t \in Term, ~overrun[t], t # s PROVE Fits(t)'
    BY <1>1, <1>2 DEF Fits, CapacityInv, WithinBuffers
  <1>3. ASSUME ~overrun[s] PROVE Fits(s)'
    <2>1. Fits(s)
      BY <1>1, <1>3 DEF CapacityInv, WithinBuffers
    <2>2. /\ length[s] \in Nat /\ count[s] \in Nat /\ nbytes[s] \in Nat
          /\ grown[s] \in Nat /\ grown[s] <= MAX_TERMINAL
      BY <1>1, NumbersOf DEF CapacityInv
    <2>3. QED
      BY <1>1, <2>1, <2>2, Constants DEF Fits
  <1>4. QED
    BY <1>1, <1>2, <1>3 DEF WithinBuffers

\* ... which keys see to, until a Tab on a full one ...
LEMMA KeyboardCapacity ==
    ASSUME CapacityInv, keyboard_handler
    PROVE  WithinBuffers'
  <1> USE Constants DEF CapacityInv, TypeOK, WithinBuffers, readVars
  <1>1. CASE KeyVisible
    BY <1>1, GrowCapacity DEF KeyVisible
  <1>2. CASE KeyTab
    <2>1. CASE length[shown_term_id] < MAX_TERMINAL
      BY <1>2, <2>1, GrowCapacity DEF KeyTab
    <2>2. CASE length[shown_term_id] = MAX_TERMINAL
      <3>1. /\ overrun' = [overrun EXCEPT ![shown_term_id] = TRUE]
            /\ \A t \in Term \ {shown_term_id} : length'[t] = length[t] /\ grown'[t] = grown[t]
            /\ UNCHANGED <<pc, nbytes, count>>
        BY <1>2, <2>2 DEF KeyTab, SetLength, Grow
      <3>2. QED
        BY <3>1 DEF Fits
    <2>3. QED
      BY <1>2, <2>1, <2>2 DEF KeyTab
  <1>3. CASE KeyBackspace
    <2> SUFFICES ASSUME NEW t \in Term, ~overrun[t] PROVE Fits(t)'
      BY <1>3 DEF KeyBackspace
    <2>1. /\ length'[t] \in Nat /\ length'[t] <= length[t]
          /\ UNCHANGED <<pc, nbytes, count, grown>>
      BY <1>3 DEF KeyBackspace, SetLength
    <2>2. Fits(t)
      OBVIOUS
    <2>3. QED
      BY <2>1, <2>2, NumbersOf DEF Fits
  <1>4. CASE KeyEnter
    BY <1>4 DEF KeyEnter, Fits
  <1>5. CASE \E n \in Term : KeySwitch(n)
    BY <1>5 DEF KeySwitch, inputVars, Fits
  <1>6. QED
    BY <1>1, <1>2, <1>3, <1>4, <1>5 DEF keyboard_handler

\* ... reads take what fits ...
LEMMA ReadCapacity ==
    ASSUME CapacityInv, NEW t \in Term, ReadStep(t)
    PROVE  WithinBuffers'
  <1> USE Constants DEF CapacityInv, TypeOK, WithinBuffers, Fits, inputVars, Goto, At
  <1>1. CASE ReadWaits(t)
    BY <1>1 DEF ReadWaits
  <1>2. CASE ReadCompares(t)
    BY <1>2 DEF ReadCompares
  <1>3. CASE ReadTerminates(t)
    BY <1>3 DEF ReadTerminates
  <1>4. CASE ReadClips(t)
    <2>1. ASSUME NEW u \in Term, u # t, ~overrun[u] PROVE Fits(u)'
      BY <1>4, <2>1 DEF ReadClips
    <2>2. ASSUME ~overrun[t] PROVE Fits(t)'
      <3>1. /\ pc[t] = "clip" /\ pc'[t] = "copy" /\ count'[t] = length[t]
            /\ UNCHANGED <<length, nbytes, grown>>
        BY <1>4 DEF ReadClips
      <3>2. length[t] <= MAX_TERMINAL /\ length[t] < nbytes[t] + grown[t]
        BY <2>2, <3>1
      <3>3. QED
        BY <3>1, <3>2, NumbersOf
    <2>3. QED
      BY <1>4, <2>1, <2>2 DEF ReadClips
  <1>5. CASE ReadCopies(t)
    BY <1>5 DEF ReadCopies, Forget
  <1>6. CASE ReadClears(t)
    BY <1>6 DEF ReadClears
  <1>7. CASE ReadReturns(t)
    BY <1>7 DEF ReadReturns, Return, Forget
  <1>8. QED
    BY <1>1, <1>2, <1>3, <1>4, <1>5, <1>6, <1>7 DEF ReadStep

\* ... and calls and returns store nothing.
LEMMA CallerCapacity ==
    ASSUME CapacityInv, NEW t \in Term, Caller(t) \/ Halted(t)
    PROVE  WithinBuffers'
  <1> USE Constants DEF CapacityInv, TypeOK, WithinBuffers, Fits, inputVars, readVars, Goto, At
  <1>1. CASE terminal_write(t)
    BY <1>1 DEF terminal_write
  <1>2. ASSUME NEW n \in Capacities, ReadBegins(t, n) PROVE WithinBuffers'
    BY <1>2 DEF ReadBegins
  <1>3. CASE Halted(t)
    BY <1>3 DEF Halted, Return, Forget
  <1>4. QED
    BY <1>1, <1>2, <1>3 DEF Caller

\* Every step preserves the bounds.
LEMMA NextCapacityInv == CapacityInv /\ [Next]_vars => CapacityInv'
  <1> SUFFICES ASSUME CapacityInv, [Next]_vars PROVE CapacityInv'
    OBVIOUS
  <1>1. TypeOK'
    BY NextTypes DEF CapacityInv
  <1>2. CASE UNCHANGED vars
    BY <1>1, <1>2 DEF vars, inputVars, readVars, CapacityInv, WithinBuffers, Fits
  <1>3. QED
    BY <1>1, <1>2, KeyboardCapacity, ReadCapacity, CallerCapacity DEF Next, CapacityInv

-----------------------------------------------------------------------------
\* For any number of terminals: a read gets past its wait only by an Enter pressed
\* on its own terminal since it began.
THEOREM TerminalReadNeedsEnter == Spec => []ReadNeedsEnter
  <1>1. Init => EnterInv
    BY InitEnterInv
  <1>2. EnterInv => ReadNeedsEnter
    BY DEF EnterInv
  <1>3. QED
    BY <1>1, <1>2, NextEnterInv, PTL DEF Spec

\* For any capacity of the line and buffers of any size: terminal_read() passes the
\* end of its buffer by no more than was typed since it compared the length with it,
\* never by more than a line and its NUL, and the line never exceeds its own buffer
\* (but by Tab on a full line).
THEOREM TerminalReadWithinCapacity == Spec => []ReadWithinCapacity
  <1>1. Init => CapacityInv
    BY InitEnterInv DEF EnterInv, CapacityInv
  <1>2. CapacityInv => ReadWithinCapacity
    <2> SUFFICES ASSUME CapacityInv, NEW t \in Term, ~overrun[t]
                 PROVE  /\ length[t] <= MAX_TERMINAL
                        /\ Reach(t) <= nbytes[t] + grown[t]
                        /\ Reach(t) <= nbytes[t] \/ Reach(t) <= MAX_TERMINAL + 1
      BY DEF ReadWithinCapacity
    <2>1. Fits(t)
      BY DEF CapacityInv, WithinBuffers
    <2>2. QED
      BY <2>1, NumbersOf, Constants DEF CapacityInv, Fits, Reach, At
  <1>3. QED
    BY <1>1, <1>2, NextCapacityInv, PTL DEF Spec

-----------------------------------------------------------------------------
(* The line's way to the program.                                           *)

\* A set of natural numbers has a least member.
LEMMA LeastMember ==
    ASSUME NEW S, S \subseteq Nat, S # {}
    PROVE  \E x \in S : \A y \in S : x <= y
  <1>1. PICK x \in S : \A y \in S : ~(<<y, x>> \in OpToRel(<, Nat))
    BY NatLessThanWellFounded, WFMin, Zenon
  <1>2. \A y \in S : y < x => <<y, x>> \in OpToRel(<, Nat)
    BY DEF OpToRel
  <1>3. \A y \in S : ~(y < x)
    BY <1>1, <1>2
  <1>4. x \in Nat /\ \A y \in S : y \in Nat
    OBVIOUS
  <1>5. QED
    BY <1>3, <1>4

-----------------------------------------------------------------------------
(* The loops of execute().                                                  *)

Char == STRING \ {C!NUL}

\* The characters of the line that execute() looks at.
LineLength(s) == IF Len(s) < MAX_TERMINAL THEN Len(s) ELSE MAX_TERMINAL

LEMMA LineFacts ==
    ASSUME C!CommandLineAssumption, NEW s \in Seq(Char)
    PROVE  /\ LineLength(s) \in 0 .. MAX_TERMINAL /\ LineLength(s) <= Len(s)
           /\ C!Line(s) \in Seq(Char) /\ Len(C!Line(s)) = LineLength(s)
           /\ \A k \in 0 .. (LineLength(s) - 1) :
                  C!Line(s)[k + 1] = s[k + 1] /\ C!At(s, k) = s[k + 1] /\ C!At(s, k) # C!NUL
           /\ LineLength(s) = MAX_TERMINAL \/ C!At(s, LineLength(s)) = C!NUL
  <1>1. MAX_TERMINAL \in Nat /\ Len(s) \in Nat
    BY DEF C!CommandLineAssumption
  <1>2. LineLength(s) \in 0 .. MAX_TERMINAL /\ LineLength(s) <= Len(s)
    BY <1>1 DEF LineLength
  <1>3. C!Line(s) = SubSeq(s, 1, LineLength(s))
    BY DEF C!Line, LineLength
  <1>4. /\ C!Line(s) \in Seq(Char) /\ Len(C!Line(s)) = LineLength(s)
        /\ \A k \in 1 .. LineLength(s) : C!Line(s)[k] = s[k]
    BY <1>1, <1>2, <1>3
  <1>5. ASSUME NEW k \in 0 .. (LineLength(s) - 1)
        PROVE  C!Line(s)[k + 1] = s[k + 1] /\ C!At(s, k) = s[k + 1] /\ C!At(s, k) # C!NUL
    <2>1. k + 1 \in 1 .. LineLength(s) /\ k + 1 \in 1 .. Len(s) /\ k < Len(s)
      BY <1>1, <1>2
    <2>2. C!At(s, k) = s[k + 1] /\ s[k + 1] \in Char
      BY <2>1 DEF C!At
    <2>3. QED
      BY <1>4, <2>1, <2>2 DEF Char
  <1>6. LineLength(s) = MAX_TERMINAL \/ C!At(s, LineLength(s)) = C!NUL
    BY <1>1 DEF LineLength, C!At
  <1>7. QED
    BY <1>2, <1>4, <1>5, <1>6

\* A loop passes what it is for, and stops in front of something else or at the end.
LEMMA LoopStops ==
    ASSUME C!CommandLineAssumption, NEW s \in Seq(Char), NEW i \in 0 .. LineLength(s),
           NEW spaces \in BOOLEAN
    PROVE  LET j == C!Stop(s, i, spaces)
           IN  /\ j \in i .. LineLength(s)
               /\ \A k \in i .. (j - 1) : C!Line(s)[k + 1] = C!SPACE <=> spaces
               /\ j < LineLength(s) => ~(C!Line(s)[j + 1] = C!SPACE <=> spaces)
  <1>1. /\ LineLength(s) \in Nat /\ MAX_TERMINAL \in Nat /\ i \in Nat
        /\ LineLength(s) <= MAX_TERMINAL
    BY LineFacts DEF C!CommandLineAssumption
  <1> DEFINE ends == {j \in i .. MAX_TERMINAL :
                          j = MAX_TERMINAL \/ ~C!Passed(C!At(s, j), spaces)}
             OK(j) == /\ j = MAX_TERMINAL \/ ~C!Passed(C!At(s, j), spaces)
                      /\ \A k \in i .. j - 1 : C!Passed(C!At(s, k), spaces)
             j == C!Stop(s, i, spaces)
  <1>2. \E l \in i .. MAX_TERMINAL : OK(l)
    <2>1. MAX_TERMINAL \in ends /\ ends \subseteq Nat
      BY <1>1
    <2>2. PICK l \in ends : \A y \in ends : l <= y
      BY <2>1, LeastMember
    <2>3. \A k \in i .. l - 1 : k \in i .. MAX_TERMINAL /\ ~(l <= k)
      BY <1>1
    <2>4. QED
      BY <2>2, <2>3
  <1>3. j \in i .. MAX_TERMINAL /\ OK(j)
    <2> HIDE DEF OK
    <2>1. j = CHOOSE l \in i .. MAX_TERMINAL : OK(l)
      BY DEF C!Stop, OK
    <2> HIDE DEF j
    <2>2. QED
      BY <1>2, <2>1
  <1> HIDE DEF j
  <1>4. j <= LineLength(s)
    <2> SUFFICES ASSUME j > LineLength(s) PROVE FALSE
      BY <1>1, <1>3
    <2>1. LineLength(s) # MAX_TERMINAL /\ LineLength(s) \in i .. (j - 1)
      BY <1>1, <1>3
    <2>2. C!At(s, LineLength(s)) = C!NUL
      BY <2>1, LineFacts
    <2>3. QED
      BY <1>3, <2>1, <2>2 DEF C!Passed
  <1>5. ASSUME NEW k \in i .. (j - 1) PROVE C!Line(s)[k + 1] = C!SPACE <=> spaces
    <2>1. k \in 0 .. (LineLength(s) - 1) /\ k \in i .. j - 1
      BY <1>1, <1>3, <1>4
    <2>2. QED
      BY <1>3, <2>1, LineFacts DEF C!Passed
  <1>6. ASSUME j < LineLength(s) PROVE ~(C!Line(s)[j + 1] = C!SPACE <=> spaces)
    <2>1. j \in 0 .. (LineLength(s) - 1) /\ j # MAX_TERMINAL
      BY <1>1, <1>3, <1>6
    <2>2. QED
      BY <1>3, <2>1, LineFacts DEF C!Passed
  <1>7. QED
    BY <1>1, <1>3, <1>4, <1>5, <1>6 DEF j

-----------------------------------------------------------------------------
(* Words.                                                                   *)

\* The line l is spaces up to a, a word up to b, spaces up to c, a word up to d.
Split(l, a, b, c, d) ==
    /\ a \in 0 .. Len(l) /\ b \in a .. Len(l) /\ c \in b .. Len(l) /\ d \in c .. Len(l)
    /\ \A k \in 0 .. (a - 1) : l[k + 1] = C!SPACE
    /\ \A k \in a .. (b - 1) : l[k + 1] # C!SPACE
    /\ \A k \in b .. (c - 1) : l[k + 1] = C!SPACE
    /\ \A k \in c .. (d - 1) : l[k + 1] # C!SPACE
    /\ a < Len(l) => l[a + 1] # C!SPACE
    /\ b < Len(l) => l[b + 1] = C!SPACE
    /\ c < Len(l) => l[c + 1] # C!SPACE
    /\ d < Len(l) => l[d + 1] = C!SPACE

\* The loops split the line.
LEMMA LoopsSplit ==
    ASSUME C!CommandLineAssumption, NEW s \in Seq(Char)
    PROVE  Split(C!Line(s), C!NameAt(s), C!NameEnd(s), C!ArgumentAt(s), C!ArgumentEnd(s))
  <1>1. LineLength(s) \in Nat /\ Len(C!Line(s)) = LineLength(s)
    BY LineFacts
  <1>2. /\ C!NameAt(s) \in 0 .. LineLength(s)
        /\ \A k \in 0 .. (C!NameAt(s) - 1) : C!Line(s)[k + 1] = C!SPACE
        /\ C!NameAt(s) < LineLength(s) => C!Line(s)[C!NameAt(s) + 1] # C!SPACE
    <2>1. 0 \in 0 .. LineLength(s)
      BY <1>1
    <2>2. QED
      BY <2>1, LoopStops DEF C!NameAt
  <1>3. /\ C!NameEnd(s) \in C!NameAt(s) .. LineLength(s)
        /\ \A k \in C!NameAt(s) .. (C!NameEnd(s) - 1) : C!Line(s)[k + 1] # C!SPACE
        /\ C!NameEnd(s) < LineLength(s) => C!Line(s)[C!NameEnd(s) + 1] = C!SPACE
    BY <1>2, LoopStops DEF C!NameEnd
  <1>4. /\ C!ArgumentAt(s) \in C!NameEnd(s) .. LineLength(s)
        /\ \A k \in C!NameEnd(s) .. (C!ArgumentAt(s) - 1) : C!Line(s)[k + 1] = C!SPACE
        /\ C!ArgumentAt(s) < LineLength(s) => C!Line(s)[C!ArgumentAt(s) + 1] # C!SPACE
    <2>1. C!NameEnd(s) \in 0 .. LineLength(s)
      BY <1>1, <1>2, <1>3
    <2>2. QED
      BY <2>1, LoopStops DEF C!ArgumentAt
  <1>5. /\ C!ArgumentEnd(s) \in C!ArgumentAt(s) .. LineLength(s)
        /\ \A k \in C!ArgumentAt(s) .. (C!ArgumentEnd(s) - 1) : C!Line(s)[k + 1] # C!SPACE
        /\ C!ArgumentEnd(s) < LineLength(s) => C!Line(s)[C!ArgumentEnd(s) + 1] = C!SPACE
    <2>1. C!ArgumentAt(s) \in 0 .. LineLength(s)
      BY <1>1, <1>2, <1>3, <1>4
    <2>2. QED
      BY <2>1, LoopStops DEF C!ArgumentEnd
  <1>6. QED
    BY <1>1, <1>2, <1>3, <1>4, <1>5 DEF Split

\* Two words that start together end together.
LEMMA WordEnds ==
    ASSUME NEW S, NEW l \in Seq(S), NEW v \in C!WordsOf(l), NEW w \in C!WordsOf(l), v[1] = w[1]
    PROVE  v[2] <= w[2]
  <1> SUFFICES ASSUME w[2] < v[2] PROVE FALSE
    BY DEF C!WordsOf
  <1>1. /\ v[1] \in 1 .. Len(l) /\ v[2] \in 1 .. Len(l) /\ w[2] \in 1 .. Len(l)
        /\ w[1] <= w[2] /\ \A i \in v[1] .. v[2] : l[i] # C!SPACE
        /\ w[2] + 1 \in DOMAIN l => l[w[2] + 1] = C!SPACE
    BY DEF C!WordsOf, C!IsWord
  <1>2. w[2] + 1 \in v[1] .. v[2] /\ w[2] + 1 \in DOMAIN l
    BY <1>1
  <1>3. QED
    BY <1>1, <1>2

LEMMA SameWord ==
    ASSUME NEW S, NEW l \in Seq(S), NEW v \in C!WordsOf(l), NEW w \in C!WordsOf(l), v[1] = w[1]
    PROVE  v = w
  <1>1. v[2] <= w[2] /\ w[2] <= v[2]
    BY WordEnds
  <1>2. v \in (1 .. Len(l)) \X (1 .. Len(l)) /\ w \in (1 .. Len(l)) \X (1 .. Len(l))
    BY DEF C!WordsOf
  <1>3. v[2] = w[2]
    BY <1>1, <1>2
  <1>4. QED
    BY <1>2, <1>3

\* The first two words are where the line splits, and all others are behind them.
LEMMA SplitWords ==
    ASSUME NEW S, NEW l \in Seq(S), NEW a \in Nat, NEW b \in Nat, NEW c \in Nat, NEW d \in Nat,
           Split(l, a, b, c, d)
    PROVE  /\ a < b => <<a + 1, b>> \in C!WordsOf(l)
           /\ c < d => <<c + 1, d>> \in C!WordsOf(l)
           /\ a = b => a = Len(l)
           /\ c = d => c = Len(l)
           /\ \A w \in C!WordsOf(l) : w[1] > c + 1 \/ (a < b /\ w = <<a + 1, b>>)
                                                 \/ (c < d /\ w = <<c + 1, d>>)
  <1>1. /\ Len(l) \in Nat
        /\ a <= b /\ b <= c /\ c <= d /\ d <= Len(l)
    BY DEF Split
  <1>2. /\ \A i \in 1 .. a : l[i] = C!SPACE
        /\ \A i \in (a + 1) .. b : l[i] # C!SPACE
        /\ \A i \in (b + 1) .. c : l[i] = C!SPACE
        /\ \A i \in (c + 1) .. d : l[i] # C!SPACE
    <2>2. ASSUME NEW i \in 1 .. a PROVE l[i] = C!SPACE
      <3>1. i - 1 \in 0 .. (a - 1) /\ (i - 1) + 1 = i
        BY <1>1
      <3>2. QED
        BY <3>1 DEF Split
    <2>3. ASSUME NEW i \in (a + 1) .. b PROVE l[i] # C!SPACE
      <3>1. i - 1 \in a .. (b - 1) /\ (i - 1) + 1 = i
        BY <1>1
      <3>2. QED
        BY <3>1 DEF Split
    <2>4. ASSUME NEW i \in (b + 1) .. c PROVE l[i] = C!SPACE
      <3>1. i - 1 \in b .. (c - 1) /\ (i - 1) + 1 = i
        BY <1>1
      <3>2. QED
        BY <3>1 DEF Split
    <2>5. ASSUME NEW i \in (c + 1) .. d PROVE l[i] # C!SPACE
      <3>1. i - 1 \in c .. (d - 1) /\ (i - 1) + 1 = i
        BY <1>1
      <3>2. QED
        BY <3>1 DEF Split
    <2>6. QED
      BY <2>2, <2>3, <2>4, <2>5
  <1>3. ASSUME a < b PROVE <<a + 1, b>> \in C!WordsOf(l)
    <2>1. a \in 1 .. a => l[a] = C!SPACE
      BY <1>2
    <2>2. b + 1 \in DOMAIN l => l[b + 1] = C!SPACE
      BY <1>1 DEF Split
    <2>3. C!IsWord(l, <<a + 1, b>>)
      BY <1>1, <1>2, <1>3, <2>1, <2>2 DEF C!IsWord
    <2>4. QED
      BY <1>1, <1>3, <2>3 DEF C!WordsOf
  <1>4. ASSUME c < d PROVE <<c + 1, d>> \in C!WordsOf(l)
    <2>1. c \in 1 .. Len(l) => l[c] = C!SPACE
      <3>1. CASE b < c
        BY <1>1, <1>2, <3>1
      <3>2. CASE b = c
        <4>1. b < Len(l) /\ l[b + 1] = C!SPACE /\ l[c + 1] # C!SPACE
          BY <1>1, <1>4, <3>2 DEF Split
        <4>2. QED
          BY <3>2, <4>1
      <3>3. QED
        BY <1>1, <3>1, <3>2
    <2>2. d + 1 \in DOMAIN l => l[d + 1] = C!SPACE
      BY <1>1 DEF Split
    <2>3. C!IsWord(l, <<c + 1, d>>)
      BY <1>1, <1>2, <1>4, <2>1, <2>2 DEF C!IsWord
    <2>4. QED
      BY <1>1, <1>4, <2>3 DEF C!WordsOf
  <1>0. /\ a < Len(l) => l[a + 1] # C!SPACE
        /\ b < Len(l) => l[b + 1] = C!SPACE
        /\ c < Len(l) => l[c + 1] # C!SPACE
        /\ d < Len(l) => l[d + 1] = C!SPACE
    BY DEF Split
  <1>5. ASSUME a = b PROVE a = Len(l)
    <2>1. ~(a < Len(l))
      BY <1>0, <1>5
    <2>2. QED
      BY <1>1, <1>5, <2>1
  <1>6. ASSUME c = d PROVE c = Len(l)
    <2>1. ~(c < Len(l))
      BY <1>0, <1>6
    <2>2. QED
      BY <1>1, <1>6, <2>1
  <1>7. ASSUME NEW w \in C!WordsOf(l), w[1] <= c + 1
        PROVE  (a < b /\ w = <<a + 1, b>>) \/ (c < d /\ w = <<c + 1, d>>)
    <2>1. /\ w[1] \in 1 .. Len(l) /\ w[1] <= w[2] /\ w[2] \in 1 .. Len(l)
          /\ l[w[1]] # C!SPACE
          /\ w[1] - 1 \in DOMAIN l => l[w[1] - 1] = C!SPACE
      BY DEF C!WordsOf, C!IsWord
    <2>2. w[1] \notin 1 .. a /\ w[1] \notin (b + 1) .. c
      BY <1>2, <2>1
    <2>3. CASE w[1] \in (a + 1) .. b
      <3>1. w[1] - 1 \notin (a + 1) .. b
        BY <1>1, <1>2, <2>1, <2>3
      <3>2. w[1] = a + 1 /\ a < b
        BY <1>1, <2>3, <3>1
      <3>3. <<a + 1, b>>[1] = a + 1
        OBVIOUS
      <3>4. QED
        BY <1>3, <3>2, <3>3, SameWord
    <2>4. CASE w[1] = c + 1
      <3>1. c < Len(l)
        BY <1>1, <2>1, <2>4
      <3>2. c < d
        BY <1>1, <1>6, <3>1
      <3>3. <<c + 1, d>>[1] = c + 1
        OBVIOUS
      <3>4. QED
        BY <1>4, <2>4, <3>2, <3>3, SameWord
    <2>5. QED
      BY <1>1, <1>7, <2>1, <2>2, <2>3, <2>4
  <1>8. ASSUME NEW w \in C!WordsOf(l)
        PROVE  w[1] > c + 1 \/ (a < b /\ w = <<a + 1, b>>) \/ (c < d /\ w = <<c + 1, d>>)
    <2>1. w[1] \in Int
      BY DEF C!WordsOf
    <2>2. w[1] <= c + 1 \/ w[1] > c + 1
      BY <1>1, <2>1
    <2>3. QED
      BY <1>7, <2>2
  <1>9. QED
    BY <1>3, <1>4, <1>5, <1>6, <1>8

\* The words that start no later than w.
UpTo(l, w) == {v \in C!WordsOf(l) : v[1] <= w[1]}

LEMMA UpToFinite ==
    ASSUME NEW S, NEW l \in Seq(S), NEW w
    PROVE  IsFiniteSet(UpTo(l, w)) /\ Cardinality(UpTo(l, w)) \in Nat
  <1>1. Len(l) \in Int /\ 1 \in Int
    OBVIOUS
  <1>2. IsFiniteSet(1 .. Len(l))
    BY <1>1, FS_Interval
  <1>3. IsFiniteSet((1 .. Len(l)) \X (1 .. Len(l)))
    BY <1>2, FS_Product
  <1>4. UpTo(l, w) \subseteq (1 .. Len(l)) \X (1 .. Len(l))
    BY DEF UpTo, C!WordsOf
  <1>5. IsFiniteSet(UpTo(l, w))
    BY <1>3, <1>4, FS_Subset
  <1>6. QED
    BY <1>5, FS_CardinalityType

\* Two different things are two, and three are three.
LEMMA TwoThings ==
    ASSUME NEW x, NEW y, x # y
    PROVE  IsFiniteSet({x, y}) /\ Cardinality({x, y}) = 2
  <1>1. IsFiniteSet({x}) /\ Cardinality({x}) = 1
    BY FS_Singleton
  <1>2. y \notin {x} /\ {x} \cup {y} = {x, y}
    OBVIOUS
  <1>3. IsFiniteSet({x} \cup {y}) /\ Cardinality({x} \cup {y}) = Cardinality({x}) + 1
    BY <1>1, <1>2, FS_AddElement
  <1>4. QED
    BY <1>1, <1>2, <1>3

LEMMA ThreeThings ==
    ASSUME NEW x, NEW y, NEW z, x # y, z # x, z # y
    PROVE  IsFiniteSet({x, y, z}) /\ Cardinality({x, y, z}) = 3
  <1>1. IsFiniteSet({x, y}) /\ Cardinality({x, y}) = 2
    BY TwoThings
  <1>2. z \notin {x, y} /\ {x, y} \cup {z} = {x, y, z}
    OBVIOUS
  <1>3. IsFiniteSet({x, y} \cup {z}) /\ Cardinality({x, y} \cup {z}) = Cardinality({x, y}) + 1
    BY <1>1, <1>2, FS_AddElement
  <1>4. QED
    BY <1>1, <1>2, <1>3

\* Module CommandLine counts as this one does.
LEMMA SameCardinality == \A S : C!Cardinality(S) = Cardinality(S)
  BY DEF C!Cardinality, Cardinality

\* The n-th word is the only one with n words up to it.
LEMMA WordIs ==
    ASSUME NEW s, NEW n, NEW u,
           \A w : w \in C!WordsOf(C!Line(s)) /\ Cardinality(UpTo(C!Line(s), w)) = n <=> w = u
    PROVE  C!Word(s, n) = SubSeq(s, u[1], u[2])
  <1> DEFINE nth == {w \in C!WordsOf(C!Line(s)) :
                        Cardinality({v \in C!WordsOf(C!Line(s)) : v[1] <= w[1]}) = n}
             counted == {w \in C!WordsOf(C!Line(s)) :
                            C!Cardinality({v \in C!WordsOf(C!Line(s)) : v[1] <= w[1]}) = n}
  <1>1. counted = nth
    BY SameCardinality
  <1>2. C!Word(s, n) = IF counted = {} THEN <<>>
                       ELSE LET w == CHOOSE w \in counted : TRUE IN SubSeq(s, w[1], w[2])
    BY DEF C!Word
  <1> HIDE DEF counted
  <1>3. nth = {u}
    BY DEF UpTo
  <1> HIDE DEF nth
  <1>4. counted # {} /\ (CHOOSE w \in counted : TRUE) = u
    BY <1>1, <1>3
  <1>5. QED
    BY <1>2, <1>4

LEMMA NoWord ==
    ASSUME NEW s, NEW n,
           \A w \in C!WordsOf(C!Line(s)) : Cardinality(UpTo(C!Line(s), w)) # n
    PROVE  C!Word(s, n) = <<>>
  <1> DEFINE nth == {w \in C!WordsOf(C!Line(s)) :
                        Cardinality({v \in C!WordsOf(C!Line(s)) : v[1] <= w[1]}) = n}
             counted == {w \in C!WordsOf(C!Line(s)) :
                            C!Cardinality({v \in C!WordsOf(C!Line(s)) : v[1] <= w[1]}) = n}
  <1>1. counted = nth
    BY SameCardinality
  <1>2. C!Word(s, n) = IF counted = {} THEN <<>>
                       ELSE LET w == CHOOSE w \in counted : TRUE IN SubSeq(s, w[1], w[2])
    BY DEF C!Word
  <1> HIDE DEF counted
  <1>3. nth = {}
    BY DEF UpTo
  <1> HIDE DEF nth
  <1>4. QED
    BY <1>1, <1>2, <1>3

\* The first two words are the name and the argument.
LEMMA WordsParsed ==
    ASSUME C!CommandLineAssumption, NEW s \in Seq(Char)
    PROVE  /\ C!Word(s, 1) = C!Name(s)
           /\ C!Word(s, 2) = C!Between(s, C!ArgumentAt(s), C!ArgumentEnd(s))
  <1> DEFINE l == C!Line(s)
             a == C!NameAt(s)
             b == C!NameEnd(s)
             c == C!ArgumentAt(s)
             d == C!ArgumentEnd(s)
             first == <<a + 1, b>>
             second == <<c + 1, d>>
  <1>1. l \in Seq(Char) /\ Split(l, a, b, c, d)
    BY LineFacts, LoopsSplit
  <1>2. /\ Len(l) \in Nat /\ a \in Nat /\ b \in Nat /\ c \in Nat /\ d \in Nat
        /\ a <= b /\ b <= c /\ c <= d /\ d <= Len(l)
    <2> HIDE DEF l, a, b, c, d
    <2>1. Len(l) \in Nat
      BY <1>1
    <2>2. QED
      BY <1>1, <2>1 DEF Split
  <1> HIDE DEF l, a, b, c, d
  <1>3. /\ a < b => first \in C!WordsOf(l)
        /\ c < d => second \in C!WordsOf(l)
        /\ a = b => a = Len(l)
        /\ c = d => c = Len(l)
        /\ \A w \in C!WordsOf(l) : w[1] > c + 1 \/ (a < b /\ w = first) \/ (c < d /\ w = second)
    BY <1>1, <1>2, SplitWords
  <1>4. \A w \in C!WordsOf(l) : w[1] \in Int /\ w[1] <= Len(l)
    BY <1>2 DEF C!WordsOf
  <1>5. first[1] = a + 1 /\ first[2] = b /\ second[1] = c + 1 /\ second[2] = d
    OBVIOUS
  <1> HIDE DEF first, second
  <1>6. C!Name(s) = SubSeq(s, a + 1, b)
    BY DEF C!Name, C!Between, a, b
  <1>7. C!Between(s, C!ArgumentAt(s), C!ArgumentEnd(s)) = SubSeq(s, c + 1, d)
    BY DEF C!Between, c, d
  <1>8. CASE a = b
    <2>1. a = Len(l) /\ c = Len(l) /\ d = Len(l)
      BY <1>2, <1>3, <1>8
    <2>2. C!WordsOf(l) = {}
      <3>1. \A w \in C!WordsOf(l) : w[1] > c + 1
        BY <1>2, <1>3, <1>8, <2>1
      <3>2. QED
        BY <1>2, <1>4, <2>1, <3>1
    <2>3. C!Word(s, 1) = <<>> /\ C!Word(s, 2) = <<>>
      BY <2>2, NoWord DEF l
    <2>4. SubSeq(s, a + 1, b) = <<>> /\ SubSeq(s, c + 1, d) = <<>>
      <3>1. a + 1 \in Int /\ b \in Int /\ b < a + 1 /\ c + 1 \in Int /\ d \in Int /\ d < c + 1
        BY <1>2, <1>8, <2>1
      <3>2. QED
        BY <3>1, SubSeqEmpty
    <2>5. QED
      BY <1>6, <1>7, <2>3, <2>4
  <1>9. CASE a < b
    <2>1. first \in C!WordsOf(l) /\ first[1] < c + 1
      BY <1>2, <1>3, <1>5, <1>9
    <2>2. ASSUME NEW w \in C!WordsOf(l), w # first PROVE w[1] > first[1]
      BY <1>2, <1>3, <1>4, <1>5, <1>9, <2>1, <2>2
    <2>3. UpTo(l, first) = {first}
      BY <1>2, <1>4, <1>5, <2>1, <2>2 DEF UpTo
    <2>4. Cardinality(UpTo(l, first)) = 1
      BY <2>3, FS_Singleton
    <2>5. ASSUME NEW w \in C!WordsOf(l), w # first
          PROVE  Cardinality(UpTo(l, w)) >= 2 /\ {first, w} \subseteq UpTo(l, w)
      <3>1. w[1] > first[1] /\ w[1] \in Int /\ first[1] \in Int
        BY <1>2, <1>4, <1>5, <2>2, <2>5
      <3>2. {first, w} \subseteq UpTo(l, w)
        BY <2>1, <3>1 DEF UpTo
      <3>3. Cardinality({first, w}) = 2
        BY <2>5, TwoThings
      <3>4. Cardinality({first, w}) <= Cardinality(UpTo(l, w))
        BY <1>1, <3>2, UpToFinite, FS_Subset
      <3>5. Cardinality(UpTo(l, w)) \in Nat
        BY <1>1, UpToFinite
      <3>6. QED
        BY <3>2, <3>3, <3>4, <3>5
    <2>6. C!Word(s, 1) = SubSeq(s, a + 1, b)
      <3>1. \A w : w \in C!WordsOf(l) /\ Cardinality(UpTo(l, w)) = 1 <=> w = first
        BY <2>1, <2>4, <2>5
      <3>2. QED
        BY <3>1, <1>5, WordIs DEF l
    <2>7. C!Word(s, 2) = SubSeq(s, c + 1, d)
      <3>1. CASE c = d
        <4>1. \A w \in C!WordsOf(l) : w = first
          BY <1>2, <1>3, <1>4, <3>1
        <4>2. \A w \in C!WordsOf(l) : Cardinality(UpTo(l, w)) # 2
          BY <2>4, <4>1
        <4>3. C!Word(s, 2) = <<>>
          BY <4>2, NoWord DEF l
        <4>4. c + 1 \in Int /\ d \in Int /\ d < c + 1
          BY <1>2, <3>1
        <4>5. QED
          BY <4>3, <4>4, SubSeqEmpty
      <3>2. CASE c < d
        <4>1. second \in C!WordsOf(l) /\ second # first
          BY <1>2, <1>3, <1>5, <2>1, <3>2
        <4>2. UpTo(l, second) = {first, second}
          <5>1. \A w \in C!WordsOf(l) : w[1] <= c + 1 => w = first \/ w = second
            BY <1>2, <1>3, <1>4
          <5>2. first[1] <= second[1] /\ second[1] <= second[1]
            BY <1>2, <1>5
          <5>3. QED
            BY <1>5, <2>1, <4>1, <5>1, <5>2 DEF UpTo
        <4>3. Cardinality(UpTo(l, second)) = 2
          <5>1. first # second
            BY <4>1
          <5>2. Cardinality({first, second}) = 2
            BY <5>1, TwoThings
          <5>3. QED
            BY <4>2, <5>2
        <4>4. ASSUME NEW w \in C!WordsOf(l), w # first, w # second
              PROVE  Cardinality(UpTo(l, w)) # 2
          <5>1. w[1] > c + 1
            BY <1>3, <4>4
          <5>2. {first, second, w} \subseteq UpTo(l, w)
            <6>1. first \in UpTo(l, w) /\ w \in UpTo(l, w)
              BY <2>5, <4>4
            <6>2. second[1] <= w[1]
              BY <1>2, <1>4, <1>5, <5>1
            <6>3. second \in UpTo(l, w)
              BY <4>1, <6>2 DEF UpTo
            <6>4. QED
              BY <6>1, <6>3
          <5>3. Cardinality({first, second, w}) = 3
            BY <4>1, <4>4, ThreeThings
          <5>4. Cardinality({first, second, w}) <= Cardinality(UpTo(l, w))
            BY <1>1, <5>2, UpToFinite, FS_Subset
          <5>5. Cardinality(UpTo(l, w)) \in Nat
            BY <1>1, UpToFinite
          <5>6. QED
            BY <5>3, <5>4, <5>5
        <4>5. \A w : w \in C!WordsOf(l) /\ Cardinality(UpTo(l, w)) = 2 <=> w = second
          BY <2>4, <4>1, <4>3, <4>4
        <4>6. QED
          BY <4>5, <1>5, WordIs DEF l
      <3>3. QED
        BY <1>2, <3>1, <3>2
    <2>8. QED
      BY <1>6, <1>7, <2>6, <2>7
  <1>10. QED
    BY <1>2, <1>8, <1>9

-----------------------------------------------------------------------------
(* The argument's way.                                                      *)

\* What the program's slot holds of the command line s, followed by a NUL before
\* the descriptors begin.
Holds(memory, s) ==
    /\ Len(C!Word(s, 2)) < MAX_TERMINAL
    /\ \A i \in 0 .. (Len(C!Word(s, 2)) - 1) : memory[i] = C!Word(s, 2)[i + 1]
    /\ memory[Len(C!Word(s, 2))] = C!NUL

\* The inductive invariant.
CommandInv ==
    /\ DOMAIN pcb = 0 .. C!FIRST_FILE /\ DOMAIN buf = C!BUFFER
    /\ delivered \in Nat \cup {C!NONE}
    /\ present => typed \in Commands /\ C!NamedProgramRuns /\ Holds(pcb, typed)
    /\ delivered # C!NONE => present
    /\ C!ArgumentDelivered

\* A word is shorter than argv, and has no NUL in it.
LEMMA ArgumentFits ==
    ASSUME C!CommandLineAssumption, NEW s \in Seq(Char)
    PROVE  /\ C!Word(s, 2) \in Seq(Char) /\ Len(C!Word(s, 2)) \in Nat
           /\ Len(C!Word(s, 2)) < MAX_TERMINAL
           /\ \A i \in 0 .. (Len(C!Word(s, 2)) - 1) : C!Word(s, 2)[i + 1] # C!NUL
           /\ Len(C!Word(s, 2)) = C!ArgumentEnd(s) - C!ArgumentAt(s)
           /\ C!At(s, C!ArgumentAt(s)) = C!NUL => Len(C!Word(s, 2)) = 0
           /\ C!NameAt(s) \in Nat /\ C!NameEnd(s) \in Nat
           /\ C!NameAt(s) <= C!NameEnd(s) /\ C!NameEnd(s) <= Len(s)
  <1> DEFINE n == LineLength(s)
             c == C!ArgumentAt(s)
             d == C!ArgumentEnd(s)
             a == C!NameAt(s)
             b == C!NameEnd(s)
  <1>1. /\ n \in Nat /\ n <= MAX_TERMINAL /\ n <= Len(s) /\ Len(s) \in Nat
        /\ Len(C!Line(s)) = n /\ MAX_TERMINAL \in Nat /\ MAX_TERMINAL # 0
    BY LineFacts DEF C!CommandLineAssumption
  <1>2. /\ a \in Nat /\ b \in Nat /\ c \in Nat /\ d \in Nat
        /\ a <= b /\ b <= c /\ c <= d /\ d <= n
    <2> HIDE DEF n, a, b, c, d
    <2>1. Split(C!Line(s), a, b, c, d)
      BY LoopsSplit DEF a, b, c, d
    <2>2. QED
      BY <1>1, <2>1 DEF Split
  <1>3. /\ a = b => a = n
        /\ c = d => c = n
    <2>1. C!Line(s) \in Seq(Char) /\ Split(C!Line(s), a, b, c, d)
      BY LineFacts, LoopsSplit
    <2> HIDE DEF a, b, c, d
    <2>2. /\ a = b => a = Len(C!Line(s))
          /\ c = d => c = Len(C!Line(s))
      BY <1>2, <2>1, SplitWords
    <2>3. QED
      BY <1>1, <2>2
  <1>4. C!At(s, c) = C!NUL => c = n
    <2>1. c < n => C!At(s, c) # C!NUL
      <3>1. c < n => c \in 0 .. (n - 1)
        BY <1>1, <1>2
      <3>2. QED
        BY <3>1, LineFacts
    <2>2. QED
      BY <1>1, <1>2, <2>1
  <1>5. C!Word(s, 2) = SubSeq(s, c + 1, d)
    BY WordsParsed DEF C!Between
  <1> HIDE DEF n, a, b, c, d
  <1>6. /\ C!Word(s, 2) \in Seq(Char) /\ Len(C!Word(s, 2)) = d - c
    <2>1. \A i \in c + 1 .. d : s[i] \in Char
      BY <1>1, <1>2
    <2>2. /\ SubSeq(s, c + 1, d) \in Seq(Char)
          /\ Len(SubSeq(s, c + 1, d)) = IF c + 1 <= d THEN d - (c + 1) + 1 ELSE 0
      <3>1. c + 1 \in Int /\ d \in Int
        BY <1>2
      <3>2. QED
        BY <2>1, <3>1, SubSeqProperties
    <2>3. (IF c + 1 <= d THEN d - (c + 1) + 1 ELSE 0) = d - c
      BY <1>2
    <2>4. QED
      BY <1>5, <2>2, <2>3
  <1>7. d - c < MAX_TERMINAL
    <2>1. CASE a = b
      BY <1>1, <1>2, <1>3, <2>1
    <2>2. CASE a < b
      BY <1>1, <1>2, <2>2
    <2>3. QED
      BY <1>2, <2>1, <2>2
  <1>8. \A i \in 0 .. (Len(C!Word(s, 2)) - 1) : C!Word(s, 2)[i + 1] # C!NUL
    <2> TAKE i \in 0 .. (Len(C!Word(s, 2)) - 1)
    <2>1. i + 1 \in 1 .. Len(C!Word(s, 2))
      BY <1>2, <1>6
    <2>2. C!Word(s, 2)[i + 1] \in Char
      BY <1>6, <2>1
    <2>3. QED
      BY <2>2 DEF Char
  <1>9. C!At(s, c) = C!NUL => d - c = 0
    BY <1>2, <1>4
  <1>10. d - c \in Nat /\ C!NameAt(s) = a /\ C!NameEnd(s) = b /\ b <= Len(s)
    BY <1>1, <1>2 DEF a, b
  <1>11. QED
    BY <1>2, <1>6, <1>7, <1>8, <1>9, <1>10 DEF c, d

\* The copy puts the argument into argv.
LEMMA CopyHolds ==
    ASSUME C!CommandLineAssumption, NEW s \in Seq(Char), NEW memory,
           DOMAIN memory = 0 .. C!FIRST_FILE
    PROVE  Holds(C!SetUpFiles(C!CopyArgument(s, memory)), s)
  <1> DEFINE w == C!Word(s, 2)
             copy == C!CopyArgument(s, memory)
  <1>1. /\ w \in Seq(Char) /\ Len(w) \in Nat /\ Len(w) < MAX_TERMINAL
        /\ C!At(s, C!ArgumentAt(s)) = C!NUL => Len(w) = 0
        /\ MAX_TERMINAL \in Nat /\ MAX_TERMINAL # 0
    BY ArgumentFits DEF C!CommandLineAssumption
  <1>2. \A i \in 0 .. Len(w) :
            i < Len(C!Copied(s)) /\ C!Copied(s)[i + 1] = IF i < Len(w) THEN w[i + 1] ELSE C!NUL
    <2>1. CASE C!At(s, C!ArgumentAt(s)) # C!NUL
      <3>1. C!Copied(s) = Append(w, C!NUL)
        BY <2>1, WordsParsed DEF C!Copied
      <3> HIDE DEF w
      <3>2. Len(Append(w, C!NUL)) = Len(w) + 1 /\ Append(w, C!NUL)[Len(w) + 1] = C!NUL
            /\ \A k \in 1 .. Len(w) : Append(w, C!NUL)[k] = w[k]
        <4>1. w \in Seq(Char \cup {C!NUL}) /\ C!NUL \in Char \cup {C!NUL}
          BY <1>1
        <4>2. QED
          BY <4>1
      <3>3. ASSUME NEW i \in 0 .. Len(w)
             PROVE  /\ i < Len(w) + 1
                    /\ Append(w, C!NUL)[i + 1] = IF i < Len(w) THEN w[i + 1] ELSE C!NUL
        <4>1. i < Len(w) + 1
          BY <1>1
        <4>2. CASE i < Len(w)
          <5>1. i + 1 \in 1 .. Len(w)
            BY <1>1, <4>2
          <5>2. QED
            BY <3>2, <4>1, <4>2, <5>1
        <4>3. CASE ~(i < Len(w))
          <5>1. i = Len(w)
            BY <1>1, <4>3
          <5>2. QED
            BY <3>2, <4>1, <4>3, <5>1
        <4>4. QED
          BY <4>2, <4>3
      <3>4. QED
        BY <3>1, <3>2, <3>3
    <2>2. CASE C!At(s, C!ArgumentAt(s)) = C!NUL
      <3> DEFINE zeros == [i \in 1 .. MAX_TERMINAL |-> C!NUL]
                 rest == Append(C!Name(s), C!NUL)
      <3>1. C!Copied(s) = zeros \o rest
        BY <2>2 DEF C!Copied
      <3>2. zeros \in Seq(Char \cup {C!NUL}) /\ Len(zeros) = MAX_TERMINAL /\ zeros[1] = C!NUL
        BY <1>1
      <3>3. rest \in Seq(Char \cup {C!NUL})
        <4>1. \A i \in C!NameAt(s) + 1 .. C!NameEnd(s) : s[i] \in Char \cup {C!NUL}
          <5>1. /\ C!NameAt(s) \in Nat /\ C!NameEnd(s) \in Nat
                /\ C!NameAt(s) <= C!NameEnd(s) /\ C!NameEnd(s) <= Len(s)
            BY ArgumentFits
          <5>2. \A i \in 1 .. Len(s) : s[i] \in Char \cup {C!NUL}
            OBVIOUS
          <5>3. QED
            BY <5>1, <5>2
        <4>2. C!NameAt(s) + 1 \in Int /\ C!NameEnd(s) \in Int
          BY ArgumentFits
        <4>3. C!Name(s) \in Seq(Char \cup {C!NUL})
          BY <4>1, <4>2, SubSeqProperties DEF C!Name, C!Between
        <4>4. QED
          BY <4>3
      <3> HIDE DEF zeros, rest
      <3>4. Len(zeros \o rest) = MAX_TERMINAL + Len(rest) /\ Len(rest) \in Nat
        <4>1. Len(zeros \o rest) = Len(zeros) + Len(rest) /\ Len(rest) \in Nat
          BY <3>2, <3>3, ConcatProperties, LenProperties
        <4>2. QED
          BY <3>2, <4>1
      <3>5. (zeros \o rest)[1] = C!NUL
        BY <1>1, <3>2, <3>3
      <3>6. Len(w) = 0
        BY <1>1, <2>2
      <3>7. QED
        BY <1>1, <3>1, <3>4, <3>5, <3>6
    <2>3. QED
      BY <2>1, <2>2
  <1> HIDE DEF w
  <1>3. \A i \in 0 .. Len(w) :
            i \in DOMAIN memory /\ i # C!STDIN /\ i # C!STDOUT /\ i # C!FIRST_FILE
    BY <1>1 DEF C!STDIN, C!STDOUT, C!FIRST_FILE
  <1>4. DOMAIN copy = 0 .. C!FIRST_FILE
        /\ \A i \in 0 .. Len(w) : copy[i] = IF i < Len(w) THEN w[i + 1] ELSE C!NUL
    BY <1>2, <1>3 DEF C!CopyArgument
  <1> HIDE DEF copy
  <1>5. \A i \in 0 .. Len(w) : C!SetUpFiles(copy)[i] = copy[i]
    BY <1>3, <1>4 DEF C!SetUpFiles
  <1>6. \A i \in 0 .. (Len(w) - 1) : i \in 0 .. Len(w) /\ i < Len(w)
    BY <1>1
  <1>7. Len(w) \in 0 .. Len(w) /\ ~(Len(w) < Len(w))
    BY <1>1
  <1>8. QED
    BY <1>1, <1>4, <1>5, <1>6, <1>7 DEF Holds, w, copy

\* getargs() takes what there is, or what there is room for.
LEMMA TakenIs ==
    ASSUME C!CommandLineAssumption, NEW s \in Seq(Char), Holds(pcb, s), NEW room \in Nat
    PROVE  /\ C!Taken(room) \in 0 .. MAX_TERMINAL
           /\ C!Taken(room) = IF Len(C!Word(s, 2)) < room THEN Len(C!Word(s, 2)) ELSE room
  <1> DEFINE w == C!Word(s, 2)
             taken == IF Len(w) < room THEN Len(w) ELSE room
             OK(n) == /\ n \in {room, MAX_TERMINAL} \/ pcb[n] = C!NUL
                      /\ \A i \in 0 .. n - 1 : pcb[i] # C!NUL /\ i < room
  <1>1. /\ Len(w) \in Nat /\ Len(w) < MAX_TERMINAL /\ MAX_TERMINAL \in Nat
        /\ \A i \in 0 .. (Len(w) - 1) : pcb[i] # C!NUL
        /\ pcb[Len(w)] = C!NUL
    BY ArgumentFits DEF Holds, C!CommandLineAssumption
  <1> HIDE DEF w
  <1>2. taken \in Nat /\ taken \in 0 .. MAX_TERMINAL /\ taken <= Len(w) /\ taken <= room
    BY <1>1
  <1>3. taken = room \/ taken = Len(w)
    OBVIOUS
  <1> HIDE DEF taken
  <1>4. OK(taken)
    <2>1. \A i \in 0 .. taken - 1 : i \in 0 .. (Len(w) - 1) /\ i < room
      BY <1>1, <1>2
    <2>2. QED
      BY <1>1, <1>3, <2>1
  <1>5. ASSUME NEW n \in 0 .. MAX_TERMINAL, OK(n) PROVE n = taken
    <2>1. CASE n < taken
      <3>1. n # room /\ n # MAX_TERMINAL /\ n \in 0 .. (Len(w) - 1)
        BY <1>1, <1>2, <2>1
      <3>2. QED
        BY <1>1, <1>5, <3>1
    <2>2. CASE n > taken
      <3>1. taken \in 0 .. n - 1
        BY <1>2, <2>2
      <3>2. pcb[taken] # C!NUL /\ taken < room
        BY <1>5, <3>1
      <3>3. QED
        BY <1>1, <1>2, <1>3, <3>2
    <2>3. QED
      BY <1>2, <2>1, <2>2
  <1>6. C!Taken(room) = CHOOSE n \in 0 .. MAX_TERMINAL : OK(n)
    BY DEF C!Taken
  <1> HIDE DEF OK
  <1>7. C!Taken(room) = taken
    BY <1>2, <1>4, <1>5, <1>6
  <1>8. QED
    BY <1>2, <1>7 DEF taken, w

\* What depends on the slot's contents and on the command line only.
LEMMA NextWords ==
    ASSUME NEW s, NEW memory, typed' = s, pcb' = memory
    PROVE  /\ \A n : C!Word(typed, n)' = C!Word(s, n)
           /\ Holds(pcb, typed)' <=> Holds(memory, s)
  <1>1. \A n : C!Word(typed, n)' = C!Word(s, n)
    BY DEF C!Word, C!WordsOf, C!IsWord, C!Line
  <1>2. QED
    BY <1>1 DEF Holds

\* A program starts with its argument in argv and its name on the line.
LEMMA ExecutePreserves ==
    ASSUME C!CommandLineAssumption, CommandInv, NEW s \in Commands, C!execute(s)
    PROVE  CommandInv'
  <1>1. s \in Seq(Char)
    BY DEF C!CommandLineAssumption, Char
  <1>2. /\ C!Name(s) \in Programs /\ present' = TRUE /\ typed' = s
        /\ pcb' = C!SetUpFiles(C!CopyArgument(s, pcb))
        /\ buf' = [i \in C!BUFFER |-> C!UNSET] /\ delivered' = C!NONE
    BY DEF C!execute
  <1>3. Holds(pcb', s)
    BY <1>1, <1>2, CopyHolds DEF CommandInv
  <1>4. C!Word(s, 1) \in Programs
    BY <1>1, <1>2, WordsParsed
  <1>5. /\ DOMAIN pcb' = 0 .. C!FIRST_FILE
        /\ pcb'[C!STDIN] = "stdin" /\ pcb'[C!STDOUT] = "stdout" /\ pcb'[C!FIRST_FILE] = C!NUL
    <2> DEFINE copy == C!CopyArgument(s, pcb)
    <2>1. DOMAIN copy = 0 .. C!FIRST_FILE
      BY DEF C!CopyArgument, CommandInv
    <2>2. pcb' = C!SetUpFiles(copy)
      BY <1>2
    <2> HIDE DEF copy
    <2>3. /\ C!STDIN \in DOMAIN copy /\ C!STDOUT \in DOMAIN copy /\ C!FIRST_FILE \in DOMAIN copy
          /\ C!STDIN # C!STDOUT /\ C!STDIN # C!FIRST_FILE /\ C!STDOUT # C!FIRST_FILE
      BY <2>1 DEF C!STDIN, C!STDOUT, C!FIRST_FILE, C!CommandLineAssumption
    <2>4. QED
      BY <2>1, <2>2, <2>3 DEF C!SetUpFiles
  <1>6. C!NamedProgramRuns'
    BY <1>2, <1>4, <1>5, NextWords DEF C!NamedProgramRuns
  <1>7. C!ArgumentDelivered'
    BY <1>2 DEF C!ArgumentDelivered
  <1>8. DOMAIN buf' = C!BUFFER
    BY <1>2
  <1>9. QED
    BY <1>2, <1>3, <1>5, <1>6, <1>7, <1>8, NextWords DEF CommandInv

\* getargs() gives the argument, cut off where the buffer ends.
LEMMA GetargsPreserves ==
    ASSUME C!CommandLineAssumption, CommandInv, NEW room \in Counts, C!getargs(room)
    PROVE  CommandInv'
  <1> DEFINE w == C!Word(typed, 2)
             taken == IF Len(w) < room THEN Len(w) ELSE room
  <1>1. /\ room \in Nat /\ room # C!NONE
        /\ typed \in Commands /\ typed \in Seq(Char) /\ Holds(pcb, typed)
    <2>1. room \in Nat /\ room # C!NONE
      BY DEF C!CommandLineAssumption, C!NONE
    <2>2. typed \in Commands /\ Holds(pcb, typed)
      <3>1. present
        BY DEF C!getargs
      <3>2. QED
        BY <3>1, Zenon DEF CommandInv
    <2>3. typed \in Seq(Char)
      BY <2>2, Zenon DEF C!CommandLineAssumption, Char
    <2>4. QED
      BY <2>1, <2>2, <2>3
  <1>2. C!Taken(room) \in 0 .. MAX_TERMINAL /\ C!Taken(room) = taken
    BY <1>1, TakenIs
  <1>3. /\ buf' = [i \in C!BUFFER |-> IF i < taken THEN pcb[i]
                                    ELSE IF i = taken THEN C!NUL ELSE C!UNSET]
        /\ delivered' = room /\ present' = present /\ pcb' = pcb /\ typed' = typed /\ present
    BY <1>2 DEF C!getargs
  <1>4. Len(w) \in Nat /\ MAX_TERMINAL \in Nat /\ \A i \in 0 .. (Len(w) - 1) : pcb[i] = w[i + 1]
    BY <1>1, ArgumentFits DEF Holds, C!CommandLineAssumption
  <1>5. taken \in C!BUFFER /\ taken \in Nat /\ taken <= Len(w) /\ ~(taken < taken)
        /\ taken <= room
    BY <1>1, <1>2, <1>4 DEF C!BUFFER
  <1> HIDE DEF taken, w
  <1>6. ASSUME NEW i \in 0 .. taken - 1 PROVE buf'[i] = w[i + 1]
    <2>1. i \in C!BUFFER /\ i < taken /\ i \in 0 .. (Len(w) - 1)
      BY <1>4, <1>5 DEF C!BUFFER
    <2>2. QED
      BY <1>3, <1>4, <2>1
  <1>7. buf'[taken] = C!NUL
    BY <1>3, <1>5
  <1>11. ASSUME NEW i \in C!BUFFER, i >= room
         PROVE  buf'[i] = C!UNSET \/ (i = room /\ buf'[i] = C!NUL)
    <2>1. i \in Int /\ ~(i < taken) /\ (i = taken => i = room)
      BY <1>1, <1>5, <1>11, <1>4 DEF C!BUFFER
    <2>2. QED
      BY <1>3, <2>1
  <1>8. C!ArgumentDelivered'
    BY <1>3, <1>6, <1>7, <1>11, NextWords DEF C!ArgumentDelivered, w, taken
  <1>9. C!NamedProgramRuns'
    BY <1>3, NextWords DEF CommandInv, C!NamedProgramRuns
  <1>10. QED
    BY <1>1, <1>3, <1>8, <1>9, NextWords DEF CommandInv

\* A file opened and closed leaves argv alone.
LEMMA FilePreserves ==
    ASSUME C!CommandLineAssumption, CommandInv, C!open \/ C!halt
    PROVE  CommandInv'
  <1> DEFINE w == C!Word(typed, 2)
  <1>1. CASE C!open
    <2>1. /\ present /\ pcb' = [pcb EXCEPT ![C!FIRST_FILE] = "open"]
          /\ UNCHANGED <<present, buf, delivered, typed>>
          /\ typed \in Commands /\ typed \in Seq(Char) /\ Holds(pcb, typed)
          /\ DOMAIN pcb = 0 .. C!FIRST_FILE
      BY <1>1 DEF C!open, CommandInv, C!CommandLineAssumption, Char
    <2>2. Len(w) \in Nat /\ Len(w) < MAX_TERMINAL /\ MAX_TERMINAL \in Nat
      BY <2>1, ArgumentFits DEF C!CommandLineAssumption
    <2> HIDE DEF w
    <2>3. \A i \in 0 .. Len(w) : i \in DOMAIN pcb /\ i # C!FIRST_FILE
      BY <2>1, <2>2 DEF C!FIRST_FILE
    <2>4. \A i \in 0 .. Len(w) : pcb'[i] = pcb[i]
      BY <2>1, <2>3
    <2>5. /\ \A i \in 0 .. (Len(w) - 1) : i \in 0 .. Len(w)
          /\ Len(w) \in 0 .. Len(w)
      BY <2>2
    <2>6. Holds(pcb', typed)
      BY <2>1, <2>4, <2>5 DEF Holds, w
    <2>7. /\ DOMAIN pcb' = 0 .. C!FIRST_FILE
          /\ pcb'[C!STDIN] = pcb[C!STDIN] /\ pcb'[C!STDOUT] = pcb[C!STDOUT]
          /\ pcb'[C!FIRST_FILE] = "open"
      BY <2>1, <2>2 DEF C!STDIN, C!STDOUT, C!FIRST_FILE
    <2>8. C!NamedProgramRuns'
      BY <2>1, <2>7, NextWords DEF CommandInv, C!NamedProgramRuns
    <2>9. C!ArgumentDelivered'
      BY <2>1, NextWords DEF CommandInv, C!ArgumentDelivered
    <2>10. QED
      BY <2>1, <2>6, <2>7, <2>8, <2>9, NextWords DEF CommandInv
  <1>2. CASE C!halt
    <2>1. /\ present' = FALSE /\ pcb' = [pcb EXCEPT ![C!FIRST_FILE] = C!NUL]
          /\ buf' = [i \in C!BUFFER |-> C!UNSET] /\ delivered' = C!NONE
      BY <1>2 DEF C!halt
    <2>2. DOMAIN pcb' = 0 .. C!FIRST_FILE /\ DOMAIN buf' = C!BUFFER
      BY <2>1 DEF CommandInv
    <2>3. QED
      BY <2>1, <2>2 DEF CommandInv, C!NamedProgramRuns, C!ArgumentDelivered
  <1>3. QED
    BY <1>1, <1>2

\* The invariant holds at first, and every step preserves it.
LEMMA NextCommand ==
    /\ C!CommandLineAssumption /\ C!Init => CommandInv
    /\ C!CommandLineAssumption /\ CommandInv /\ [C!Next]_C!vars => CommandInv'
  <1>1. ASSUME C!CommandLineAssumption, C!Init PROVE CommandInv
    BY <1>1 DEF C!Init, CommandInv, C!NamedProgramRuns, C!ArgumentDelivered
  <1>2. ASSUME C!CommandLineAssumption, CommandInv, [C!Next]_C!vars PROVE CommandInv'
    <2>1. CASE C!Next
      BY <1>2, <2>1, ExecutePreserves, GetargsPreserves, FilePreserves DEF C!Next
    <2>2. CASE UNCHANGED C!vars
      BY <1>2, <2>2, NextWords DEF C!vars, CommandInv, C!NamedProgramRuns,
                                    C!ArgumentDelivered, Holds
    <2>3. QED
      BY <1>2, <2>1, <2>2
  <1>3. QED
    BY <1>1, <1>2

\* Every variable keeps its type.
LEMMA CommandTypes == C!Spec => []C!TypeOK
  <1>1. C!Init => C!TypeOK
    BY DEF C!Init, C!TypeOK
  <1>2. C!TypeOK /\ [C!Next]_C!vars => C!TypeOK'
    <2> SUFFICES ASSUME C!TypeOK, [C!Next]_C!vars PROVE C!TypeOK'
      OBVIOUS
    <2>1. /\ present \in BOOLEAN /\ delivered \in Counts \cup {C!NONE}
          /\ DOMAIN pcb = 0 .. C!FIRST_FILE /\ DOMAIN buf = C!BUFFER
          /\ typed \in Commands \cup {<<>>}
      BY DEF C!TypeOK
    <2>2. ASSUME NEW s \in Commands, C!execute(s) PROVE C!TypeOK'
      <3>1. /\ DOMAIN C!SetUpFiles(C!CopyArgument(s, pcb)) = DOMAIN pcb
            /\ DOMAIN [i \in C!BUFFER |-> C!UNSET] = C!BUFFER
        BY DEF C!SetUpFiles, C!CopyArgument
      <3>2. QED
        BY <2>1, <2>2, <3>1, Zenon DEF C!execute, C!TypeOK
    <2>3. ASSUME NEW n \in Counts, C!getargs(n) PROVE C!TypeOK'
      <3>1. present' = present /\ pcb' = pcb /\ typed' = typed /\ delivered' = n
        BY <2>3 DEF C!getargs
      <3>2. DOMAIN (buf') = C!BUFFER
        BY <2>3 DEF C!getargs
      <3>3. QED
        BY <2>1, <3>1, <3>2, Zenon DEF C!TypeOK
    <2>4. CASE C!open
      <3>1. DOMAIN (pcb') = DOMAIN pcb
        BY <2>4 DEF C!open
      <3>2. QED
        BY <2>1, <2>4, <3>1, Zenon DEF C!open, C!TypeOK
    <2>5. CASE C!halt
      <3>1. DOMAIN (pcb') = DOMAIN pcb /\ DOMAIN (buf') = C!BUFFER
        BY <2>5 DEF C!halt
      <3>2. QED
        BY <2>1, <2>5, <3>1, Zenon DEF C!halt, C!TypeOK
    <2>6. CASE UNCHANGED C!vars
      BY <2>1, <2>6 DEF C!vars, C!TypeOK
    <2>7. QED
      BY <2>2, <2>3, <2>4, <2>5, <2>6 DEF C!Next
  <1>3. QED
    BY <1>1, <1>2, PTL DEF C!Spec

\* The program that runs is the one that the first word of the line names, it finds the
\* terminal and no open file in its descriptors, and getargs() gives it the second word,
\* as much of it as there is room for, and a NUL, at most that one byte behind the
\* buffer; whatever the line, and whatever the programs before it have left in the slot;
\* every variable keeps its type.
THEOREM CommandsUnderstood ==
    ASSUME C!CommandLineAssumption
    PROVE  C!Spec => [](C!TypeOK /\ C!NamedProgramRuns /\ C!ArgumentDelivered)
  <1>1. CommandInv => C!NamedProgramRuns /\ C!ArgumentDelivered
    BY DEF CommandInv, C!NamedProgramRuns
  <1>2. QED
    BY <1>1, NextCommand, CommandTypes, PTL DEF C!Spec

-----------------------------------------------------------------------------
(* printf().  Numerals.                                                     *)

\* Induction, for a set of natural numbers.
LEMMA AllFrom ==
    ASSUME NEW S, NEW m \in Nat, m \in S, \A n \in Nat : n >= m /\ n \in S => n + 1 \in S
    PROVE  \A n \in Nat : n >= m => n \in S
  <1> DEFINE N == {n \in Nat : n >= m /\ n \notin S}
  <1>1. ASSUME N # {} PROVE FALSE
    <2>1. PICK n \in N : \A k \in N : n <= k
      <3>1. N \subseteq Nat
        OBVIOUS
      <3> HIDE DEF N
      <3>2. QED
        BY <1>1, <3>1, LeastMember
    <2>2. n # m /\ n - 1 \in Nat /\ n - 1 >= m /\ n - 1 \notin N
      BY <2>1
    <2>3. QED
      BY <2>1, <2>2
  <1>2. QED
    BY <1>1

\* Quotient and remainder, and that they are smaller.
LEMMA Quotient ==
    ASSUME NEW v \in Nat, NEW r \in Nat, r > 1
    PROVE  /\ v \div r \in Nat /\ v % r \in 0 .. r - 1 /\ v = (v \div r) * r + (v % r)
           /\ v > 0 => v \div r < v
  <1> DEFINE q == v \div r
             m == v % r
  <1>1. q \in Nat /\ m \in 0 .. r - 1 /\ v = q * r + m
    OBVIOUS
  <1> HIDE DEF q, m
  <1>2. v > 0 => q < v
    <2>1. SUFFICES ASSUME v > 0, q >= v PROVE FALSE
      BY <1>1
    <2>2. q * r >= q * 2
      BY <1>1
    <2>3. QED
      BY <1>1, <2>1, <2>2
  <1>3. QED
    BY <1>1, <1>2 DEF q, m

\* Values of the first k digits.
ValueEntry(f, k, text, r) == IF k = 0 THEN 0 ELSE f[k - 1] * r + text[k]
AreValues(f, text, r) == f = [k \in 0 .. Len(text) |-> ValueEntry(f, k, text, r)]

\* What Reads() adds up.
LEMMA ReadsIs ==
    ASSUME NEW text, Len(text) \in Nat, NEW r
    PROVE  \E f : AreValues(f, text, r) /\ F!Reads(text, r) = f[Len(text)]
  <1> DEFINE L == Len(text)
             Solves(g, n) == g = [k \in 0 .. n |-> ValueEntry(g, k, text, r)]
             S == {n \in Nat : \E g : Solves(g, n)}
  <1>1. 0 \in S
    <2> DEFINE g == [k \in 0 .. 0 |-> 0]
    <2>1. \A k \in 0 .. 0 : k = 0
      OBVIOUS
    <2>2. Solves(g, 0)
      BY <2>1, Zenon DEF ValueEntry
    <2>3. QED
      BY <2>2
  <1>2. ASSUME NEW n \in Nat, n \in S PROVE n + 1 \in S
    <2>1. PICK g : Solves(g, n)
      BY <1>2
    <2> DEFINE h == [k \in 0 .. n + 1 |->
                        IF k \in 0 .. n THEN g[k] ELSE ValueEntry(g, k, text, r)]
    <2>2. \A k \in 0 .. n : g[k] = ValueEntry(g, k, text, r)
      BY <2>1
    <2>3. \A k \in 0 .. n : k \in 0 .. n + 1 /\ (k # 0 => k - 1 \in 0 .. n)
      OBVIOUS
    <2>4. \A k \in 0 .. n : h[k] = g[k]
      BY <2>3
    <2>5. ASSUME NEW k \in 0 .. n + 1 PROVE h[k] = ValueEntry(h, k, text, r)
      <3>1. CASE k \in 0 .. n
        <4>1. ValueEntry(h, k, text, r) = ValueEntry(g, k, text, r)
          <5> HIDE DEF h
          <5>1. QED
            BY <2>3, <2>4, <3>1, Zenon DEF ValueEntry
        <4>2. QED
          BY <2>2, <2>4, <3>1, <4>1, Zenon
      <3>2. CASE k \notin 0 .. n
        <4>1. k - 1 \in 0 .. n
          BY <3>2
        <4>2. h[k] = ValueEntry(g, k, text, r)
          BY <3>2
        <4>3. h[k - 1] = g[k - 1]
          BY <2>4, <4>1, Zenon
        <4> HIDE DEF h
        <4>4. ValueEntry(h, k, text, r) = ValueEntry(g, k, text, r)
          BY <4>3, Zenon DEF ValueEntry
        <4>5. QED
          BY <4>2, <4>4, Zenon
      <3>3. QED
        BY <3>1, <3>2
    <2>6. Solves(h, n + 1)
      BY <2>5
    <2>7. n + 1 \in Nat
      OBVIOUS
    <2> HIDE DEF h, Solves
    <2>8. QED
      BY <2>6, <2>7
  <1>3. \E g : Solves(g, L)
    <2>1. \A n \in Nat : n >= 0 => n \in S
      <3> HIDE DEF S
      <3>1. QED
        BY <1>1, <1>2, AllFrom
    <2>2. L \in Nat /\ L >= 0
      OBVIOUS
    <2> HIDE DEF L, Solves
    <2>3. L \in S
      BY <2>1, <2>2
    <2>4. QED
      BY <2>3
  <1> DEFINE f == CHOOSE g : Solves(g, L)
  <1>4. Solves(f, L)
    <2> HIDE DEF Solves
    <2>1. QED
      BY <1>3, Zenon
  <1>5. F!Reads(text, r) = f[L]
    BY Zenon DEF F!Reads, ValueEntry
  <1> HIDE DEF f
  <1>6. QED
    BY <1>4, <1>5 DEF AreValues

\* The next is the last one times the radix and a digit more.
EachIsNext(f, text, r) == f[0] = 0 /\ \A k \in 1 .. Len(text) : f[k] = f[k - 1] * r + text[k]

\* So it is with the values.
LEMMA ValuesAre ==
    ASSUME NEW f, NEW text, Len(text) \in Nat, NEW r, AreValues(f, text, r)
    PROVE  EachIsNext(f, text, r)
  <1>1. \A k \in 0 .. Len(text) : f[k] = ValueEntry(f, k, text, r)
    BY DEF AreValues
  <1>2. 0 \in 0 .. Len(text) /\ \A k \in 1 .. Len(text) : k \in 0 .. Len(text) /\ k # 0
    OBVIOUS
  <1>3. QED
    BY <1>1, <1>2, Zenon DEF ValueEntry, EachIsNext

\* u begins with m zeros and then t.
Begins(u, m, t) ==
    /\ Len(t) \in Nat /\ Len(u) \in Nat /\ m \in Nat /\ m + Len(t) <= Len(u)
    /\ \A i \in 1 .. m : u[i] = 0
    /\ \A i \in 1 .. Len(t) : u[m + i] = t[i]

\* Zeros in front change nothing, nor what is behind.
LEMMA ValuesAgree ==
    ASSUME NEW t, NEW u, NEW m, Begins(u, m, t), NEW r \in Nat, NEW f, NEW g,
           AreValues(f, t, r), AreValues(g, u, r)
    PROVE  g[m + Len(t)] = f[Len(t)]
  <1> DEFINE n == Len(t)
  <1>0. /\ n \in Nat /\ Len(u) \in Nat /\ m \in Nat /\ m + n <= Len(u)
        /\ \A i \in 1 .. m : u[i] = 0
        /\ \A i \in 1 .. n : u[m + i] = t[i]
    BY DEF Begins
  <1>1. /\ f[0] = 0 /\ \A k \in 1 .. Len(t) : f[k] = f[k - 1] * r + t[k]
        /\ g[0] = 0 /\ \A k \in 1 .. Len(u) : g[k] = g[k - 1] * r + u[k]
    BY <1>0, ValuesAre DEF EachIsNext
  <1> DEFINE Z == {k \in Nat : k <= m => g[k] = 0}
             S == {k \in Nat : k <= n => g[m + k] = f[k]}
  <1>2. \A k \in Nat : k >= 0 => k \in Z
    <2>1. 0 \in Z
      BY <1>1
    <2>2. ASSUME NEW k \in Nat, k >= 0 /\ k \in Z PROVE k + 1 \in Z
      <3>1. SUFFICES ASSUME k + 1 <= m PROVE g[k + 1] = 0
        OBVIOUS
      <3>2. k + 1 \in 1 .. Len(u) /\ k + 1 \in 1 .. m /\ k + 1 - 1 = k /\ k <= m
        BY <1>0, <3>1
      <3>3. g[k + 1] = g[k] * r + u[k + 1]
        BY <1>1, <3>2
      <3>4. g[k] = 0 /\ u[k + 1] = 0
        BY <1>0, <2>2, <3>2
      <3>5. QED
        BY <3>3, <3>4
    <2> HIDE DEF Z
    <2>3. QED
      BY <2>1, <2>2, AllFrom
  <1>3. g[m] = 0
    BY <1>0, <1>2
  <1>4. \A k \in Nat : k >= 0 => k \in S
    <2>1. 0 \in S
      BY <1>0, <1>1, <1>3
    <2>2. ASSUME NEW k \in Nat, k >= 0 /\ k \in S PROVE k + 1 \in S
      <3>1. SUFFICES ASSUME k + 1 <= n PROVE g[m + (k + 1)] = f[k + 1]
        OBVIOUS
      <3>2. /\ m + (k + 1) \in 1 .. Len(u) /\ k + 1 \in 1 .. n /\ k + 1 \in 1 .. Len(t) /\ k <= n
            /\ m + (k + 1) - 1 = m + k /\ k + 1 - 1 = k
        BY <1>0, <3>1
      <3>3. g[m + (k + 1)] = g[m + k] * r + u[m + (k + 1)]
        <4>1. PICK p : p = m + (k + 1)
          OBVIOUS
        <4>2. p \in 1 .. Len(u) /\ p - 1 = m + k
          BY <1>0, <3>2, <4>1
        <4>3. g[p] = g[p - 1] * r + u[p]
          BY <1>1, <4>2, Zenon
        <4>4. QED
          BY <4>1, <4>2, <4>3, Zenon
      <3>4. f[k + 1] = f[k] * r + t[k + 1]
        BY <1>1, <3>2
      <3>5. g[m + k] = f[k] /\ u[m + (k + 1)] = t[k + 1]
        BY <1>0, <2>2, <3>2
      <3>6. QED
        BY <3>3, <3>4, <3>5, Zenon
    <2> HIDE DEF S
    <2>3. QED
      BY <2>1, <2>2, AllFrom
  <1>5. QED
    BY <1>0, <1>4

\* Zeros in front change nothing.
LEMMA ReadsZeros ==
    ASSUME NEW t, NEW u, Len(t) \in Nat, Len(u) \in Nat, NEW r \in Nat, NEW m \in Nat,
           Len(u) = m + Len(t), \A i \in 1 .. m : u[i] = 0,
           \A i \in 1 .. Len(t) : u[m + i] = t[i]
    PROVE  F!Reads(u, r) = F!Reads(t, r)
  <1>1. PICK f : AreValues(f, t, r) /\ F!Reads(t, r) = f[Len(t)]
    BY ReadsIs
  <1>2. PICK g : AreValues(g, u, r) /\ F!Reads(u, r) = g[Len(u)]
    BY ReadsIs
  <1>3. g[m + Len(t)] = f[Len(t)]
    <2>1. Begins(u, m, t)
      BY DEF Begins
    <2>2. AreValues(f, t, r) /\ AreValues(g, u, r)
      BY <1>1, <1>2, Zenon
    <2>3. QED
      BY <2>1, <2>2, ValuesAgree, SMT
  <1>4. QED
    BY <1>1, <1>2, <1>3

\* A digit more.
LEMMA ReadsAppend ==
    ASSUME NEW t, NEW u, Len(t) \in Nat, Len(u) = Len(t) + 1, NEW r \in Nat,
           \A i \in 1 .. Len(t) : u[i] = t[i]
    PROVE  F!Reads(u, r) = F!Reads(t, r) * r + u[Len(u)]
  <1>1. PICK f : AreValues(f, t, r) /\ F!Reads(t, r) = f[Len(t)]
    BY ReadsIs
  <1>2. PICK g : AreValues(g, u, r) /\ F!Reads(u, r) = g[Len(u)]
    BY ReadsIs
  <1>4. g[Len(t)] = f[Len(t)]
    <2>1. Begins(u, 0, t)
      BY DEF Begins
    <2>4. AreValues(f, t, r) /\ AreValues(g, u, r)
      BY <1>1, <1>2, Zenon
    <2>2. g[0 + Len(t)] = f[Len(t)]
      BY <2>1, <2>4, ValuesAgree, SMT
    <2>3. QED
      BY <2>2
  <1>5. g[Len(u)] = g[Len(u) - 1] * r + u[Len(u)]
    <2>1. Len(u) \in Nat /\ Len(u) \in 1 .. Len(u)
      OBVIOUS
    <2>2. AreValues(g, u, r)
      BY <1>2, Zenon
    <2>3. EachIsNext(g, u, r)
      BY <2>1, <2>2, ValuesAre, Zenon
    <2>4. QED
      BY <2>1, <2>3, Zenon DEF EachIsNext
  <1>6. Len(u) - 1 = Len(t)
    OBVIOUS
  <1>7. QED
    BY <1>1, <1>2, <1>4, <1>5, <1>6

-----------------------------------------------------------------------------
(* The digits.                                                              *)

\* The digits from the lowest.
DigitsEntry(f, v, r) == IF v = 0 THEN <<>> ELSE <<v % r>> \o f[v \div r]
AreDigits(f, n, r) == f = [v \in 0 .. n |-> DigitsEntry(f, v, r)]

\* What LowestFirst() puts together.
LEMMA LowestFirstIs ==
    ASSUME NEW n \in Nat, NEW r \in Nat, r > 1
    PROVE  \E f : AreDigits(f, n, r) /\ F!LowestFirst(n, r) = f[n]
  <1> DEFINE Solves(g, m) == g = [v \in 0 .. m |-> DigitsEntry(g, v, r)]
             S == {m \in Nat : \E g : Solves(g, m)}
  <1>1. 0 \in S
    <2> DEFINE g == [v \in 0 .. 0 |-> <<>>]
    <2>1. \A v \in 0 .. 0 : v = 0
      OBVIOUS
    <2>2. Solves(g, 0)
      BY <2>1, Zenon DEF DigitsEntry
    <2>3. QED
      BY <2>2
  <1>2. ASSUME NEW m \in Nat, m \in S PROVE m + 1 \in S
    <2>1. PICK g : Solves(g, m)
      BY <1>2
    <2> DEFINE h == [v \in 0 .. m + 1 |-> IF v \in 0 .. m THEN g[v] ELSE DigitsEntry(g, v, r)]
    <2>2. \A v \in 0 .. m : g[v] = DigitsEntry(g, v, r)
      BY <2>1
    <2>3. \A v \in 0 .. m + 1 : v # 0 => v \div r \in 0 .. m
      <3>1. SUFFICES ASSUME NEW v \in 0 .. m + 1, v # 0 PROVE v \div r \in 0 .. m
        OBVIOUS
      <3>2. v \in Nat /\ v > 0
        BY <3>1
      <3>3. v \div r \in Nat /\ v \div r < v
        BY <3>2, Quotient
      <3>4. QED
        BY <3>3
    <2>4. \A v \in 0 .. m : v \in 0 .. m + 1 /\ h[v] = g[v]
      OBVIOUS
    <2>5. ASSUME NEW v \in 0 .. m + 1 PROVE h[v] = DigitsEntry(h, v, r)
      <3>1. DigitsEntry(h, v, r) = DigitsEntry(g, v, r)
        <4> HIDE DEF h
        <4>1. QED
          BY <2>3, <2>4, Zenon DEF DigitsEntry
      <3>2. CASE v \in 0 .. m
        BY <2>2, <2>4, <3>1, <3>2, Zenon
      <3>3. CASE v \notin 0 .. m
        <4>1. h[v] = DigitsEntry(g, v, r)
          BY <3>3
        <4>2. QED
          BY <3>1, <4>1, Zenon
      <3>4. QED
        BY <3>2, <3>3
    <2>6. Solves(h, m + 1)
      BY <2>5
    <2>7. m + 1 \in Nat
      OBVIOUS
    <2> HIDE DEF h, Solves
    <2>8. QED
      BY <2>6, <2>7
  <1>3. \E g : Solves(g, n)
    <2>1. \A m \in Nat : m >= 0 => m \in S
      <3> HIDE DEF S
      <3>1. QED
        BY <1>1, <1>2, AllFrom
    <2> HIDE DEF Solves
    <2>2. n \in S
      BY <2>1
    <2>3. QED
      BY <2>2
  <1> DEFINE f == CHOOSE g : Solves(g, n)
  <1>4. Solves(f, n)
    <2> HIDE DEF Solves
    <2>1. QED
      BY <1>3, Zenon
  <1>5. F!LowestFirst(n, r) = f[n]
    BY Zenon DEF F!LowestFirst, DigitsEntry
  <1> HIDE DEF f
  <1>6. QED
    BY <1>4, <1>5 DEF AreDigits

\* What the digits of v from the lowest are.
AreLowest(t, v, r) ==
    /\ t \in Seq(0 .. r - 1) /\ (v = 0 <=> t = <<>>)
    /\ t # <<>> => t[Len(t)] # 0
    /\ F!Reads(F!strrev(t), r) = v

\* strrev() turns a sequence around.
LEMMA Reverse ==
    ASSUME NEW R, NEW t \in Seq(R)
    PROVE  /\ F!strrev(t) \in Seq(R) /\ Len(F!strrev(t)) = Len(t)
           /\ \A i \in 1 .. Len(t) : F!strrev(t)[i] = t[Len(t) + 1 - i]
  <1>1. Len(t) \in Nat /\ DOMAIN t = 1 .. Len(t) /\ \A i \in 1 .. Len(t) : t[i] \in R
    OBVIOUS
  <1>2. F!strrev(t) = [i \in 1 .. Len(t) |-> t[Len(t) + 1 - i]]
    BY <1>1 DEF F!strrev
  <1>3. \A i \in 1 .. Len(t) : Len(t) + 1 - i \in 1 .. Len(t)
    BY <1>1
  <1>4. QED
    BY <1>1, <1>2, <1>3

\* No digit counts nothing.
LEMMA ReadsEmpty == ASSUME NEW t, Len(t) = 0, NEW r PROVE F!Reads(t, r) = 0
  <1>1. PICK f : AreValues(f, t, r) /\ F!Reads(t, r) = f[Len(t)]
    BY ReadsIs
  <1>2. QED
    BY <1>1, ValuesAre DEF EachIsNext

\* One digit more at the low end.
LEMMA LowestMore ==
    ASSUME NEW r \in Nat, r > 1, NEW v \in Nat, v > 0, NEW s, AreLowest(s, v \div r, r)
    PROVE  AreLowest(<<v % r>> \o s, v, r)
  <1> DEFINE q == v \div r
             m == v % r
             t == <<m>> \o s
  <1>1. q \in Nat /\ m \in 0 .. r - 1 /\ v = q * r + m
    BY Quotient
  <1>2. AreLowest(s, q, r)
    OBVIOUS
  <1> HIDE DEF q, m
  <1>3. s \in Seq(0 .. r - 1) /\ Len(s) \in Nat /\ (q = 0 <=> s = <<>>)
    BY <1>2 DEF AreLowest
  <1>4. /\ t \in Seq(0 .. r - 1) /\ Len(t) = Len(s) + 1 /\ t[1] = m
        /\ \A i \in 1 .. Len(s) : t[i + 1] = s[i]
    BY <1>1, <1>3
  <1> HIDE DEF t
  <1>5. t # <<>>
    BY <1>3, <1>4
  <1>6. t[Len(t)] # 0
    <2>1. CASE q = 0
      <3>1. Len(t) = 1
        BY <1>3, <1>4, <2>1
      <3>2. m # 0
        BY <1>1, <2>1
      <3>3. QED
        BY <1>4, <3>1, <3>2, Zenon
    <2>2. CASE q # 0
      <3>1. s # <<>> /\ s[Len(s)] # 0
        BY <1>2, <1>3, <2>2 DEF AreLowest
      <3>2. Len(s) \in 1 .. Len(s)
        BY <1>3, <3>1
      <3>3. t[Len(s) + 1] = s[Len(s)]
        BY <1>4, <3>2
      <3>4. QED
        BY <1>4, <3>1, <3>3
    <2>3. QED
      BY <2>1, <2>2
  <1>7. F!Reads(F!strrev(t), r) = v
    <2> DEFINE a == F!strrev(s)
               b == F!strrev(t)
    <2>1. Len(a) = Len(s) /\ \A i \in 1 .. Len(s) : a[i] = s[Len(s) + 1 - i]
      BY <1>3, Reverse
    <2>2. Len(b) = Len(t) /\ \A i \in 1 .. Len(t) : b[i] = t[Len(t) + 1 - i]
      BY <1>4, Reverse
    <2>6. F!Reads(a, r) = q
      BY <1>2 DEF AreLowest
    <2> HIDE DEF a, b
    <2>3. \A i \in 1 .. Len(a) : b[i] = a[i]
      <3>1. SUFFICES ASSUME NEW i \in 1 .. Len(s) PROVE b[i] = a[i]
        BY <2>1
      <3>2. /\ i \in 1 .. Len(t) /\ Len(s) + 1 - i \in 1 .. Len(s)
            /\ Len(t) + 1 - i = (Len(s) + 1 - i) + 1
        BY <1>3, <1>4
      <3>3. PICK j \in 1 .. Len(s) : j = Len(s) + 1 - i
        BY <3>2
      <3>4. b[i] = t[j + 1] /\ a[i] = s[j]
        BY <2>1, <2>2, <3>2, <3>3
      <3>5. QED
        BY <1>4, <3>4
    <2>4. Len(b) = Len(a) + 1 /\ Len(a) \in Nat
      BY <1>3, <1>4, <2>1, <2>2
    <2>5. b[Len(b)] = m
      <3>1. Len(t) \in 1 .. Len(t) /\ Len(t) + 1 - Len(t) = 1
        BY <1>3, <1>4
      <3>2. QED
        BY <1>4, <2>2, <3>1
    <2>7. F!Reads(b, r) = F!Reads(a, r) * r + b[Len(b)]
      BY <2>3, <2>4, ReadsAppend
    <2>8. F!Reads(b, r) = v
      BY <1>1, <2>5, <2>6, <2>7
    <2>9. QED
      BY <2>8 DEF b
  <1>8. AreLowest(t, v, r)
    BY <1>4, <1>5, <1>6, <1>7 DEF AreLowest
  <1>9. QED
    BY <1>8 DEF t, m

\* The digits of every number.
LEMMA LowestFirstReads ==
    ASSUME NEW n \in Nat, NEW r \in Nat, r > 1
    PROVE  AreLowest(F!LowestFirst(n, r), n, r)
  <1>1. PICK f : AreDigits(f, n, r) /\ F!LowestFirst(n, r) = f[n]
    BY LowestFirstIs
  <1>2. \A v \in 0 .. n : f[v] = DigitsEntry(f, v, r)
    BY <1>1 DEF AreDigits
  <1> DEFINE S == {v \in 0 .. n : ~AreLowest(f[v], v, r)}
  <1>3. ASSUME S # {} PROVE FALSE
    <2>1. PICK v \in S : \A k \in S : v <= k
      <3>1. S \subseteq Nat
        OBVIOUS
      <3> HIDE DEF S
      <3>2. QED
        BY <1>3, <3>1, LeastMember
    <2>2. v \in Nat /\ v \in 0 .. n /\ ~AreLowest(f[v], v, r)
      BY <2>1
    <2>3. CASE v = 0
      <3>1. f[v] = <<>>
        BY <1>2, <2>2, <2>3, Zenon DEF DigitsEntry
      <3>2. << >> \in Seq(0 .. r - 1) /\ Len(<< >>) = 0
        OBVIOUS
      <3>3. Len(F!strrev(<< >>)) = 0
        BY <3>2, Reverse
      <3>4. F!Reads(F!strrev(<< >>), r) = 0
        BY <3>3, ReadsEmpty
      <3>5. AreLowest(<< >>, 0, r)
        BY <3>2, <3>4 DEF AreLowest
      <3>6. QED
        BY <2>2, <2>3, <3>1, <3>5
    <2>4. CASE v # 0
      <3>1. v > 0 /\ v \div r \in Nat /\ v \div r < v
        BY <2>2, <2>4, Quotient
      <3>2. v \div r \in 0 .. n
        BY <2>2, <3>1
      <3>3. AreLowest(f[v \div r], v \div r, r)
        BY <2>1, <2>2, <3>1, <3>2
      <3>4. f[v] = <<v % r>> \o f[v \div r]
        BY <1>2, <2>2, <2>4, Zenon DEF DigitsEntry
      <3>5. AreLowest(<<v % r>> \o f[v \div r], v, r)
        BY <2>2, <3>1, <3>3, LowestMore
      <3>6. QED
        BY <2>2, <3>4, <3>5, Zenon
    <2>5. QED
      BY <2>3, <2>4
  <1>4. n \in 0 .. n
    OBVIOUS
  <1>5. QED
    BY <1>1, <1>3, <1>4

-----------------------------------------------------------------------------
(* itoa().                                                                  *)

\* itoa() writes the number.
LEMMA ItoaIs ==
    ASSUME NEW n \in Nat, NEW r \in Nat, r > 1
    PROVE  /\ F!itoa(n, r) \in Seq(0 .. r - 1) /\ Len(F!itoa(n, r)) >= 1
           /\ F!Reads(F!itoa(n, r), r) = n /\ (n = 0 => Len(F!itoa(n, r)) = 1)
           /\ n # 0 => F!itoa(n, r)[1] # 0
  <1>1. CASE n = 0
    <2> DEFINE t == <<0>>
    <2>1. t \in Seq(0 .. r - 1) /\ Len(t) = 1 /\ t[1] = 0
      OBVIOUS
    <2>2. F!Reads(t, r) = F!Reads(<< >>, r) * r + t[Len(t)]
      <3>1. Len(<< >>) = 0 /\ Len(t) = Len(<< >>) + 1 /\ \A i \in 1 .. 0 : t[i] = << >>[i]
        OBVIOUS
      <3> HIDE DEF t
      <3>2. QED
        BY <3>1, ReadsAppend
    <2>3. F!Reads(<< >>, r) = 0
      BY ReadsEmpty
    <2>4. F!itoa(n, r) = t
      BY <1>1 DEF F!itoa
    <2> HIDE DEF t
    <2>5. Len(t) >= 1 /\ F!Reads(t, r) = n
      BY <1>1, <2>1, <2>2, <2>3
    <2>6. QED
      BY <1>1, <2>1, <2>4, <2>5, Zenon
  <1>2. CASE n # 0
    <2> DEFINE s == F!LowestFirst(n, r)
               t == F!strrev(s)
    <2>1. AreLowest(s, n, r)
      BY LowestFirstReads
    <2>2. s \in Seq(0 .. r - 1) /\ s # << >> /\ s[Len(s)] # 0 /\ F!Reads(t, r) = n
      BY <1>2, <2>1 DEF AreLowest
    <2>3. /\ t \in Seq(0 .. r - 1) /\ Len(t) = Len(s)
          /\ \A i \in 1 .. Len(s) : t[i] = s[Len(s) + 1 - i]
      BY <2>2, Reverse
    <2>4. F!itoa(n, r) = t
      BY <1>2 DEF F!itoa
    <2> HIDE DEF s, t
    <2>5. Len(s) \in Nat /\ Len(s) >= 1 /\ 1 \in 1 .. Len(s) /\ Len(s) + 1 - 1 = Len(s)
      BY <2>2
    <2>6. t[1] # 0
      BY <2>2, <2>3, <2>5
    <2>7. QED
      BY <1>2, <2>2, <2>3, <2>4, <2>5, <2>6
  <1>3. QED
    BY <1>1, <1>2

\* What it writes has no leading zeros.
LEMMA ItoaIsNumeral ==
    ASSUME NEW n \in Nat, NEW r \in Nat, r > 1
    PROVE  F!IsNumeral(F!itoa(n, r), r, n)
  <1> DEFINE t == F!itoa(n, r)
  <1>1. /\ t \in Seq(0 .. r - 1) /\ F!Reads(t, r) = n
        /\ (n = 0 => Len(t) = 1) /\ (n # 0 => t[1] # 0)
    BY ItoaIs
  <1> HIDE DEF t
  <1>2. \A k \in DOMAIN t : t[k] \in 0 .. r - 1
    BY <1>1
  <1>3. F!IsNumeral(t, r, n)
    BY <1>1, <1>2, Zenon DEF F!IsNumeral
  <1>4. QED
    BY <1>3 DEF t

\* The values of a numeral's first digits are numbers and do not become smaller.
LEMMA ValuesGrow ==
    ASSUME NEW t \in Seq(Nat), NEW r \in Nat, r > 0, NEW f, AreValues(f, t, r),
           NEW m \in 0 .. Len(t)
    PROVE  /\ \A k \in 0 .. Len(t) : f[k] \in Nat
           /\ \A k \in m .. Len(t) : f[k] >= f[m]
  <1> DEFINE n == Len(t)
  <1>1. n \in Nat /\ \A k \in 1 .. n : t[k] \in Nat
    OBVIOUS
  <1>2. f[0] = 0 /\ \A k \in 1 .. Len(t) : f[k] = f[k - 1] * r + t[k]
    BY <1>1, ValuesAre DEF EachIsNext
  <1> HIDE DEF n
  <1> DEFINE N == {k \in Nat : k <= n => f[k] \in Nat}
             G == {k \in Nat : k <= n => f[k] >= f[m]}
  <1>3. \A k \in Nat : k >= 0 => k \in N
    <2>1. 0 \in N
      BY <1>2
    <2>2. ASSUME NEW k \in Nat, k >= 0 /\ k \in N PROVE k + 1 \in N
      <3>1. SUFFICES ASSUME k + 1 <= n PROVE f[k + 1] \in Nat
        OBVIOUS
      <3>2. k + 1 \in 1 .. Len(t) /\ k + 1 - 1 = k /\ k <= n
        BY <1>1, <3>1 DEF n
      <3>3. f[k + 1] = f[k] * r + t[k + 1]
        BY <1>2, <3>2
      <3>4. f[k] \in Nat /\ t[k + 1] \in Nat
        BY <1>1, <2>2, <3>2 DEF n
      <3>5. \A x, y \in Nat : x * r + y \in Nat
        OBVIOUS
      <3>6. QED
        BY <3>3, <3>4, <3>5, Zenon
    <2> HIDE DEF N
    <2>3. QED
      BY <2>1, <2>2, AllFrom
  <1>4. \A k \in Nat : k <= n => f[k] \in Nat
    BY <1>3
  <1>5. m \in Nat /\ m <= n
    BY <1>1 DEF n
  <1>6. \A k \in Nat : k >= m => k \in G
    <2>1. m \in G
      BY <1>4, <1>5
    <2>2. ASSUME NEW k \in Nat, k >= m /\ k \in G PROVE k + 1 \in G
      <3>1. SUFFICES ASSUME k + 1 <= n PROVE f[k + 1] >= f[m]
        OBVIOUS
      <3>2. k + 1 \in 1 .. Len(t) /\ k + 1 - 1 = k /\ k <= n
        BY <1>1, <3>1 DEF n
      <3>3. f[k + 1] = f[k] * r + t[k + 1]
        BY <1>2, <3>2
      <3>4. f[k] \in Nat /\ t[k + 1] \in Nat /\ f[m] \in Nat /\ f[k] >= f[m]
        BY <1>4, <1>5, <2>2, <3>2
      <3>5. f[k] * r >= f[k]
        <4>1. \A x \in Nat : x * r >= x
          OBVIOUS
        <4>2. QED
          BY <3>4, <4>1
      <3>6. f[k] * r \in Nat
        BY <3>4
      <3>7. PICK x \in Nat, y \in Nat : x = f[k] * r /\ y = t[k + 1]
        BY <3>4, <3>6, Zenon
      <3>8. f[k + 1] = x + y
        BY <3>3, <3>7, Zenon
      <3>9. x >= f[k]
        BY <3>5, <3>7, Zenon
      <3>10. QED
        BY <3>4, <3>8, <3>9
    <2> HIDE DEF G
    <2>3. QED
      BY <1>5, <2>1, <2>2, AllFrom
  <1>7. QED
    BY <1>1, <1>4, <1>5, <1>6 DEF n

\* 1 and w zeros.
Power(w) == [k \in 1 .. w + 1 |-> IF k = 1 THEN 1 ELSE 0]

\* It is a number, and not a small one.
LEMMA PowerIs == ASSUME NEW w \in Nat, w > 0
    PROVE  F!Reads(Power(w), 16) \in Nat /\ F!Reads(Power(w), 16) >= 16
  <1> DEFINE u == Power(w)
  <1>1. /\ u \in Seq(Nat) /\ Len(u) = w + 1 /\ u[1] = 1 /\ u[2] = 0
    BY DEF Power
  <1> HIDE DEF u
  <1>2. PICK g : AreValues(g, u, 16) /\ F!Reads(u, 16) = g[Len(u)]
    BY <1>1, ReadsIs
  <1>3. g[0] = 0 /\ \A k \in 1 .. Len(u) : g[k] = g[k - 1] * 16 + u[k]
    <2>1. Len(u) \in Nat
      BY <1>1
    <2>2. AreValues(g, u, 16)
      BY <1>2, Zenon
    <2>3. EachIsNext(g, u, 16)
      BY <2>1, <2>2, ValuesAre, Zenon
    <2>4. QED
      BY <2>3, Zenon DEF EachIsNext
  <1>4. g[1] = 1
    <2>1. 1 \in 1 .. Len(u) /\ 1 - 1 = 0
      BY <1>1
    <2>2. QED
      BY <1>1, <1>3, <2>1
  <1>5. g[2] = 16
    <2>1. 2 \in 1 .. Len(u) /\ 2 - 1 = 1
      BY <1>1
    <2>2. QED
      BY <1>1, <1>3, <1>4, <2>1
  <1>6. /\ \A k \in 0 .. Len(u) : g[k] \in Nat
        /\ \A k \in 2 .. Len(u) : g[k] >= g[2]
    <2>1. 2 \in 0 .. Len(u)
      BY <1>1
    <2>2. QED
      BY <1>1, <1>2, <2>1, ValuesGrow
  <1>7. g[Len(u)] \in Nat /\ g[Len(u)] >= 16
    BY <1>1, <1>5, <1>6
  <1>8. QED
    BY <1>2, <1>7 DEF u

\* A numeral without leading zeros of more than w digits is not below 1 and w zeros.
LEMMA ManyDigits ==
    ASSUME NEW t \in Seq(Nat), NEW w \in Nat, Len(t) > w, t[1] # 0
    PROVE  F!Reads(t, 16) >= F!Reads(Power(w), 16)
  <1> DEFINE u == Power(w)
  <1>1. u \in Seq(Nat) /\ Len(u) = w + 1 /\ u[1] = 1 /\ \A k \in 2 .. w + 1 : u[k] = 0
    BY DEF Power
  <1>2. Len(t) \in Nat /\ \A k \in 1 .. Len(t) : t[k] \in Nat
    OBVIOUS
  <1> HIDE DEF u
  <1>3. PICK f : AreValues(f, t, 16) /\ F!Reads(t, 16) = f[Len(t)]
    BY <1>2, ReadsIs
  <1>4. PICK g : AreValues(g, u, 16) /\ F!Reads(u, 16) = g[Len(u)]
    BY <1>1, ReadsIs
  <1>5. f[0] = 0 /\ \A k \in 1 .. Len(t) : f[k] = f[k - 1] * 16 + t[k]
    BY <1>2, <1>3, ValuesAre DEF EachIsNext
  <1>6. g[0] = 0 /\ \A k \in 1 .. Len(u) : g[k] = g[k - 1] * 16 + u[k]
    <2>1. Len(u) \in Nat
      BY <1>1
    <2>2. AreValues(g, u, 16)
      BY <1>4, Zenon
    <2>3. EachIsNext(g, u, 16)
      BY <2>1, <2>2, ValuesAre, Zenon
    <2>4. QED
      BY <2>3, Zenon DEF EachIsNext
  <1>7. w + 1 \in 0 .. Len(t) /\ w + 1 \in 0 .. Len(u)
    BY <1>1, <1>2
  <1>8. (\A k \in 0 .. Len(t) : f[k] \in Nat) /\ \A k \in w + 1 .. Len(t) : f[k] >= f[w + 1]
    BY <1>3, <1>7, ValuesGrow
  <1>9. \A k \in 0 .. Len(u) : g[k] \in Nat
    BY <1>1, <1>4, <1>7, ValuesGrow
  <1> DEFINE S == {k \in Nat : k <= w + 1 => f[k] >= g[k]}
  <1>10. \A k \in Nat : k >= 1 => k \in S
    <2>1. 1 \in S
      <3>1. 1 \in 1 .. Len(t) /\ 1 \in 1 .. Len(u) /\ 1 - 1 = 0
        BY <1>1, <1>2
      <3>2. f[1] = t[1] /\ g[1] = 1
        BY <1>1, <1>2, <1>5, <1>6, <3>1
      <3>3. QED
        BY <1>2, <3>1, <3>2
    <2>2. ASSUME NEW k \in Nat, k >= 1 /\ k \in S PROVE k + 1 \in S
      <3>1. SUFFICES ASSUME k + 1 <= w + 1 PROVE f[k + 1] >= g[k + 1]
        OBVIOUS
      <3>2. /\ k + 1 \in 1 .. Len(t) /\ k + 1 \in 1 .. Len(u)
            /\ k + 1 \in 2 .. w + 1 /\ k + 1 - 1 = k
            /\ k \in 0 .. Len(t) /\ k \in 0 .. Len(u) /\ k <= w + 1
        BY <1>1, <1>2, <2>2, <3>1
      <3>3. f[k + 1] = f[k] * 16 + t[k + 1] /\ g[k + 1] = g[k] * 16 + u[k + 1]
        BY <1>5, <1>6, <3>2
      <3>4. u[k + 1] = 0 /\ t[k + 1] \in Nat /\ f[k] \in Nat /\ g[k] \in Nat /\ f[k] >= g[k]
        BY <1>1, <1>2, <1>8, <1>9, <2>2, <3>2
      <3>5. PICK x \in Nat, y \in Nat, z \in Nat : x = f[k] /\ y = g[k] /\ z = t[k + 1]
        BY <3>4, Zenon
      <3>6. x >= y /\ f[k + 1] = x * 16 + z /\ g[k + 1] = y * 16 + 0
        BY <3>3, <3>4, <3>5, Zenon
      <3>7. QED
        BY <3>6
    <2> HIDE DEF S
    <2>3. QED
      BY <2>1, <2>2, AllFrom
  <1>11. f[w + 1] >= g[w + 1] /\ f[w + 1] \in Nat /\ g[w + 1] \in Nat
    BY <1>7, <1>8, <1>9, <1>10
  <1>12. f[Len(t)] >= f[w + 1] /\ f[Len(t)] \in Nat
    BY <1>2, <1>7, <1>8
  <1>13. f[Len(t)] >= g[Len(u)]
    BY <1>1, <1>11, <1>12
  <1>14. QED
    BY <1>3, <1>4, <1>13 DEF u

-----------------------------------------------------------------------------
\* A sequence behind a sequence.
LEMMA Behind ==
    ASSUME NEW R, NEW a \in Seq(R), NEW b \in Seq(R), NEW c, c = a \o b
    PROVE  /\ c \in Seq(R) /\ Len(a) \in Nat /\ Len(b) \in Nat /\ Len(c) = Len(a) + Len(b)
           /\ \A i \in 1 .. Len(a) : c[i] = a[i]
           /\ \A i \in 1 .. Len(b) : c[Len(a) + i] = b[i]
  <1>1. QED
    OBVIOUS

\* The words, and how many digits they have.
LEMMA Words ==
    ASSUME F!FormatAssumption
    PROVE  /\ WIDTH \in Nat /\ WIDTH > 0 /\ WORD \in Nat /\ WORD >= 16
           /\ WORD = F!Reads(Power(WIDTH), 16)
  <1>1. WIDTH \in Nat /\ WIDTH > 0
    BY DEF F!FormatAssumption
  <1>2. WORD = F!Reads(Power(WIDTH), 16)
    BY Zenon DEF F!FormatAssumption, Power
  <1>3. QED
    BY <1>1, <1>2, PowerIs

\* The buffer of %#x is full, and the zeros count nothing: no word has more digits.
LEMMA PaddedIs ==
    ASSUME F!FormatAssumption, NEW n \in 0 .. WORD - 1
    PROVE  Len(F!Padded(n)) = WIDTH /\ F!Reads(F!Padded(n), 16) = n
  <1> DEFINE t == F!itoa(n, 16)
             m == WIDTH - Len(t)
             u == [i \in 1 .. m |-> 0] \o t
  <1>1. /\ WIDTH \in Nat /\ WIDTH > 0 /\ WORD \in Nat /\ WORD >= 16 /\ n \in Nat /\ n < WORD
        /\ WORD = F!Reads(Power(WIDTH), 16)
    BY Words
  <1>2. /\ t \in Seq(0 .. 16 - 1) /\ Len(t) >= 1 /\ F!Reads(t, 16) = n
        /\ (n = 0 => Len(t) = 1) /\ (n # 0 => t[1] # 0)
    <2>1. 16 \in Nat /\ 16 > 1 /\ n \in Nat
      BY <1>1
    <2>2. QED
      BY <2>1, ItoaIs, Zenon
  <1>3. u = F!Padded(n)
    BY DEF F!Padded
  <1> HIDE DEF t
  <1>4. t \in Seq(Nat) /\ Len(t) \in Nat
    <2>1. \A i \in 1 .. Len(t) : t[i] \in Nat
      BY <1>2
    <2>2. QED
      BY <1>2, <2>1
  <1>5. Len(t) <= WIDTH
    <2>1. CASE n = 0
      <3>1. Len(t) = 1
        BY <1>2, <2>1, Zenon
      <3>2. QED
        BY <1>1, <3>1
    <2>2. CASE n # 0
      <3>1. SUFFICES ASSUME Len(t) > WIDTH PROVE FALSE
        BY <1>1, <1>4
      <3>2. F!Reads(t, 16) >= F!Reads(Power(WIDTH), 16)
        BY <1>1, <1>2, <1>4, <2>2, <3>1, ManyDigits
      <3>3. QED
        BY <1>1, <1>2, <3>2
    <2>3. QED
      BY <2>1, <2>2
  <1>6. /\ Len(u) = m + Len(t) /\ m \in Nat
        /\ (\A i \in 1 .. m : u[i] = 0) /\ (\A i \in 1 .. Len(t) : u[m + i] = t[i])
    <2> DEFINE z == [i \in 1 .. m |-> 0]
    <2>1. m \in Nat /\ z \in Seq(Nat) /\ Len(z) = m /\ \A i \in 1 .. m : z[i] = 0
      BY <1>1, <1>4, <1>5
    <2> HIDE DEF z, m
    <2>2. /\ Len(z \o t) = m + Len(t)
          /\ \A i \in 1 .. m : (z \o t)[i] = 0
          /\ \A i \in 1 .. Len(t) : (z \o t)[m + i] = t[i]
      <3>1. PICK c, R : c = z \o t /\ R = Nat
        OBVIOUS
      <3>2. z \in Seq(R) /\ t \in Seq(R)
        BY <1>4, <2>1, <3>1, Zenon
      <3>3. /\ Len(c) = Len(z) + Len(t) /\ (\A i \in 1 .. Len(z) : c[i] = z[i])
            /\ \A i \in 1 .. Len(t) : c[Len(z) + i] = t[i]
        BY <3>1, <3>2, Behind
      <3>4. QED
        BY <2>1, <3>1, <3>3, Zenon
    <2>3. QED
      BY <2>1, <2>2 DEF z
  <1>7. Len(u) = WIDTH
    BY <1>1, <1>4, <1>6
  <1> HIDE DEF u, m
  <1>8. Len(u) \in Nat /\ 16 \in Nat
    BY <1>1, <1>7
  <1>9. F!Reads(u, 16) = F!Reads(t, 16)
    BY <1>4, <1>6, <1>8, ReadsZeros
  <1>10. QED
    BY <1>2, <1>3, <1>7, <1>9, Zenon

\* %d writes what the word is below WORD, with a sign in its upper half.
LEMMA SignedIs ==
    ASSUME F!FormatAssumption, NEW n \in 0 .. WORD - 1
    PROVE  IF n < WORD \div 2 THEN F!IsNumeral(F!Signed(n), 10, n)
           ELSE F!Signed(n)[1] = "-" /\ F!IsNumeral(Tail(F!Signed(n)), 10, WORD - n)
  <1>1. WORD \in Nat /\ WORD >= 16 /\ n \in Nat /\ n < WORD
    BY Words
  <1>2. WORD \div 2 \in Nat /\ WORD \div 2 > 0
    BY <1>1
  <1>3. CASE n < WORD \div 2
    <2>1. ~(n >= WORD \div 2)
      BY <1>1, <1>2, <1>3
    <2>2. F!Signed(n) = F!itoa(n, 10)
      BY <2>1 DEF F!Signed
    <2>3. F!IsNumeral(F!itoa(n, 10), 10, n)
      BY <1>1, ItoaIsNumeral
    <2>4. QED
      BY <1>3, <2>2, <2>3
  <1>4. CASE ~(n < WORD \div 2)
    <2>1. n >= WORD \div 2 /\ n > 0
      BY <1>1, <1>2, <1>4
    <2>2. (-n) % WORD = WORD - n /\ WORD - n \in Nat
      BY <1>1, <2>1
    <2> DEFINE t == F!itoa(WORD - n, 10)
    <2>3. F!Signed(n) = <<"-">> \o t
      BY <2>1, <2>2 DEF F!Signed
    <2>4. F!IsNumeral(t, 10, WORD - n)
      BY <2>2, ItoaIsNumeral
    <2>5. t \in Seq(0 .. 10 - 1)
      <3>1. 10 \in Nat /\ 10 > 1
        OBVIOUS
      <3>2. QED
        BY <2>2, <3>1, ItoaIs, Zenon
    <2> HIDE DEF t
    <2>6. (<<"-">> \o t)[1] = "-" /\ Tail(<<"-">> \o t) = t
      <3> DEFINE R == (0 .. 10 - 1) \union {"-"}
                 u == <<"-">> \o t
      <3>1. t \in Seq(R) /\ <<"-">> \in Seq(R)
        BY <2>5
      <3> HIDE DEF R
      <3>2. /\ u \in Seq(R) /\ u # << >> /\ Len(u) = Len(t) + 1 /\ Len(t) \in Nat
            /\ u[1] = "-" /\ \A i \in 1 .. Len(t) : u[i + 1] = t[i]
        BY <3>1
      <3> HIDE DEF u
      <3>3. /\ Tail(u) \in Seq(R) /\ Len(Tail(u)) = Len(t)
            /\ \A i \in 1 .. Len(t) : Tail(u)[i] = t[i]
        BY <3>2
      <3>4. Tail(u) = t
        BY <3>1, <3>3, SeqEqual
      <3>5. QED
        BY <3>2, <3>4 DEF u
    <2>7. QED
      BY <1>4, <2>3, <2>4, <2>6
  <1>5. QED
    BY <1>3, <1>4

-----------------------------------------------------------------------------
(* The pieces of the format.                                                *)

\* The format: g[k] is what the first k pieces make.
Flats(g, p) == g[0] = << >> /\ \A k \in 1 .. Len(p) : g[k] = g[k - 1] \o p[k]

\* FlattenSeq() goes through the pieces in their order.
LEMMA FlatIs ==
    ASSUME NEW p \in Seq(Seq(STRING))
    PROVE  \E g : Flats(g, p) /\ F!FlattenSeq(p) = g[Len(p)]
  <1> DEFINE L == Len(p)
             Entry(g, k) == IF k = 1 THEN p[k] ELSE g[k - 1] \o p[k]
             Solves(g, n) == g = [k \in 1 .. n |-> Entry(g, k)]
             S == {n \in Nat : \E g : Solves(g, n)}
  <1>0. L \in Nat /\ \A k \in 1 .. L : p[k] \in Seq(STRING)
    OBVIOUS
  <1>1. CASE L = 0
    <2> DEFINE g == [k \in 0 .. 0 |-> << >>]
    <2>1. p = << >> /\ F!FlattenSeq(p) = p
      BY <1>1 DEF F!FlattenSeq
    <2>2. 0 \in 0 .. 0 /\ 1 .. L = {}
      BY <1>1
    <2>3. g[0] = << >>
      BY <2>2
    <2> HIDE DEF g
    <2>4. QED
      BY <1>1, <2>1, <2>2, <2>3 DEF Flats
  <1>2. CASE L # 0
    <2>1. 1 \in S
      <3> DEFINE g == [k \in 1 .. 1 |-> p[1]]
      <3>1. \A k \in 1 .. 1 : k = 1
        OBVIOUS
      <3>2. Solves(g, 1)
        BY <3>1, Zenon
      <3>3. QED
        BY <3>2
    <2>2. ASSUME NEW n \in Nat, n >= 1 /\ n \in S PROVE n + 1 \in S
      <3>1. PICK g : Solves(g, n)
        BY <2>2
      <3> DEFINE h == [k \in 1 .. n + 1 |-> IF k \in 1 .. n THEN g[k] ELSE Entry(g, k)]
      <3>2. \A k \in 1 .. n : g[k] = Entry(g, k)
        BY <3>1
      <3>3. \A k \in 1 .. n + 1 : k # 1 => k - 1 \in 1 .. n
        OBVIOUS
      <3>4. \A k \in 1 .. n : k \in 1 .. n + 1 /\ h[k] = g[k]
        OBVIOUS
      <3>5. ASSUME NEW k \in 1 .. n + 1 PROVE h[k] = Entry(h, k)
        <4>1. Entry(h, k) = Entry(g, k)
          <5> HIDE DEF h
          <5>1. QED
            BY <3>3, <3>4, Zenon
        <4> HIDE DEF Entry
        <4>2. CASE k \in 1 .. n
          BY <3>2, <3>4, <4>1, <4>2, Zenon
        <4>3. CASE k \notin 1 .. n
          <5>1. h[k] = Entry(g, k)
            BY <4>3
          <5>2. QED
            BY <4>1, <5>1, Zenon
        <4>4. QED
          BY <4>2, <4>3
      <3>6. Solves(h, n + 1)
        <4> HIDE DEF Entry
        <4>1. QED
          BY <3>5
      <3>7. n + 1 \in Nat
        OBVIOUS
      <3> HIDE DEF h, Solves
      <3>8. QED
        BY <3>6, <3>7
    <2>3. \E g : Solves(g, L)
      <3>1. \A n \in Nat : n >= 1 => n \in S
        <4> HIDE DEF S
        <4>1. 1 \in Nat
          OBVIOUS
        <4>2. QED
          BY <2>1, <2>2, <4>1, AllFrom
      <3>2. L \in Nat /\ L >= 1
        BY <1>0, <1>2
      <3> HIDE DEF L, Solves
      <3>3. L \in S
        BY <3>1, <3>2
      <3>4. QED
        BY <3>3
    <2> DEFINE f == CHOOSE g : Solves(g, L)
    <2>4. Solves(f, L)
      <3> HIDE DEF Solves
      <3>1. QED
        BY <2>3, Zenon
    <2>5. F!FlattenSeq(p) = f[L]
      <3>1. Len(p) # 0
        BY <1>2
      <3>2. QED
        BY <3>1, Zenon DEF F!FlattenSeq
    <2> HIDE DEF f
    <2>6. \A k \in 1 .. L : f[k] = Entry(f, k)
      <3> HIDE DEF Entry
      <3>1. QED
        BY <2>4
    <2> DEFINE g == [k \in 0 .. L |-> IF k = 0 THEN << >> ELSE f[k]]
    <2>7. g[0] = << >> /\ \A k \in 1 .. L : g[k] = f[k]
      BY <1>0
    <2> HIDE DEF g
    <2>8. ASSUME NEW k \in 1 .. L PROVE g[k] = g[k - 1] \o p[k]
      <3>1. CASE k = 1
        <4>1. f[k] = p[k]
          BY <2>6, <3>1, Zenon
        <4>2. g[k - 1] = << >>
          BY <2>7, <3>1
        <4>3. << >> \o p[k] = p[k]
          BY <1>0
        <4>4. QED
          BY <2>7, <4>1, <4>2, <4>3, Zenon
      <3>2. CASE k # 1
        <4>1. f[k] = f[k - 1] \o p[k]
          BY <2>6, <3>2, Zenon
        <4>2. k - 1 \in 1 .. L
          BY <1>0, <3>2
        <4>3. QED
          BY <2>7, <4>1, <4>2, Zenon
      <3>3. QED
        BY <3>1, <3>2
    <2>9. L \in 1 .. L
      BY <1>0, <1>2
    <2>10. F!FlattenSeq(p) = g[L]
      BY <2>5, <2>7, <2>9, Zenon
    <2>11. QED
      BY <2>7, <2>8, <2>10 DEF Flats
  <1>3. QED
    BY <1>1, <1>2

\* What the first k pieces make is in front of what more of them make.
LEMMA Prefixes ==
    ASSUME NEW R, NEW p \in Seq(Seq(R)), NEW g, Flats(g, p), NEW k \in 0 .. Len(p)
    PROVE  \A n \in k .. Len(p) : /\ g[n] \in Seq(R) /\ Len(g[n]) >= Len(g[k])
                                  /\ \A i \in 1 .. Len(g[k]) : g[n][i] = g[k][i]
  <1> DEFINE L == Len(p)
             N == {n \in Nat : n <= L => g[n] \in Seq(R)}
             S == {n \in Nat : n <= L => /\ Len(g[n]) >= Len(g[k])
                                         /\ \A i \in 1 .. Len(g[k]) : g[n][i] = g[k][i]}
  <1>1. L \in Nat /\ (\A n \in 1 .. L : p[n] \in Seq(R)) /\ k \in Nat /\ k <= L
    OBVIOUS
  <1>2. g[0] = << >> /\ \A n \in 1 .. L : g[n] = g[n - 1] \o p[n]
    BY DEF Flats
  <1> HIDE DEF L
  <1>3. \A n \in Nat : n >= 0 => n \in N
    <2>1. 0 \in N
      <3>1. << >> \in Seq(R) /\ 0 \in Nat
        OBVIOUS
      <3>2. QED
        BY <1>2, <3>1, Zenon
    <2>2. ASSUME NEW n \in Nat, n >= 0 /\ n \in N PROVE n + 1 \in N
      <3>1. SUFFICES ASSUME n + 1 <= L PROVE g[n + 1] \in Seq(R)
        OBVIOUS
      <3>2. n + 1 \in 1 .. L /\ n + 1 - 1 = n /\ n <= L
        BY <1>1, <3>1
      <3>3. g[n + 1] = g[n] \o p[n + 1]
        <4>1. PICK i : i = n + 1
          OBVIOUS
        <4>2. i \in 1 .. L /\ i - 1 = n
          BY <3>2, <4>1
        <4>3. g[i] = g[i - 1] \o p[i]
          BY <1>2, <4>2, Zenon
        <4>4. QED
          BY <4>1, <4>2, <4>3, Zenon
      <3>4. g[n] \in Seq(R) /\ p[n + 1] \in Seq(R)
        BY <1>1, <2>2, <3>2
      <3>5. QED
        BY <3>3, <3>4
    <2> HIDE DEF N
    <2>3. QED
      BY <2>1, <2>2, AllFrom
  <1>4. \A n \in Nat : n <= L => g[n] \in Seq(R)
    BY <1>3
  <1>5. \A n \in Nat : n >= k => n \in S
    <2>1. k \in S
      <3>1. Len(g[k]) \in Nat
        BY <1>1, <1>4
      <3>2. QED
        BY <1>1, <3>1
    <2>2. ASSUME NEW n \in Nat, n >= k /\ n \in S PROVE n + 1 \in S
      <3>1. SUFFICES ASSUME n + 1 <= L
                     PROVE  /\ Len(g[n + 1]) >= Len(g[k])
                            /\ \A i \in 1 .. Len(g[k]) : g[n + 1][i] = g[k][i]
        OBVIOUS
      <3>2. n + 1 \in 1 .. L /\ n + 1 - 1 = n /\ n <= L
        BY <1>1, <3>1
      <3>3. g[n + 1] = g[n] \o p[n + 1]
        <4>1. PICK i : i = n + 1
          OBVIOUS
        <4>2. i \in 1 .. L /\ i - 1 = n
          BY <3>2, <4>1
        <4>3. g[i] = g[i - 1] \o p[i]
          BY <1>2, <4>2, Zenon
        <4>4. QED
          BY <4>1, <4>2, <4>3, Zenon
      <3>4. g[n] \in Seq(R) /\ p[n + 1] \in Seq(R) /\ g[k] \in Seq(R)
        BY <1>1, <1>4, <3>2
      <3>5. Len(g[n]) >= Len(g[k]) /\ \A i \in 1 .. Len(g[k]) : g[n][i] = g[k][i]
        BY <2>2, <3>2
      <3>6. /\ Len(g[n]) \in Nat /\ Len(p[n + 1]) \in Nat
            /\ Len(g[n + 1]) = Len(g[n]) + Len(p[n + 1])
            /\ \A i \in 1 .. Len(g[n]) : g[n + 1][i] = g[n][i]
        <4>1. PICK a \in Seq(R), b \in Seq(R), c \in {g[n + 1]} :
                    a = g[n] /\ b = p[n + 1] /\ c = g[n + 1]
          BY <3>4, Zenon
        <4>2. c = a \o b
          BY <3>3, <4>1, Zenon
        <4>3. /\ Len(a) \in Nat /\ Len(b) \in Nat /\ Len(c) = Len(a) + Len(b)
              /\ \A i \in 1 .. Len(a) : c[i] = a[i]
          BY <4>2, Behind
        <4>4. QED
          BY <4>1, <4>3, Zenon
      <3>7. Len(g[k]) \in Nat
        BY <3>4
      <3>8. Len(g[n + 1]) >= Len(g[k])
        <4>1. \A x, y, z \in Nat : x >= z => x + y >= z
          OBVIOUS
        <4>2. QED
          BY <3>5, <3>6, <3>7, <4>1
      <3>9. \A i \in 1 .. Len(g[k]) : i \in 1 .. Len(g[n])
        BY <3>5, <3>6, <3>7
      <3>10. QED
        BY <3>5, <3>6, <3>8, <3>9, Zenon
    <2> HIDE DEF S
    <2>3. QED
      BY <1>1, <2>1, <2>2, AllFrom
  <1>6. \A n \in k .. L : n \in Nat /\ n >= k /\ n <= L
    BY <1>1
  <1>7. QED
    BY <1>4, <1>5, <1>6 DEF L

\* Where a piece is in the format.
IsAt(k, p, g) ==
    /\ Len(g[k - 1]) \in Nat /\ Len(g[k]) = Len(g[k - 1]) + Len(p[k])
    /\ Len(g[k]) <= Len(g[Len(p)])
    /\ \A j \in 1 .. Len(p[k]) : g[Len(p)][Len(g[k - 1]) + j] = p[k][j]

\* That is where it is.
LEMMA PieceAt ==
    ASSUME NEW R, NEW p \in Seq(Seq(R)), NEW g, Flats(g, p), NEW k \in 1 .. Len(p)
    PROVE  IsAt(k, p, g)
  <1> DEFINE L == Len(p)
  <1>1. /\ L \in Nat /\ p[k] \in Seq(R) /\ k - 1 \in 0 .. Len(p) /\ k \in 0 .. Len(p)
        /\ L \in k .. Len(p) /\ k - 1 \in k - 1 .. Len(p)
    OBVIOUS
  <1>2. g[k] = g[k - 1] \o p[k]
    BY DEF Flats
  <1>3. g[k - 1] \in Seq(R)
    BY <1>1, Prefixes
  <1>4. /\ g[L] \in Seq(R) /\ Len(g[L]) >= Len(g[k])
        /\ \A i \in 1 .. Len(g[k]) : g[L][i] = g[k][i]
    BY <1>1, Prefixes
  <1> DEFINE m == Len(g[k - 1])
  <1> HIDE DEF L
  <1>5. /\ m \in Nat /\ Len(p[k]) \in Nat /\ Len(g[k]) = m + Len(p[k])
        /\ \A j \in 1 .. Len(p[k]) : g[k][m + j] = p[k][j]
    <2>1. PICK a \in Seq(R), b \in Seq(R), c \in {g[k]} : a = g[k - 1] /\ b = p[k] /\ c = g[k]
      BY <1>1, <1>3, Zenon
    <2>2. c = a \o b
      BY <1>2, <2>1, Zenon
    <2>3. /\ Len(a) \in Nat /\ Len(b) \in Nat /\ Len(c) = Len(a) + Len(b)
          /\ \A j \in 1 .. Len(b) : c[Len(a) + j] = b[j]
      BY <2>2, Behind
    <2>4. QED
      BY <2>1, <2>3, Zenon
  <1> HIDE DEF m
  <1>6. Len(g[k]) <= Len(g[L])
    BY <1>4, <1>5
  <1>7. \A j \in 1 .. Len(p[k]) : m + j \in 1 .. Len(g[k])
    BY <1>5
  <1>8. \A j \in 1 .. Len(p[k]) : g[L][m + j] = p[k][j]
    BY <1>4, <1>5, <1>7, Zenon
  <1>9. QED
    BY <1>5, <1>6, <1>8 DEF m, L, IsAt

-----------------------------------------------------------------------------
(* What a piece prints.                                                     *)

\* A directive prints what lib.c says of it.
LEMMA DirectiveMeans ==
    ASSUME F!FormatAssumption, NEW piece \in F!Directives,
           F!HasArgument(piece) => F!Argument \in 0 .. WORD - 1
    PROVE  F!Means(piece, F!Argument, F!Converted(piece[Len(piece)], Len(piece) = 3))
  <1> DEFINE n == F!Argument
  <1>1. CASE piece = <<"%", "%">>
    <2>1. piece[Len(piece)] = "%"
      BY <1>1
    <2>2. F!Converted("%", Len(piece) = 3) = <<"%">>
      BY DEF F!Converted
    <2>3. QED
      BY <1>1, <2>1, <2>2 DEF F!Means
  <1>2. CASE piece = <<"%", "x">>
    <2>1. piece[Len(piece)] = "x" /\ Len(piece) # 3 /\ F!HasArgument(piece)
      BY <1>2 DEF F!HasArgument
    <2>2. F!Converted("x", Len(piece) = 3) = F!itoa(n, 16)
      BY <2>1 DEF F!Converted
    <2>3. F!IsNumeral(F!itoa(n, 16), 16, n)
      <3>1. 16 \in Nat /\ 16 > 1 /\ n \in Nat
        BY <2>1, Words
      <3>2. QED
        BY <3>1, ItoaIsNumeral
    <2>4. QED
      BY <1>2, <2>1, <2>2, <2>3 DEF F!Means
  <1>3. CASE piece = <<"%", "#", "x">>
    <2>1. piece[Len(piece)] = "x" /\ Len(piece) = 3 /\ F!HasArgument(piece)
      BY <1>3 DEF F!HasArgument
    <2>2. F!Converted("x", Len(piece) = 3) = F!Padded(n)
      BY <2>1 DEF F!Converted
    <2>3. Len(F!Padded(n)) = WIDTH /\ F!Reads(F!Padded(n), 16) = n
      BY <2>1, PaddedIs
    <2>4. QED
      BY <1>3, <2>1, <2>2, <2>3 DEF F!Means
  <1>4. CASE piece = <<"%", "u">>
    <2>1. piece[Len(piece)] = "u" /\ F!HasArgument(piece)
      BY <1>4 DEF F!HasArgument
    <2>2. F!Converted("u", Len(piece) = 3) = F!itoa(n, 10)
      BY DEF F!Converted
    <2>3. F!IsNumeral(F!itoa(n, 10), 10, n)
      <3>1. 10 \in Nat /\ 10 > 1 /\ n \in Nat
        BY <2>1, Words
      <3>2. QED
        BY <3>1, ItoaIsNumeral
    <2>4. QED
      BY <1>4, <2>1, <2>2, <2>3 DEF F!Means
  <1>5. CASE piece = <<"%", "d">>
    <2>1. piece[Len(piece)] = "d" /\ F!HasArgument(piece)
      BY <1>5 DEF F!HasArgument
    <2>2. F!Converted("d", Len(piece) = 3) = F!Signed(n)
      BY DEF F!Converted
    <2>3. IF n < WORD \div 2 THEN F!IsNumeral(F!Signed(n), 10, n)
          ELSE F!Signed(n)[1] = "-" /\ F!IsNumeral(Tail(F!Signed(n)), 10, WORD - n)
      BY <2>1, SignedIs
    <2>4. QED
      BY <1>5, <2>1, <2>2, <2>3 DEF F!Means
  <1>6. CASE piece \in {<<"%", "c">>, <<"%", "s">>}
    <2>1. piece[Len(piece)] \in {"c", "s"}
      <3>1. CASE piece = <<"%", "c">>
        BY <3>1
      <3>2. CASE piece = <<"%", "s">>
        BY <3>2
      <3>3. QED
        BY <1>6, <3>1, <3>2
    <2>2. \A c \in {"c", "s"} : F!Converted(c, Len(piece) = 3) = <<n>>
      BY DEF F!Converted
    <2>3. QED
      BY <1>6, <2>1, <2>2 DEF F!Means
  <1>7. QED
    BY <1>1, <1>2, <1>3, <1>4, <1>5, <1>6 DEF F!Directives

\* A character prints itself.
LEMMA CharacterMeans ==
    ASSUME NEW piece \in Seq(STRING), Len(piece) = 1, NEW n
    PROVE  F!Means(piece, n, <<piece[1]>>)
  <1>1. piece = <<piece[1]>>
    OBVIOUS
  <1>2. \A q \in F!Directives : Len(q) # 1
    BY DEF F!Directives
  <1>3. piece \notin F!Directives
    BY <1>2
  <1>4. QED
    BY <1>1, <1>3 DEF F!Means, F!Directives

-----------------------------------------------------------------------------
(* printf() piece by piece.                                                 *)

\* Both names of the number of elements.
LEMMA SameCount == \A S : F!Cardinality(S) = Cardinality(S)
  BY DEF F!Cardinality, Cardinality

\* The first n pieces that have an argument.
Used(n) == {j \in 1 .. n : F!HasArgument(pieces[j])}

\* The count grows by one with a piece that has an argument.
LEMMA UsedIs ==
    ASSUME NEW n \in Nat
    PROVE  /\ IsFiniteSet(Used(n)) /\ Cardinality(Used(n)) \in Nat
           /\ \A k \in n + 1 .. Len(pieces) :
                F!HasArgument(pieces[k]) => Cardinality(Used(k)) >= Cardinality(Used(n)) + 1
           /\ Cardinality(Used(n + 1)) =
                Cardinality(Used(n)) + IF F!HasArgument(pieces[n + 1]) THEN 1 ELSE 0
  <1>1. \A k \in Nat : IsFiniteSet(Used(k)) /\ Cardinality(Used(k)) \in Nat
    <2>1. SUFFICES ASSUME NEW k \in Nat
                   PROVE  IsFiniteSet(Used(k)) /\ Cardinality(Used(k)) \in Nat
      OBVIOUS
    <2>2. IsFiniteSet(1 .. k)
      BY FS_Interval
    <2>3. Used(k) \subseteq 1 .. k
      BY DEF Used
    <2>4. QED
      BY <2>2, <2>3, FS_Subset, FS_CardinalityType
  <1>2. ASSUME NEW k \in Nat, k >= n + 1, F!HasArgument(pieces[k])
        PROVE  Cardinality(Used(k)) >= Cardinality(Used(n)) + 1
    <2>1. k \notin Used(n) /\ Used(n) \union {k} \subseteq Used(k)
      BY <1>2 DEF Used
    <2>2. Cardinality(Used(n) \union {k}) = Cardinality(Used(n)) + 1
      BY <1>1, <2>1, FS_AddElement
    <2>3. Cardinality(Used(n) \union {k}) <= Cardinality(Used(k))
      BY <1>1, <2>1, FS_Subset
    <2>4. QED
      BY <1>1, <2>2, <2>3
  <1>3. CASE F!HasArgument(pieces[n + 1])
    <2>1. n + 1 \notin Used(n) /\ Used(n + 1) = Used(n) \union {n + 1}
      BY <1>3 DEF Used
    <2>2. Cardinality(Used(n + 1)) = Cardinality(Used(n)) + 1
      BY <1>1, <2>1, FS_AddElement
    <2>3. QED
      BY <1>1, <1>2, <1>3, <2>2
  <1>4. CASE ~F!HasArgument(pieces[n + 1])
    <2>1. Used(n + 1) = Used(n)
      BY <1>4 DEF Used
    <2>2. QED
      BY <1>1, <1>2, <1>4, <2>1
  <1>5. QED
    BY <1>3, <1>4

\* What the call consists of.
LEMMA Call ==
    ASSUME F!FormatAssumption, pieces \in Formats, args \in Arguments
    PROVE  /\ pieces \in Seq(Seq(STRING)) /\ args \in Seq(0 .. WORD - 1)
           /\ \A k \in 1 .. Len(pieces) : \/ pieces[k] \in F!Directives
                                          \/ Len(pieces[k]) = 1 /\ pieces[k][1] # "%"
           /\ Cardinality(Used(Len(pieces))) <= Len(args)
  <1>1. /\ Formats \subseteq Seq(Seq(STRING)) /\ Arguments \subseteq Seq(0 .. WORD - 1)
        /\ \A k \in DOMAIN pieces :
                pieces[k] \in F!Directives \/ (Len(pieces[k]) = 1 /\ pieces[k][1] # "%")
        /\ F!Cardinality({k \in DOMAIN pieces : F!HasArgument(pieces[k])}) <= Len(args)
    BY Zenon DEF F!FormatAssumption
  <1>2. pieces \in Seq(Seq(STRING)) /\ args \in Seq(0 .. WORD - 1)
    BY <1>1
  <1>3. DOMAIN pieces = 1 .. Len(pieces)
    BY <1>2
  <1>4. Used(Len(pieces)) = {k \in DOMAIN pieces : F!HasArgument(pieces[k])}
    BY <1>3 DEF Used
  <1>5. QED
    BY <1>1, <1>2, <1>3, <1>4, SameCount

\* Between two pieces: what is behind is what the pieces printed so far make, and
\* the arguments used up are theirs.
PrintfInv ==
    /\ pieces \in Formats /\ args \in Arguments
    /\ (\E R : out \in Seq(R)) /\ Len(out) <= Len(pieces)
    /\ \E g : Flats(g, pieces) /\ F!format = g[Len(pieces)] /\ pos = Len(g[Len(out)])
    /\ esp = Cardinality(Used(Len(out)))
    /\ F!FormatFollowed

\* What the next piece is, and where.
NextPiece(k, piece) ==
    /\ k = Len(out) + 1 /\ Len(out) \in Nat /\ k \in 1 .. Len(pieces) /\ piece = pieces[k]
    /\ piece \in F!Directives \/ (Len(piece) = 1 /\ piece[1] # "%")
    /\ piece \in Seq(STRING) /\ Len(piece) >= 1
    /\ pos \in Nat /\ \A j \in 1 .. Len(piece) : F!format[pos + j] = piece[j]
    /\ pos + Len(piece) <= Len(F!format) /\ Len(F!format) \in Nat
    /\ F!HasArgument(piece) => F!Argument \in 0 .. WORD - 1
    /\ F!Argument = F!ArgumentOf(k)

\* While the format is not over there is a next piece, as the invariant says.
LEMMA NextPieceIs ==
    ASSUME F!FormatAssumption, PrintfInv, pos < Len(F!format)
    PROVE  NextPiece(Len(out) + 1, pieces[Len(out) + 1])
  <1> DEFINE n == Len(out)
             k == n + 1
             piece == pieces[k]
             L == Len(pieces)
  <1>1. /\ pieces \in Seq(Seq(STRING)) /\ args \in Seq(0 .. WORD - 1)
        /\ \A j \in 1 .. L :
                pieces[j] \in F!Directives \/ (Len(pieces[j]) = 1 /\ pieces[j][1] # "%")
        /\ Cardinality(Used(L)) <= Len(args)
    <2>1. pieces \in Formats /\ args \in Arguments
      BY DEF PrintfInv
    <2>2. QED
      BY <2>1, Call
  <1>2. /\ n \in Nat /\ L \in Nat /\ n <= L /\ Len(args) \in Nat
        /\ \A j \in 1 .. L : pieces[j] \in Seq(STRING)
    BY <1>1 DEF PrintfInv
  <1>3. PICK g : Flats(g, pieces) /\ F!format = g[L] /\ pos = Len(g[n])
    BY DEF PrintfInv
  <1>4. esp = Cardinality(Used(n))
    BY DEF PrintfInv
  <1> HIDE DEF n, L
  <1>5. n # L
    BY <1>3
  <1>6. k \in 1 .. L /\ k - 1 = n /\ k \in Nat
    BY <1>2, <1>5
  <1>7. /\ pos \in Nat /\ pos + Len(piece) <= Len(g[L])
        /\ \A j \in 1 .. Len(piece) : g[L][pos + j] = piece[j]
    <2>1. PICK p \in 1 .. Len(pieces) : p = k
      BY <1>6 DEF L
    <2>2. IsAt(p, pieces, g)
      <3>1. pieces \in Seq(Seq(STRING)) /\ Flats(g, pieces)
        BY <1>1, <1>3
      <3>2. QED
        BY <3>1, PieceAt, Zenon
    <2>3. p - 1 = n
      BY <1>6, <2>1
    <2>4. QED
      BY <1>3, <2>1, <2>2, <2>3, Zenon DEF L, IsAt
  <1>8. piece \in Seq(STRING) /\ (piece \in F!Directives \/ (Len(piece) = 1 /\ piece[1] # "%"))
    BY <1>1, <1>2, <1>6
  <1>9. Len(piece) >= 1
    <2>1. \A q \in F!Directives : Len(q) >= 1
      BY DEF F!Directives
    <2>2. CASE piece \in F!Directives
      BY <2>1, <2>2, Zenon
    <2>3. CASE Len(piece) = 1
      BY <2>3
    <2>4. QED
      BY <1>8, <2>2, <2>3, Zenon
  <1>10. Len(F!format) \in Nat
    <2>1. 0 \in 0 .. L /\ L \in 0 .. L
      BY <1>2
    <2>2. g[L] \in Seq(STRING)
      BY <1>1, <1>3, <2>1, Prefixes DEF L
    <2>3. QED
      BY <1>3, <2>2
  <1>11. F!Argument = F!ArgumentOf(k)
    <2>1. k - 1 = n
      BY <1>6
    <2>2. F!ArgumentOf(k) = args[1 + Cardinality(Used(n))]
      BY <2>1, SameCount DEF F!ArgumentOf, Used
    <2>3. Cardinality(Used(n)) \in Nat
      BY <1>2, UsedIs
    <2>4. QED
      BY <1>4, <2>2, <2>3 DEF F!Argument
  <1>12. ASSUME F!HasArgument(piece) PROVE F!Argument \in 0 .. WORD - 1
    <2>1. Cardinality(Used(n)) \in Nat /\ Cardinality(Used(n + 1)) = Cardinality(Used(n)) + 1
      BY <1>2, <1>12, UsedIs
    <2>2. Cardinality(Used(n + 1)) <= Cardinality(Used(L))
      <3>1. Used(n + 1) \subseteq Used(L)
        BY <1>2, <1>6 DEF Used
      <3>2. IsFiniteSet(Used(L))
        BY <1>2, UsedIs
      <3>3. QED
        BY <3>1, <3>2, FS_Subset
    <2>3. Cardinality(Used(L)) \in Nat
      BY <1>2, UsedIs
    <2>4. esp + 1 \in 1 .. Len(args)
      BY <1>1, <1>2, <1>4, <2>1, <2>2, <2>3
    <2>5. \A i \in 1 .. Len(args) : args[i] \in 0 .. WORD - 1
      <3>1. args \in Seq(0 .. WORD - 1)
        BY <1>1, Zenon
      <3>2. QED
        BY <3>1, ElementOfSeq
    <2>6. QED
      BY <2>4, <2>5, Zenon DEF F!Argument
  <1>13. QED
    BY <1>2, <1>3, <1>6, <1>7, <1>8, <1>9, <1>10, <1>11, <1>12, Zenon DEF NextPiece, n, L

\* A piece that prints what it means, and uses up its argument, leaves the invariant.
LEMMA PieceDone ==
    ASSUME F!FormatAssumption, PrintfInv, NEW k, NEW piece, NextPiece(k, piece), NEW text,
           F!Means(piece, F!Argument, text), out' = Append(out, text), pos' = pos + Len(piece),
           esp' = IF F!HasArgument(piece) THEN esp + 1 ELSE esp, pieces' = pieces, args' = args
    PROVE  PrintfInv'
  <1> DEFINE n == Len(out)
             L == Len(pieces)
  <1>1. /\ k = n + 1 /\ n \in Nat /\ k \in 1 .. L /\ piece = pieces[k]
        /\ F!Argument = F!ArgumentOf(k)
    BY DEF NextPiece
  <1>2. pieces \in Seq(Seq(STRING)) /\ L \in Nat
    <2>1. pieces \in Formats /\ args \in Arguments
      BY DEF PrintfInv
    <2>2. QED
      BY <2>1, Call
  <1>3. PICK R : out \in Seq(R)
    BY DEF PrintfInv
  <1>4. /\ out' \in Seq(R \union {text}) /\ Len(out') = k /\ out'[k] = text
        /\ \A i \in 1 .. n : out'[i] = out[i]
        /\ DOMAIN out = 1 .. n /\ DOMAIN (out') = 1 .. k
    <2>1. out \in Seq(R \union {text})
      BY <1>3
    <2> DEFINE Q == R \union {text}
    <2>2. text \in Q
      OBVIOUS
    <2> HIDE DEF Q
    <2>3. QED
      BY <1>1, <2>1, <2>2
  <1>5. (\E Q : out \in Seq(Q))' /\ (Len(out) <= Len(pieces))'
    BY <1>1, <1>2, <1>4
  <1>6. (\E g : Flats(g, pieces) /\ F!format = g[Len(pieces)] /\ pos = Len(g[Len(out)]))'
    <2>1. PICK g : Flats(g, pieces) /\ F!format = g[L] /\ pos = Len(g[n])
      BY DEF PrintfInv
    <2>2. Len(g[k]) = Len(g[k - 1]) + Len(piece)
      <3>1. IsAt(k, pieces, g)
        BY <1>1, <1>2, <2>1, PieceAt, Zenon
      <3>2. QED
        BY <1>1, <3>1, Zenon DEF IsAt
    <2>3. k - 1 = n
      BY <1>1
    <2>4. pos' = Len(g[Len(out')])
      BY <1>4, <2>1, <2>2, <2>3, Zenon
    <2>5. Flats(g, pieces)' /\ (F!format)' = g[Len(pieces')]
      BY <2>1 DEF Flats, F!format
    <2>6. QED
      BY <2>4, <2>5
  <1>7. (esp = Cardinality(Used(Len(out))))'
    <2>1. esp = Cardinality(Used(n))
      BY DEF PrintfInv
    <2>2. /\ Cardinality(Used(n)) \in Nat
          /\ Cardinality(Used(n + 1)) =
                Cardinality(Used(n)) + IF F!HasArgument(pieces[n + 1]) THEN 1 ELSE 0
      BY <1>1, UsedIs
    <2>3. Used(Len(out))' = Used(n + 1)
      BY <1>1, <1>4 DEF Used, F!HasArgument
    <2>4. piece = pieces[n + 1]
      BY <1>1
    <2>5. esp' = Cardinality(Used(n + 1))
      BY <2>1, <2>2, <2>4
    <2>6. QED
      BY <2>3, <2>5
  <1>8. (F!FormatFollowed)'
    <2>1. \A j : (F!ArgumentOf(j))' = F!ArgumentOf(j)
      BY DEF F!ArgumentOf, F!HasArgument
    <2>2. SUFFICES ASSUME NEW j \in DOMAIN (out')
                   PROVE  F!Means(pieces[j], F!ArgumentOf(j), out'[j])
      BY <2>1, Zenon DEF F!FormatFollowed
    <2>3. CASE j = k
      BY <1>1, <1>4, <2>3, Zenon
    <2>4. CASE j # k
      <3>1. j \in 1 .. n /\ j \in DOMAIN out
        BY <1>1, <1>4, <2>2, <2>4
      <3>2. F!Means(pieces[j], F!ArgumentOf(j), out[j])
        BY <3>1, Zenon DEF PrintfInv, F!FormatFollowed
      <3>3. QED
        BY <1>4, <3>1, <3>2, Zenon
    <2>5. QED
      BY <2>3, <2>4
  <1>9. QED
    BY <1>5, <1>6, <1>7, <1>8 DEF PrintfInv

\* Nothing is printed at first.
LEMMA PrintfInvInit == F!FormatAssumption /\ F!Init => PrintfInv
  <1> SUFFICES ASSUME F!FormatAssumption, F!Init PROVE PrintfInv
    OBVIOUS
  <1>1. pieces \in Formats /\ args \in Arguments /\ pos = 0 /\ esp = 0 /\ out = << >>
    BY DEF F!Init
  <1>2. pieces \in Seq(Seq(STRING)) /\ Len(pieces) \in Nat
    <2>1. pieces \in Seq(Seq(STRING))
      BY <1>1, Call
    <2>2. QED
      BY <2>1
  <1>3. out \in Seq(STRING) /\ Len(out) = 0 /\ DOMAIN out = {}
    BY <1>1
  <1>4. PICK g : Flats(g, pieces) /\ F!FlattenSeq(pieces) = g[Len(pieces)]
    BY <1>2, FlatIs
  <1>5. pos = Len(g[Len(out)])
    <2>1. g[0] = << >>
      BY <1>4 DEF Flats
    <2>2. QED
      BY <1>1, <1>3, <2>1
  <1>6. Used(Len(out)) = {}
    BY <1>3 DEF Used
  <1>7. esp = Cardinality(Used(Len(out)))
    BY <1>1, <1>6, FS_EmptySet
  <1>8. F!FormatFollowed
    BY <1>3 DEF F!FormatFollowed
  <1>9. QED
    BY <1>1, <1>2, <1>3, <1>4, <1>5, <1>7, <1>8 DEF PrintfInv, F!format

\* A character that is no '%' is a piece of its own.
LEMMA LiteralKeeps ==
    ASSUME F!FormatAssumption, PrintfInv, pos < Len(F!format), F!Literal
    PROVE  PrintfInv'
  <1> DEFINE k == Len(out) + 1
             piece == pieces[k]
  <1>1. NextPiece(k, piece)
    BY NextPieceIs
  <1> HIDE DEF k, piece
  <1>2. /\ F!Current # "%" /\ out' = Append(out, <<F!Current>>) /\ pos' = pos + 1
        /\ pieces' = pieces /\ args' = args /\ esp' = esp
    BY DEF F!Literal
  <1>3. /\ piece \in F!Directives \/ (Len(piece) = 1 /\ piece[1] # "%")
        /\ piece \in Seq(STRING) /\ Len(piece) >= 1 /\ Len(piece) \in Nat
        /\ \A j \in 1 .. Len(piece) : F!format[pos + j] = piece[j]
    BY <1>1 DEF NextPiece
  <1>4. F!Current = piece[1]
    <2>1. 1 \in 1 .. Len(piece)
      BY <1>3
    <2>2. QED
      BY <1>3, <2>1, Zenon DEF F!Current
  <1>5. Len(piece) = 1 /\ piece[1] # "%"
    <2>1. \A q \in F!Directives : q[1] = "%"
      BY DEF F!Directives
    <2>2. QED
      BY <1>2, <1>3, <1>4, <2>1, Zenon
  <1>6. F!Means(piece, F!Argument, <<F!Current>>)
    BY <1>3, <1>4, <1>5, CharacterMeans
  <1>7. ~F!HasArgument(piece)
    BY <1>3, <1>5 DEF F!HasArgument
  <1>8. pos' = pos + Len(piece)
    BY <1>2, <1>5
  <1>9. QED
    BY <1>1, <1>2, <1>6, <1>7, <1>8, PieceDone

\* A '%' begins a directive, with a '#' or none: its conversion is its last character.
LEMMA DirectiveKeeps ==
    ASSUME F!FormatAssumption, PrintfInv, pos < Len(F!format), F!Directive
    PROVE  PrintfInv'
  <1> DEFINE k == Len(out) + 1
             piece == pieces[k]
             L == Len(F!format)
             Ends(n) == /\ F!format[pos + 2 + n] # "#"
                        /\ \A i \in 0 .. n - 1 : F!format[pos + 2 + i] = "#"
             hashes == CHOOSE n \in 0 .. L : Ends(n)
             c == F!format[pos + 2 + hashes]
  <1>1. NextPiece(k, piece)
    BY NextPieceIs
  <1> HIDE DEF k, piece
  <1>2. /\ F!Current = "%" /\ out' = Append(out, F!Converted(c, hashes > 0))
        /\ esp' = (IF F!Takes(c) THEN esp + 1 ELSE esp) /\ pos' = pos + 2 + hashes
        /\ pieces' = pieces /\ args' = args
    BY Zenon DEF F!Directive
  <1>3. /\ piece \in F!Directives \/ (Len(piece) = 1 /\ piece[1] # "%")
        /\ piece \in Seq(STRING) /\ Len(piece) >= 1 /\ Len(piece) \in Nat
        /\ pos \in Nat /\ L \in Nat /\ pos + Len(piece) <= L
        /\ \A j \in 1 .. Len(piece) : F!format[pos + j] = piece[j]
        /\ F!HasArgument(piece) => F!Argument \in 0 .. WORD - 1
    BY <1>1 DEF NextPiece
  <1>4. F!Current = piece[1]
    <2>1. 1 \in 1 .. Len(piece)
      BY <1>3
    <2>2. QED
      BY <1>3, <2>1, Zenon DEF F!Current
  <1>5. piece \in F!Directives
    BY <1>2, <1>3, <1>4, Zenon
  <1>6. \/ Len(piece) = 2 /\ piece[2] # "#"
        \/ Len(piece) = 3 /\ piece[2] = "#" /\ piece[3] # "#"
    BY <1>5 DEF F!Directives
  <1>7. hashes = Len(piece) - 2
    <2> HIDE DEF L
    <2> DEFINE h == Len(piece) - 2
    <2>1. /\ h \in 0 .. L /\ h \in {0, 1}
          /\ (Len(piece) = 2 <=> h = 0) /\ (Len(piece) = 3 <=> h = 1)
      BY <1>3, <1>6
    <2> HIDE DEF h
    <2>2. F!format[pos + 2] = piece[2]
      <3>1. 2 \in 1 .. Len(piece)
        BY <1>6
      <3>2. QED
        BY <1>3, <3>1, Zenon
    <2>3. Len(piece) = 3 => F!format[pos + 3] = piece[3]
      <3>1. SUFFICES ASSUME Len(piece) = 3 PROVE F!format[pos + 3] = piece[3]
        OBVIOUS
      <3>2. 3 \in 1 .. Len(piece)
        BY <3>1
      <3>3. QED
        BY <1>3, <3>2, Zenon
    <2>4. pos + 2 + 0 = pos + 2 /\ pos + 2 + 1 = pos + 3
      BY <1>3
    <2>5. Ends(h)
      <3>1. CASE Len(piece) = 2
        <4>1. h = 0 /\ piece[2] # "#" /\ 0 .. h - 1 = {}
          BY <1>6, <2>1, <3>1
        <4>2. QED
          BY <2>2, <2>4, <4>1, Zenon
      <3>2. CASE Len(piece) = 3
        <4>1. h = 1 /\ piece[2] = "#" /\ piece[3] # "#" /\ \A i \in 0 .. h - 1 : i = 0
          BY <1>6, <2>1, <3>2
        <4>2. F!format[pos + 2 + h] # "#"
          BY <2>3, <2>4, <3>2, <4>1, Zenon
        <4>3. \A i \in 0 .. h - 1 : F!format[pos + 2 + i] = "#"
          BY <2>2, <2>4, <4>1, Zenon
        <4>4. QED
          BY <4>2, <4>3
      <3>3. QED
        BY <1>6, <3>1, <3>2
    <2>6. \A n \in 0 .. L : Ends(n) => n = h
      <3>1. SUFFICES ASSUME NEW n \in 0 .. L, Ends(n), n # h PROVE FALSE
        OBVIOUS
      <3>2. CASE n < h
        <4>1. n = 0 /\ h = 1
          BY <1>3, <2>1, <3>1, <3>2 DEF L
        <4>2. piece[2] = "#"
          BY <1>6, <2>1, <4>1
        <4>3. F!format[pos + 2 + n] # "#"
          BY <3>1
        <4>4. QED
          BY <2>2, <2>4, <4>1, <4>2, <4>3, Zenon
      <3>3. CASE n > h
        <4>1. h \in 0 .. n - 1
          BY <2>1, <3>3
        <4>2. F!format[pos + 2 + h] = "#"
          BY <3>1, <4>1
        <4>3. F!format[pos + 2 + h] # "#"
          BY <2>5
        <4>4. QED
          BY <4>2, <4>3
      <3>4. QED
        BY <2>1, <3>1, <3>2, <3>3
    <2> HIDE DEF Ends
    <2>7. hashes = h
      BY <2>1, <2>5, <2>6
    <2>8. QED
      BY <2>7 DEF h
  <1> HIDE DEF hashes
  <1>8. c = piece[Len(piece)] /\ (hashes > 0 <=> Len(piece) = 3) /\ pos' = pos + Len(piece)
    <2>1. pos + 2 + hashes = pos + Len(piece) /\ Len(piece) \in 1 .. Len(piece)
      BY <1>3, <1>7
    <2>2. c = piece[Len(piece)]
      BY <1>3, <2>1, Zenon
    <2>3. hashes > 0 <=> Len(piece) = 3
      <3>1. CASE Len(piece) = 2
        BY <1>7, <3>1
      <3>2. CASE Len(piece) = 3
        BY <1>7, <3>2
      <3>3. QED
        BY <1>6, <3>1, <3>2
    <2>4. QED
      BY <1>2, <2>1, <2>2, <2>3, Zenon
  <1> HIDE DEF c
  <1>9. F!Takes(c) <=> F!HasArgument(piece)
    <2>1. \A q \in F!Directives : F!Takes(q[Len(q)]) <=> F!HasArgument(q)
      <3>1. \A q \in F!Directives : F!HasArgument(q) <=> q # <<"%", "%">>
        BY DEF F!Directives, F!HasArgument
      <3>2. \A q \in F!Directives : q # <<"%", "%">> => q[Len(q)] \in {"x", "u", "d", "c", "s"}
        <4>1. SUFFICES ASSUME NEW q \in F!Directives, q # <<"%", "%">>
                       PROVE  q[Len(q)] \in {"x", "u", "d", "c", "s"}
          OBVIOUS
        <4>2. CASE q = <<"%", "#", "x">>
          BY <4>2
        <4>3. q # <<"%", "#", "x">> => Len(q) = 2 /\ q[2] \in {"x", "u", "d", "c", "s"}
          BY <4>1 DEF F!Directives
        <4>4. QED
          BY <4>2, <4>3
      <3>3. \A q : q = <<"%", "%">> => q[Len(q)] = "%"
        OBVIOUS
      <3>4. "%" \notin {"x", "u", "d", "c", "s"}
        OBVIOUS
      <3>5. QED
        BY <3>1, <3>2, <3>3, <3>4, Zenon DEF F!Takes
    <2>2. QED
      BY <1>5, <1>8, <2>1, Zenon
  <1>10. F!Means(piece, F!Argument, F!Converted(piece[Len(piece)], Len(piece) = 3))
    BY <1>3, <1>5, DirectiveMeans
  <1>11. F!Converted(c, hashes > 0) = F!Converted(piece[Len(piece)], Len(piece) = 3)
    BY <1>8, Zenon DEF F!Converted
  <1>12. F!Means(piece, F!Argument, F!Converted(c, hashes > 0))
    BY <1>10, <1>11, Zenon
  <1>13. esp' = IF F!HasArgument(piece) THEN esp + 1 ELSE esp
    BY <1>2, <1>9, Zenon
  <1>14. QED
    BY <1>1, <1>2, <1>8, <1>12, <1>13, PieceDone

\* What is behind is never more than there is.
LEMMA PrintfShows ==
    ASSUME F!FormatAssumption, PrintfInv
    PROVE  F!TypeOK /\ F!FormatFollowed
  <1>1. pieces \in Formats /\ args \in Arguments /\ F!FormatFollowed
    BY DEF PrintfInv
  <1>2. /\ pieces \in Seq(Seq(STRING)) /\ args \in Seq(0 .. WORD - 1)
        /\ Cardinality(Used(Len(pieces))) <= Len(args)
    BY <1>1, Call
  <1> DEFINE n == Len(out)
             L == Len(pieces)
  <1>3. n \in Nat /\ L \in Nat /\ n <= L /\ Len(args) \in Nat
    BY <1>2 DEF PrintfInv
  <1>4. pos \in 0 .. Len(F!format)
    <2>1. PICK g : Flats(g, pieces) /\ F!format = g[L] /\ pos = Len(g[n])
      BY DEF PrintfInv
    <2>2. n \in 0 .. Len(pieces) /\ L \in n .. Len(pieces) /\ n \in n .. Len(pieces)
      BY <1>3
    <2>3. PICK R : R = STRING
      OBVIOUS
    <2>4. pieces \in Seq(Seq(R))
      BY <1>2, <2>3, Zenon
    <2>5. g[L] \in Seq(R) /\ Len(g[L]) >= Len(g[n]) /\ g[n] \in Seq(R)
      BY <2>1, <2>2, <2>4, Prefixes
    <2>6. QED
      BY <2>1, <2>5
  <1>5. esp \in 0 .. Len(args)
    <2>1. Cardinality(Used(n)) <= Cardinality(Used(L)) /\ Cardinality(Used(n)) \in Nat
      <3>1. Used(n) \subseteq Used(L)
        BY <1>3 DEF Used
      <3>2. IsFiniteSet(Used(L)) /\ Cardinality(Used(n)) \in Nat
        BY <1>3, UsedIs
      <3>3. QED
        BY <3>1, <3>2, FS_Subset
    <2>2. Cardinality(Used(L)) \in Nat
      BY <1>3, UsedIs
    <2>3. esp = Cardinality(Used(n))
      BY DEF PrintfInv
    <2>4. QED
      BY <1>2, <1>3, <2>1, <2>2, <2>3
  <1>6. QED
    BY <1>1, <1>3, <1>4, <1>5 DEF F!TypeOK

\* Every piece prints what lib.c says of it, with its own argument, in every format
\* and for every word of any width; every variable keeps its type.
THEOREM FormatIsFollowed == F!FormatAssumption => (F!Spec => [](F!TypeOK /\ F!FormatFollowed))
  <1> SUFFICES ASSUME F!FormatAssumption PROVE F!Spec => [](F!TypeOK /\ F!FormatFollowed)
    OBVIOUS
  <1>1. F!Init => PrintfInv
    BY PrintfInvInit
  <1>2. PrintfInv /\ [F!printf]_F!vars => PrintfInv'
    <2> SUFFICES ASSUME PrintfInv, [F!printf]_F!vars PROVE PrintfInv'
      OBVIOUS
    <2>1. CASE F!printf
      BY <2>1, LiteralKeeps, DirectiveKeeps DEF F!printf
    <2>2. CASE UNCHANGED F!vars
      <3>1. pieces' = pieces /\ args' = args /\ pos' = pos /\ esp' = esp /\ out' = out
        BY <2>2 DEF F!vars
      <3>2. (F!FormatFollowed)' <=> F!FormatFollowed
        BY <3>1 DEF F!FormatFollowed, F!ArgumentOf, F!HasArgument
      <3>3. (F!format)' = F!format /\ Used(Len(out))' = Used(Len(out))
        BY <3>1 DEF F!format, Used, F!HasArgument
      <3>4. QED
        BY <3>1, <3>2, <3>3 DEF PrintfInv, Flats
    <2>3. QED
      BY <2>1, <2>2
  <1>3. PrintfInv => F!TypeOK /\ F!FormatFollowed
    BY PrintfShows
  <1>4. QED
    BY <1>1, <1>2, <1>3, PTL DEF F!Spec
=============================================================================
