---------------------------- MODULE CommandLine ----------------------------
(***************************************************************************)
(* A command line on its way from the shell to the program: execute()      *)
(* splits it and leaves the argument in the new process's pcb, getargs()   *)
(* gives it to the program.  One slot, whose programs follow one another;  *)
(* nobody clears the argument of the last one.                             *)
(*                                                                         *)
(* execute() counts with one i the characters it has looked at, of the     *)
(* name, the argument and the spaces before them, and stops at             *)
(* MAX_TERMINAL.                                                           *)
(***************************************************************************)
EXTENDS Integers, Sequences, FiniteSets

CONSTANTS
    Commands,           \* command lines: sequences of characters
    Programs,           \* the names of executable files
    Counts,             \* capacities a program may give to getargs()
    MAX_TERMINAL        \* 128: the line's buffer, both buffers of execute(), argv

NUL == "nul"

CommandLineAssumption ==
    /\ MAX_TERMINAL \in Nat \ {0} /\ Counts \subseteq Nat
    /\ Commands \subseteq Seq(STRING \ {NUL})

VARIABLES
    present,            \* the slot is in use
    pcb,                \* its bytes of pcb->argv, followed by pcb->files[0 .. 2]
    buf,                \* what the last getargs() wrote of its buffer and behind it
    delivered,          \* history: what getargs() was given as capacity
    typed               \* history: the running program's command line

vars == <<present, pcb, buf, delivered, typed>>

NONE == -1
SPACE == " "
UNSET == "unset"        \* a byte of buf that the call did not write
BUFFER == 0 .. MAX_TERMINAL
STDIN == MAX_TERMINAL   \* a descriptor is one byte long, and the names are as much shorter
STDOUT == MAX_TERMINAL + 1
FIRST_FILE == MAX_TERMINAL + 2

Init ==
    /\ present = FALSE
    /\ pcb = [i \in 0 .. FIRST_FILE |-> NUL]
    /\ buf = [i \in BUFFER |-> UNSET] /\ delivered = NONE /\ typed = <<>>

\* The character pos points to when i characters have been passed.
At(s, i) == IF i < Len(s) THEN s[i + 1] ELSE NUL

\* What the loops over spaces and over a word's characters pass.
Passed(c, spaces) == c # NUL /\ (c = SPACE <=> spaces)

\* Where a loop that starts at i stops: at MAX_TERMINAL at the latest.
Stop(s, i, spaces) ==
    CHOOSE j \in i .. MAX_TERMINAL :
        /\ j = MAX_TERMINAL \/ ~Passed(At(s, j), spaces)
        /\ \A k \in i .. j - 1 : Passed(At(s, k), spaces)

\* Where the name starts and ends, and the argument.
NameAt(s) == Stop(s, 0, TRUE)
NameEnd(s) == Stop(s, NameAt(s), FALSE)
ArgumentAt(s) == Stop(s, NameEnd(s), TRUE)
ArgumentEnd(s) == Stop(s, ArgumentAt(s), FALSE)

Between(s, i, j) == SubSeq(s, i + 1, j)
Name(s) == Between(s, NameAt(s), NameEnd(s))

\* What memcpy() finds at argument.  Without an argument argv_pos is left in
\* file_name, which the build places right behind argument: the copy is all of
\* argument, zeros, and then the name.
Copied(s) ==
    IF At(s, ArgumentAt(s)) # NUL
    THEN Append(Between(s, ArgumentAt(s), ArgumentEnd(s)), NUL)
    ELSE [i \in 1 .. MAX_TERMINAL |-> NUL] \o Append(Name(s), NUL)

\* argv is followed by the descriptors, and a copy longer than argv runs into
\* them; they are set up afterwards.
CopyArgument(s, memory) ==
    [i \in DOMAIN memory |-> IF i < Len(Copied(s)) THEN Copied(s)[i + 1] ELSE memory[i]]
SetUpFiles(memory) ==
    [memory EXCEPT ![STDIN] = "stdin", ![STDOUT] = "stdout", ![FIRST_FILE] = NUL]

\* Mutant: the argument is copied after the descriptors are set up.
executeCopyLast(s) ==
    /\ ~present
    /\ At(s, NameAt(s)) # NUL /\ Name(s) \in Programs
    /\ present' = TRUE /\ typed' = s
    /\ pcb' = CopyArgument(s, SetUpFiles(pcb))
    /\ buf' = [i \in BUFFER |-> UNSET] /\ delivered' = NONE

execute(s) ==
    /\ ~present
    /\ At(s, NameAt(s)) # NUL /\ Name(s) \in Programs
    /\ present' = TRUE /\ typed' = s
    /\ pcb' = SetUpFiles(CopyArgument(s, pcb))
    /\ buf' = [i \in BUFFER |-> UNSET] /\ delivered' = NONE

\* Mutant: one character too many.
TakenOneMore(count) ==
    CHOOSE n \in 0 .. MAX_TERMINAL :
        /\ n \in {count + 1, MAX_TERMINAL} \/ pcb[n] = NUL
        /\ \A i \in 0 .. n - 1 : pcb[i] # NUL /\ i < count + 1

\* How many characters getargs() takes: those before the NUL, at most count.
Taken(count) ==
    CHOOSE n \in 0 .. MAX_TERMINAL :
        /\ n \in {count, MAX_TERMINAL} \/ pcb[n] = NUL
        /\ \A i \in 0 .. n - 1 : pcb[i] # NUL /\ i < count

\* Without room for the NUL it is written behind the buffer.
getargs(count) ==
    LET length == Taken(count) IN
    /\ present
    /\ buf' = [i \in BUFFER |-> IF i < length THEN pcb[i] ELSE IF i = length THEN NUL ELSE UNSET]
    /\ delivered' = count
    /\ UNCHANGED <<present, pcb, typed>>

\* open() takes the first free descriptor, halt() closes it; argv stays.
open ==
    /\ present /\ pcb[FIRST_FILE] = NUL
    /\ pcb' = [pcb EXCEPT ![FIRST_FILE] = "open"]
    /\ UNCHANGED <<present, buf, delivered, typed>>

halt ==
    /\ present /\ present' = FALSE
    /\ pcb' = [pcb EXCEPT ![FIRST_FILE] = NUL]
    /\ buf' = [i \in BUFFER |-> UNSET] /\ delivered' = NONE /\ typed' = <<>>

Next ==
    \/ \E s \in Commands : execute(s)
    \/ \E count \in Counts : getargs(count)
    \/ open \/ halt

Spec == Init /\ [][Next]_vars

-----------------------------------------------------------------------------
\* Every variable has its type.
TypeOK ==
    /\ present \in BOOLEAN /\ delivered \in Counts \cup {NONE}
    /\ DOMAIN pcb = 0 .. FIRST_FILE /\ DOMAIN buf = BUFFER
    /\ typed \in Commands \cup {<<>>}

\* The reference: the words of the first MAX_TERMINAL characters are the longest
\* runs of characters that are not spaces.
Line(s) == SubSeq(s, 1, IF Len(s) < MAX_TERMINAL THEN Len(s) ELSE MAX_TERMINAL)
IsWord(s, w) ==
    /\ w[1] <= w[2]
    /\ \A i \in w[1] .. w[2] : s[i] # SPACE
    /\ w[1] - 1 \in DOMAIN s => s[w[1] - 1] = SPACE
    /\ w[2] + 1 \in DOMAIN s => s[w[2] + 1] = SPACE
WordsOf(s) == {w \in (1 .. Len(s)) \X (1 .. Len(s)) : IsWord(s, w)}
\* The n-th word, empty when there are fewer.
Word(s, n) ==
    LET words == WordsOf(Line(s))
        nth == {w \in words : Cardinality({v \in words : v[1] <= w[1]}) = n}
    IN  IF nth = {} THEN <<>> ELSE LET w == CHOOSE w \in nth : TRUE IN SubSeq(s, w[1], w[2])

\* The program that runs is the one named by the line's first word, and it has
\* the terminal and no open file, whatever the copy of the argument wrote over
\* the descriptors of the slot.
NamedProgramRuns ==
    present => /\ Word(typed, 1) \in Programs
               /\ pcb[STDIN] = "stdin" /\ pcb[STDOUT] = "stdout"
               /\ pcb[FIRST_FILE] \in {NUL, "open"}

\* getargs() delivers the line's second word, as much of it as there is room for, and
\* its end where there is room for that too; nothing of an earlier program's argument,
\* and behind the capacity it was given it writes nothing, but a NUL in the next byte.
ArgumentDelivered ==
    delivered # NONE =>
        LET word == Word(typed, 2)
            length == IF Len(word) < delivered THEN Len(word) ELSE delivered
        IN  /\ \A i \in 0 .. length - 1 : buf[i] = word[i + 1]
            /\ length < delivered => buf[length] = NUL
            /\ \A i \in BUFFER : i >= delivered =>
                   buf[i] = UNSET \/ (i = delivered /\ buf[i] = NUL)
=============================================================================
