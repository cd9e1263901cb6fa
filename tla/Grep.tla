-------------------------------- MODULE Grep --------------------------------
(***************************************************************************)
(* The grep program on one file: lines are searched in a buffer that a     *)
(* read() fills at any place of a line, and a line cut off there is moved  *)
(* to the front before the next one.  The buffer's last byte is never read *)
(* into and at first holds what the stack left there.                      *)
(***************************************************************************)
EXTENDS Integers, Sequences

CONSTANTS
    Files,              \* contents: sequences of characters
    Patterns,           \* arguments, not empty
    BUFSIZE,            \* 1024
    Garbage             \* what uninitialised bytes may hold

NEWLINE == "nl"
NUL == "nul"

\* Text files, and a pattern as it comes from the command line.
GrepAssumption ==
    /\ BUFSIZE \in Nat \ {0}
    /\ Files \subseteq Seq(STRING) /\ Patterns \subseteq Seq(STRING) \ {<<>>}
    /\ \A text \in Files \cup Patterns : \A i \in DOMAIN text : text[i] # NUL

VARIABLES
    file, pos,          \* the file and the descriptor's position in it
    s,                  \* the pattern
    data, last,         \* the buffer, and how much of it counts
    cnt,                \* what the last read() returned
    line_start,
    pc,
    printed,            \* history: the lines printed
    behind              \* history: what data[BUFSIZE] held at first

vars == <<file, pos, s, data, last, cnt, line_start, pc, printed, behind>>

Indices == 0 .. BUFSIZE

Init ==
    /\ file \in Files /\ s \in Patterns /\ pos = 0
    /\ \E g \in Garbage : data = [i \in Indices |-> g]
    /\ last = 0 /\ cnt = 0 /\ line_start = 0 /\ pc = "read"
    /\ printed = <<>> /\ behind = data[BUFSIZE]

\* The rest of the buffer is filled as far as the file goes.
read ==
    LET n == IF BUFSIZE - last < Len(file) - pos THEN BUFSIZE - last ELSE Len(file) - pos IN
    /\ pc = "read" /\ pc' = "scan"
    /\ cnt' = n /\ pos' = pos + n /\ last' = last + n
    /\ data' = [i \in Indices |-> IF i \in last .. last + n - 1 THEN file[pos + i - last + 1] ELSE data[i]]
    /\ line_start' = 0
    /\ UNCHANGED <<file, s, printed, behind>>

line_end == CHOOSE i \in line_start .. last :
    /\ i = last \/ data[i] = NEWLINE
    /\ \A j \in line_start .. i - 1 : data[j] # NEWLINE

\* The buffer with the line ended, and where the line's first NUL is.
Ended == [data EXCEPT ![line_end] = NUL]
FirstNul == CHOOSE i \in line_start .. line_end :
    Ended[i] = NUL /\ \A j \in line_start .. i - 1 : Ended[j] # NUL

\* Behind the last character the code looks at what was in the buffer before.
CutOff == data[line_end] # NEWLINE /\ cnt # 0 /\ line_start # 0

\* Mutant: the line moved to the front is read over.
KeptNothing == 0

Kept == last - line_start

\* ece391_strcpy() to the front.
MoveToFront ==
    /\ pc = "scan" /\ CutOff
    /\ data' = [i \in Indices |-> IF i <= FirstNul - line_start THEN Ended[line_start + i] ELSE Ended[i]]
    /\ last' = Kept /\ pc' = "read"
    /\ UNCHANGED <<file, pos, s, cnt, line_start, printed, behind>>

\* ece391_strncmp(): the NUL ends the line, and the pattern has none.
MatchesAt(check) ==
    \A i \in DOMAIN s : check + i - 1 <= line_end /\ Ended[check + i - 1] = s[i]

\* A line is printed once, up to its first NUL.
SearchLine ==
    /\ pc = "scan" /\ ~CutOff
    /\ data' = Ended
    /\ printed' = IF \E check \in line_start .. line_end - 1 : MatchesAt(check)
                  THEN Append(printed, [i \in 1 .. FirstNul - line_start |-> Ended[line_start + i - 1]])
                  ELSE printed
    /\ line_start' = line_end + 1
    /\ IF line_end + 1 >= last
       THEN last' = 0 /\ pc' = (IF cnt = 0 THEN "done" ELSE "read")
       ELSE UNCHANGED <<last, pc>>
    /\ UNCHANGED <<file, pos, s, cnt, behind>>

Next == read \/ MoveToFront \/ SearchLine

Spec == Init /\ [][Next]_vars

-----------------------------------------------------------------------------
\* Every variable has its type; there is always room for one more character.
TypeOK ==
    /\ file \in Files /\ s \in Patterns /\ pos \in 0 .. Len(file)
    /\ DOMAIN data = Indices /\ last \in Indices /\ cnt \in Indices
    /\ line_start \in 0 .. BUFSIZE + 1 /\ pc \in {"read", "scan", "done"}
    /\ pc = "read" => last < BUFSIZE

\* The reference: the lines of a text, those with a pattern among them.
Starts(text) == {i \in DOMAIN text : i = 1 \/ text[i - 1] = NEWLINE}
LineAt(text, i) ==
    SubSeq(text, i, CHOOSE j \in i - 1 .. Len(text) :
                        /\ j = Len(text) \/ text[j + 1] = NEWLINE
                        /\ \A k \in i .. j : text[k] # NEWLINE)
HasPattern(line, p) == \E k \in 0 .. Len(line) - Len(p) : SubSeq(line, k + 1, k + Len(p)) = p
LinesFrom(text, p) ==   \* those that start at one of the first n characters
    LET lines[n \in 0 .. Len(text)] ==
            IF n = 0 THEN <<>>
            ELSE IF n \in Starts(text) /\ HasPattern(LineAt(text, n), p)
            THEN Append(lines[n - 1], LineAt(text, n))
            ELSE lines[n - 1]
    IN  lines
LinesWithPattern == LinesFrom(file, s)[Len(file)]

\* Lines that fit the buffer.
LinesFit == \A i \in Starts(file) : Len(LineAt(file, i)) <= BUFSIZE

\* grep prints every line with the pattern, once and whole, and no other, wherever
\* the reads cut the file; unless the byte behind the buffer is a newline at first,
\* which ends the line there.
LinesFound ==
    pc = "done" /\ LinesFit /\ behind # NEWLINE => printed = LinesWithPattern
=============================================================================
