------------------------------- MODULE MCParts -------------------------------
(***************************************************************************)
(* Small instances of the modules whose state nothing else touches:        *)
(* unit says which of them moves, so their states add up instead of being  *)
(* multiplied.                                                             *)
(***************************************************************************)
EXTENDS Heap, SequencesExt

VARIABLES
    unit,
    list_head, blink, since,
    present, pcb, buf, delivered, typed,
    pieces, args, pos, esp, out,
    console, line, reading, start, stuck,
    names, count, disk, sector, kept, deleted, delete_calls, gone, stale,
    listed, listed_count, change, place, name, dir_pos, reader, got, next, missing, overlapping,
        excuses,
    call, mem, edi, esi, ecx, edx, step,
    file, file_pos, pattern, data, last, cnt, line_start, pc, printed, behind

blinkVars == <<list_head, blink, since>>
commandVars == <<present, pcb, buf, delivered, typed>>
printfVars == <<pieces, args, pos, esp, out>>
consoleVars == <<console, line, reading, start, stuck>>
volumeVars == <<names, count, disk, sector, kept, deleted, delete_calls, gone, stale>>
listingVars == <<listed, listed_count, change, place, name, dir_pos, reader, got, next, missing,
                overlapping, excuses>>
memoryVars == <<call, mem, edi, esi, ecx, edx, step>>
grepVars == <<file, file_pos, pattern, data, last, cnt, line_start, pc, printed, behind>>

MCLocations == {40, 41}

\* Half of a word is 2: the lengths reach it and pass it.
B == INSTANCE Blink WITH
        Locations <- MCLocations, Rhythms <- {<<2, 3>>, <<1, 2>>},
        SCREEN <- 2000, Capacity <- 3, WORD <- 4
ASSUME BlinkConstants == B!BlinkAssumption

\* Lines of up to one character more than the limit.
C == INSTANCE CommandLine WITH
        Commands <- SeqOf({"a", "b", " "}, 5), Programs <- {<<"a">>, <<"b", "a">>},
        Counts <- 0 .. 3, MAX_TERMINAL <- 4
ASSUME CommandConstants == C!CommandLineAssumption

\* Words of eight bits, with the extreme values as arguments.
MCPieces == {<<"a">>, <<"x">>, <<"%", "%">>, <<"%", "x">>, <<"%", "#", "x">>,
             <<"%", "u">>, <<"%", "d">>, <<"%", "c">>}
F == INSTANCE Format WITH
        Formats <- SeqOf(MCPieces, 3),
        Arguments <- {<<200, 0, 127>>, <<128, 255, 16>>, <<10, 9, 15>>},
        WORD <- 256, WIDTH <- 2
ASSUME FormatConstants == F!FormatAssumption

\* Two tabs to a row, and a line that goes over its end.
S == INSTANCE Console WITH
        COLS <- 8, ROWS <- 2, MAX_TERMINAL <- 2, Writes <- {<<"a">>, <<"tab">>}
ASSUME ConsoleConstants == S!ConsoleAssumption

\* Three dentries, in two sectors.
V == INSTANCE Volume WITH
        Names <- {"a", "b", "c"}, Image <- <<"a", "b", "c">>,
        Places <- 3, FirstSector <- 1, PerSector <- 2, deletions <- delete_calls
ASSUME VolumeConstants == V!VolumeAssumption

\* Two readers of two dentries, and a position that can go beyond them.
L == INSTANCE Listing WITH
        Readers <- {"p", "q"}, Names <- {"a", "b", "c"}, MaxDentries <- 2, MaxPos <- 3,
        names <- listed, count <- listed_count, pos <- dir_pos, pc <- reader
ASSUME ListingConstants == L!ListingAssumption

\* Three words: every alignment, with and without whole words in between.
MCCalls == [routine : {"memset", "memset_word", "memset_dword", "memcpy", "memmove"},
            to : 0 .. 11, from : 0 .. 11, n : 0 .. 11]
M == INSTANCE Memory WITH SIZE <- 12, Calls <- MCCalls
ASSUME MemoryConstants == M!MemoryAssumption

\* Up to three fillings of the buffer, lines that fit and lines that do not.
G == INSTANCE Grep WITH
        Files <- SeqOf({"a", "b", "nl"}, 6), Patterns <- {<<"a">>, <<"a", "b">>},
        BUFSIZE <- 3, Garbage <- {"a", "nl"}, s <- pattern, pos <- file_pos
ASSUME GrepConstants == G!GrepAssumption

PartsInit ==
    /\ unit \in {"kmalloc", "blink", "command", "printf", "console", "volume", "listing", "memory",
                "grep"}
    /\ unit # "printf" => pieces = <<>> /\ args = <<200, 0, 127>>
    /\ unit # "listing" => listed_count = 0
    /\ unit # "memory" => call = [routine |-> "memset", to |-> 0, from |-> 0, n |-> 0]
    /\ unit # "grep" => file = <<>> /\ pattern = <<"a">>
    /\ Init /\ B!Init /\ C!Init /\ F!Init /\ S!Init /\ V!Init /\ L!Init /\ M!Init /\ G!Init
    /\ unit # "grep" => behind = "a"

PartsNext ==
    \/ unit = "kmalloc" /\ Next
       /\ UNCHANGED <<unit, blinkVars, commandVars, printfVars, consoleVars, volumeVars, listingVars, memoryVars, grepVars>>
    \/ unit = "blink" /\ B!Next
       /\ UNCHANGED <<unit, vars, commandVars, printfVars, consoleVars, volumeVars, listingVars, memoryVars, grepVars>>
    \/ unit = "command" /\ C!Next
       /\ UNCHANGED <<unit, vars, blinkVars, printfVars, consoleVars, volumeVars, listingVars, memoryVars, grepVars>>
    \/ unit = "printf" /\ F!printf
       /\ UNCHANGED <<unit, vars, blinkVars, commandVars, consoleVars, volumeVars, listingVars, memoryVars, grepVars>>
    \/ unit = "console" /\ S!Next
       /\ UNCHANGED <<unit, vars, blinkVars, commandVars, printfVars, volumeVars, listingVars, memoryVars, grepVars>>
    \/ unit = "volume" /\ V!Next
       /\ UNCHANGED <<unit, vars, blinkVars, commandVars, printfVars, consoleVars, listingVars, memoryVars, grepVars>>
    \/ unit = "listing" /\ L!Next
       /\ UNCHANGED <<unit, vars, blinkVars, commandVars, printfVars, consoleVars, volumeVars, memoryVars, grepVars>>
    \/ unit = "memory" /\ M!Next
       /\ UNCHANGED <<unit, vars, blinkVars, commandVars, printfVars, consoleVars, volumeVars, listingVars, grepVars>>
    \/ unit = "grep" /\ G!Next
       /\ UNCHANGED <<unit, vars, blinkVars, commandVars, printfVars, consoleVars, volumeVars, listingVars, memoryVars>>

PartsSpec ==
    PartsInit /\ [][PartsNext]_<<unit, vars, blinkVars, commandVars, printfVars, consoleVars,
                                volumeVars, listingVars, memoryVars, grepVars>>

-----------------------------------------------------------------------------
(* Properties; those of the other units are true of their initial states.   *)

\* Every variable of the module that moves has its type; fish's pointers are a list.
TypesOK ==
    /\ unit = "kmalloc" => TypeOK
    /\ unit = "blink" => B!TypeOK
    /\ unit = "command" => C!TypeOK
    /\ unit = "printf" => F!TypeOK
    /\ unit = "console" => S!TypeOK
    /\ unit = "volume" => V!TypeOK
    /\ unit = "listing" => L!TypeOK
    /\ unit = "memory" => M!TypeOK
    /\ unit = "grep" => G!TypeOK

\* A character shows for exactly its length.
PeriodKept == [][unit = "blink" => B!FlipsOnTime]_blinkVars
\* The array with its pointers is the pile of characters fish asked for.
ImplementsOrder == B!ImplementsOrder
\* The first word of the line is the program that runs, with the terminal open, and
\* getargs() delivers the second.
CommandUnderstood == unit = "command" => C!NamedProgramRuns /\ C!ArgumentDelivered
\* printf() prints what lib.c says of each directive.
FormatFollowed == unit = "printf" => F!FormatFollowed
\* The cells in front of the cursor are the line, those after it are blank.
LineShown == unit = "console" => S!LineShown
\* What delete() saved does not come back at a restart.
DeletedStaysDeleted == unit = "volume" => V!DeletedStaysDeleted
\* A save cut short loses no more files than delete() was called since the last
\* complete one.
FewFilesLost == unit = "volume" => V!FewFilesLost
\* A listing misses one file at most for every one deleted meanwhile and every call
\* that overlapped another.
ListingComplete == unit = "listing" => L!ListingComplete
\* The block routines write what they were asked to write.
BlockWritten == unit = "memory" => M!BlockWritten
\* grep prints the lines with the pattern.
LinesFound == unit = "grep" => G!LinesFound
=============================================================================
