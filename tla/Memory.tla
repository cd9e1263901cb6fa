------------------------------- MODULE Memory -------------------------------
(***************************************************************************)
(* The block routines of lib.c, one call at a time: bytes until the        *)
(* destination is aligned, whole words, the bytes that are left; and       *)
(* memmove(), which picks its direction.  A cell is a byte.                *)
(***************************************************************************)
EXTENDS Integers

CONSTANTS
    SIZE,               \* cells, from a word boundary on
    Calls               \* [routine, to, from, n]: from means nothing to memset

Routines == {"memset", "memset_word", "memset_dword", "memcpy", "memmove"}

MemoryAssumption ==
    SIZE \in Nat /\ Calls \subseteq [routine : Routines, to : Nat, from : Nat, n : Nat]

VARIABLES
    call,
    mem,                \* the cells; at first each holds its own address
    edi, esi, ecx, edx, \* the registers; ecx and edx count what is left
    step                \* where the routine is

vars == <<call, mem, edi, esi, ecx, edx, step>>

Cells == 0 .. SIZE - 1
C == <<-1, -2, -3, -4>> \* the bytes of the value to set, lowest first
Filled == [memset |-> 1, memset_word |-> 2, memset_dword |-> 4]

\* How many cells a call fills or copies: n elements of as many bytes.
Length(k) == IF k.routine \in DOMAIN Filled THEN k.n * Filled[k.routine] ELSE k.n

Fits(k) == k.to + Length(k) <= SIZE /\ k.from + Length(k) <= SIZE

\* memset() repeats the lowest byte in eax.
eax == IF call.routine = "memset" THEN <<C[1], C[1], C[1], C[1]>> ELSE C

Aligns == call.routine \in {"memset", "memcpy"}
\* Mutant: the direction is chosen the other way round.
BackwardSwapped == call.routine = "memmove" /\ call.from > call.to

\* std: from the end downwards.
Backward == call.routine = "memmove" /\ call.from < call.to

Init ==
    /\ call \in {k \in Calls : Fits(k)}
    /\ mem = [a \in Cells |-> a]
    /\ ecx = call.n /\ edx = 0
    /\ edi = IF Backward THEN call.to + call.n - 1 ELSE call.to
    /\ esi = IF Backward THEN call.from + call.n - 1 ELSE call.from
    /\ step = IF Aligns THEN "top" ELSE "aligned"

\* One stos or movs, or their like made of movb: width cells are read, then written.
Move(width) ==
    LET direction == IF Backward THEN -1 ELSE 1
        source == IF call.routine \in DOMAIN Filled THEN [i \in 0 .. width - 1 |-> eax[i + 1]]
                  ELSE [i \in 0 .. width - 1 |-> mem[esi + i]]
    IN
    /\ mem' = [a \in Cells |-> IF a \in edi .. edi + width - 1 THEN source[a - edi] ELSE mem[a]]
    /\ edi' = edi + direction * width /\ esi' = esi + direction * width

\* .memset_top, .memcpy_top
Top ==
    /\ step = "top" /\ ecx # 0 /\ edi % 4 # 0
    /\ Move(1) /\ ecx' = ecx - 1
    /\ UNCHANGED <<call, edx, step>>

\* Mutant: masked with 1, which forgets two bytes.
LeftHalf(n) == n % 2

\* andl $0x3
Left(n) == n % 4

\* .memset_aligned, .memcpy_aligned
Aligned ==
    /\ step = "top" /\ (ecx = 0 \/ edi % 4 = 0)
    /\ step' = "aligned"
    /\ ecx' = ecx \div 4 /\ edx' = Left(ecx)
    /\ UNCHANGED <<call, mem, edi, esi>>

Width ==
    CASE Aligns -> 4 [] call.routine = "memmove" -> 1 [] OTHER -> Filled[call.routine]

\* rep
Rep ==
    /\ step = "aligned" /\ ecx # 0
    /\ Move(Width) /\ ecx' = ecx - 1
    /\ UNCHANGED <<call, edx, step>>

\* .memset_bottom, .memcpy_bottom
Bottom ==
    /\ step = "aligned" /\ ecx = 0 /\ edx # 0
    /\ Move(1) /\ edx' = edx - 1
    /\ UNCHANGED <<call, ecx, step>>

Next == Top \/ Aligned \/ Rep \/ Bottom

Spec == Init /\ [][Next]_vars

-----------------------------------------------------------------------------
\* Every variable has its type.
TypeOK ==
    /\ call \in Calls /\ mem \in [Cells -> Cells \cup {C[i] : i \in 1 .. 4}]
    /\ edi \in -1 .. SIZE /\ esi \in -1 .. SIZE + SIZE
    /\ ecx \in 0 .. SIZE /\ edx \in 0 .. 3 /\ step \in {"top", "aligned"}

Done == step = "aligned" /\ ecx = 0 /\ edx = 0

Region == call.to .. call.to + Length(call) - 1

\* What the caller asked for of the cell a of the region.
Asked(a) ==
    IF call.routine \in DOMAIN Filled THEN C[((a - call.to) % Filled[call.routine]) + 1]
    ELSE call.from + a - call.to

\* When a routine returns, its region holds what was asked for and the rest of
\* memory is as it was, for every alignment, length and overlap; but memcpy() may
\* not be used to move memory up into itself.
BlockWritten ==
    Done /\ ~(call.routine = "memcpy" /\ call.to \in call.from + 1 .. call.from + call.n - 1)
    => mem = [a \in Cells |-> IF a \in Region THEN Asked(a) ELSE a]
=============================================================================
