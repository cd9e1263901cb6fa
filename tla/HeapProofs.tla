---------------------------- MODULE HeapProofs ----------------------------
(***************************************************************************)
(* kmalloc() keeps its blocks apart for every size of the heap and every   *)
(* sequence of requests.  The free header's size is of no help: after the  *)
(* second call it is 2^32 - 16.  What keeps the blocks apart is where the  *)
(* header is, behind everything returned, and that no request is refused   *)
(* for its size, so that the heap is never laid out a second time.         *)
(*                                                                         *)
(* The second part is about the routines that fill and copy the blocks,    *)
(* module Memory: the registers always account for the whole call, and the *)
(* cells written so far, a prefix of the region or in memmove() backwards  *)
(* a suffix, hold what was asked for while all others are as they were.    *)
(*                                                                         *)
(* The third part is about the buffer of grep, module Grep, for any size:  *)
(* what counts in it is always the file in front of the position, and what *)
(* is printed the lines before the next one of the buffer.                 *)
(***************************************************************************)
EXTENDS Heap, SequenceTheorems, WellFoundedInduction, TLAPS

CONSTANTS SIZE, Calls, Files, Patterns, BUFSIZE, Garbage

VARIABLES call, mem, edi, esi, ecx, edx, step,
          file, pos, s, data, last, cnt, line_start, pc, printed, behind

M == INSTANCE Memory
G == INSTANCE Grep

\* The free header is aligned, behind the blocks and in the heap, and claims
\* either what is left or nearly everything.
FreeHeader ==
    IF kmem_blocks = NULL THEN blocks = {}
    ELSE /\ kmem_blocks % 16 = 0 /\ HEADER <= kmem_blocks /\ kmem_blocks <= HEAP
         /\ \/ faulted
            \/ free_size = WRAP - HEADER
            \/ kmem_blocks <= LIMIT + HEADER /\ free_size = HEAP - kmem_blocks

Inv == TypeOK /\ FreeHeader /\ BlocksDisjoint

\* ALIGNED_SIZE() gives at least what was asked, in whole headers, and no more than
\* the largest request.
LEMMA Aligned ==
    ASSUME NEW asked \in Nat, asked # 0, asked <= LIMIT
    PROVE  /\ ALIGNED_SIZE(asked) \in Nat
           /\ ALIGNED_SIZE(asked) % 16 = 0
           /\ asked <= ALIGNED_SIZE(asked)
           /\ HEADER <= ALIGNED_SIZE(asked)
           /\ ALIGNED_SIZE(asked) <= LIMIT
           /\ LIMIT \in Nat /\ 4 * LIMIT = HEAP /\ HEADER <= LIMIT
BY HeapAssumption DEF ALIGNED_SIZE, LIMIT, HEADER

\* The size a split computes for the rest.
LEMMA Rest ==
    ASSUME NEW size \in Nat
    PROVE  RestSize(size) = WRAP - HEADER /\ RestSize(size) \in 0 .. WRAP - 1
<1>1. size - (size + HEADER) = -16
  BY DEF HEADER
<1>2. WRAP \in Nat /\ WRAP >= 64
  BY HeapAssumption
<1>3. (-16) % WRAP = WRAP - 16
  BY <1>2
<1> QED
  BY <1>1, <1>2, <1>3 DEF RestSize, HEADER

-----------------------------------------------------------------------------
\* The heap as kmalloc_init() leaves it.
LEMMA InitInv == Init => Inv
<1> SUFFICES ASSUME Init PROVE Inv
  OBVIOUS
<1>1. kmem_blocks = NULL /\ free_size = 0 /\ blocks = {} /\ faulted = FALSE
  BY DEF Init
<1>2. 0 \in 0 .. WRAP - 1
  BY HeapAssumption
<1>3. TypeOK
  BY <1>1, <1>2 DEF TypeOK
<1>4. FreeHeader
  BY <1>1 DEF FreeHeader
<1>5. BlocksDisjoint
  BY <1>1 DEF BlocksDisjoint
<1> QED
  BY <1>3, <1>4, <1>5 DEF Inv

\* A block put where the free header was, when the header moves behind it, meets
\* none of those returned before.
LEMMA NewBlock ==
    ASSUME Inv, kmem_blocks \in Nat,
           NEW asked \in Nat, asked # 0, asked <= LIMIT,
           kmem_blocks' = kmem_blocks + ALIGNED_SIZE(asked) + HEADER,
           kmem_blocks' <= HEAP,
           Return(kmem_blocks, asked)
    PROVE  BlocksDisjoint' /\ blocks' \subseteq [start : Nat, asked : Nat]
<1> DEFINE new == [start |-> kmem_blocks + HEADER, asked |-> asked]
<1>1. /\ ALIGNED_SIZE(asked) \in Nat /\ ALIGNED_SIZE(asked) % 16 = 0
      /\ asked <= ALIGNED_SIZE(asked)
  BY Aligned
<1>2. blocks' = blocks \cup {new}
  BY DEF Return
<1>3. HEAP \in Nat /\ HEADER = 16 /\ kmem_blocks # NULL
  BY HeapAssumption DEF HEADER, NULL
<1>4. kmem_blocks % 16 = 0 /\ HEADER <= kmem_blocks
  BY <1>3 DEF Inv, FreeHeader
<1>5. /\ new.start = kmem_blocks + 16 /\ new.asked = asked
      /\ End(new) = kmem_blocks + 16 + asked
      /\ new \in [start : Nat, asked : Nat]
  BY <1>3 DEF End
<1>6. \A b \in blocks : /\ b.start \in Nat /\ b.asked \in Nat /\ End(b) \in Nat
                        /\ HEADER <= b.start /\ End(b) <= kmem_blocks /\ b.start % 16 = 0
  BY DEF Inv, TypeOK, BlocksDisjoint, End
<1>7. new.start % 16 = 0
  BY <1>4, <1>5
<1>8. \A b \in blocks' : HEADER <= b.start /\ End(b) <= kmem_blocks' /\ b.start % 16 = 0
  BY <1>1, <1>2, <1>3, <1>4, <1>5, <1>6, <1>7
<1>9. \A b \in blocks : End(b) + HEADER <= new.start
  BY <1>3, <1>5, <1>6
<1>10. \A b, c \in blocks' :
          b = c \/ End(b) + HEADER <= c.start \/ End(c) + HEADER <= b.start
  BY <1>2, <1>9 DEF Inv, BlocksDisjoint
<1>11. blocks' \subseteq [start : Nat, asked : Nat]
  BY <1>2, <1>5 DEF Inv, TypeOK
<1> QED
  BY <1>8, <1>10, <1>11 DEF BlocksDisjoint, End

\* Every call of kmalloc() preserves the invariant.
LEMMA NextInv == Inv /\ [Next]_vars => Inv'
<1> SUFFICES ASSUME Inv, [Next]_vars PROVE Inv'
  OBVIOUS
<1>1. CASE UNCHANGED vars
  BY <1>1 DEF vars, Inv, TypeOK, FreeHeader, BlocksDisjoint, End
<1>2. ASSUME NEW asked \in Requests, kmalloc(asked) PROVE Inv'
  <2>1. /\ asked \in Nat /\ asked # 0 /\ asked <= LIMIT /\ ~faulted
        /\ HEAP \in Nat /\ WRAP \in Nat /\ HEAP <= WRAP /\ HEADER = 16 /\ NULL = -1
    BY <1>2, HeapAssumption DEF kmalloc, HEADER, NULL
  <2>2. /\ ALIGNED_SIZE(asked) \in Nat /\ ALIGNED_SIZE(asked) % 16 = 0
        /\ asked <= ALIGNED_SIZE(asked)
        /\ HEADER <= ALIGNED_SIZE(asked) /\ ALIGNED_SIZE(asked) <= LIMIT
        /\ LIMIT \in Nat /\ 4 * LIMIT = HEAP /\ HEADER <= LIMIT
    BY <2>1, Aligned
  <2>3. kmem_blocks # NULL =>
            /\ kmem_blocks \in Nat /\ kmem_blocks % 16 = 0 /\ kmem_blocks <= HEAP
            /\ \/ free_size = WRAP - HEADER
               \/ kmem_blocks <= LIMIT + HEADER /\ free_size = HEAP - kmem_blocks
    BY <2>1 DEF Inv, TypeOK, FreeHeader
  <2>4. kmem_blocks # NULL => free_size \in Nat /\ free_size - ALIGNED_SIZE(asked) >= HEADER
    BY <2>1, <2>2, <2>3
  <2>5. CASE kmalloc_first(asked)
    <3>1. kmem_blocks = NULL /\ blocks = {}
      BY <2>1, <2>2, <2>4, <2>5 DEF kmalloc_first, Inv, FreeHeader
    <3>2. /\ kmem_blocks' = ALIGNED_SIZE(asked) + 16 /\ kmem_blocks' \in Nat
          /\ free_size' = HEAP - kmem_blocks'
          /\ blocks' = {[start |-> 16, asked |-> asked]}
          /\ faulted' = faulted
      BY <2>1, <2>2, <2>5, <3>1 DEF kmalloc_first, Return
    <3>3. /\ kmem_blocks' <= LIMIT + HEADER /\ kmem_blocks' <= HEAP
          /\ kmem_blocks' % 16 = 0 /\ HEADER <= kmem_blocks'
      BY <2>1, <2>2, <3>2
    <3>4. TypeOK'
      <4>1. free_size' \in 0 .. WRAP - 1
        BY <2>1, <2>2, <3>2, <3>3
      <4> QED
        BY <2>1, <3>2, <4>1 DEF Inv, TypeOK
    <3>5. FreeHeader'
      BY <2>1, <3>2, <3>3 DEF FreeHeader
    <3>6. BlocksDisjoint'
      BY <2>1, <2>2, <3>2, <3>3 DEF BlocksDisjoint, End
    <3> QED
      BY <3>4, <3>5, <3>6 DEF Inv
  <2>6. CASE kmalloc_next(asked)
    <3> DEFINE next == kmem_blocks + ALIGNED_SIZE(asked) + HEADER
    <3>1. kmem_blocks # NULL /\ kmem_blocks \in Nat /\ kmem_blocks % 16 = 0
      BY <2>3, <2>6 DEF kmalloc_next
    <3>2. ~(free_size - ALIGNED_SIZE(asked) < HEADER)
      BY <2>1, <2>2, <2>4, <3>1
    <3>3. CASE next < HEAP
      <4>1. /\ kmem_blocks' = next /\ free_size' = RestSize(ALIGNED_SIZE(asked))
            /\ Return(kmem_blocks, asked) /\ faulted' = faulted
        BY <2>6, <3>2, <3>3 DEF kmalloc_next
      <4>2. /\ next \in Nat /\ next % 16 = 0 /\ HEADER <= next
        BY <2>1, <2>2, <3>1
      <4>3. free_size' = WRAP - HEADER /\ free_size' \in 0 .. WRAP - 1
        BY <2>2, <4>1, Rest
      <4>4. BlocksDisjoint' /\ blocks' \subseteq [start : Nat, asked : Nat]
        BY <2>1, <3>1, <3>3, <4>1, <4>2, NewBlock
      <4>5. TypeOK'
        BY <4>1, <4>2, <4>3, <4>4 DEF Inv, TypeOK
      <4>6. FreeHeader'
        BY <2>1, <3>3, <4>1, <4>2, <4>3 DEF FreeHeader
      <4> QED
        BY <4>4, <4>5, <4>6 DEF Inv
    <3>4. CASE ~(next < HEAP)
      <4>1. /\ faulted' = TRUE /\ free_size' = ALIGNED_SIZE(asked)
            /\ kmem_blocks' = kmem_blocks /\ blocks' = blocks
        BY <2>6, <3>2, <3>4 DEF kmalloc_next
      <4>2. free_size' \in 0 .. WRAP - 1
        BY <2>1, <2>2, <4>1
      <4>3. TypeOK'
        BY <4>1, <4>2 DEF Inv, TypeOK
      <4>4. FreeHeader' /\ BlocksDisjoint'
        BY <4>1 DEF Inv, FreeHeader, BlocksDisjoint, End
      <4> QED
        BY <4>3, <4>4 DEF Inv
    <3> QED
      BY <3>3, <3>4
  <2> QED
    BY <1>2, <2>5, <2>6 DEF kmalloc
<1> QED
  BY <1>1, <1>2 DEF Next

\* For every heap, word and set of requests: the inductive invariant.
THEOREM HeapInvariant == Spec => []Inv
BY InitInv, NextInv, PTL DEF Spec

\* kmalloc() keeps the blocks it has returned apart from each other and from every
\* header, in the heap and aligned.
THEOREM HeapBlocksDisjoint == Spec => []BlocksDisjoint
<1>1. Inv => BlocksDisjoint
  BY DEF Inv
<1> QED
  BY <1>1, HeapInvariant, PTL

-----------------------------------------------------------------------------
(* The block routines of lib.c.                                             *)

\* How far the routine has got, in cells.
Progress == IF M!Backward THEN call.to + call.n - 1 - edi ELSE edi - call.to

\* What the registers still count makes up the rest of the region.
Counted ==
    /\ ecx \in Nat /\ edx \in 0 .. 3 /\ edi \in Int /\ esi \in Int
    /\ step = "top" => M!Aligns /\ edx = 0 /\ Progress + ecx = call.n
    /\ step = "aligned" => /\ Progress + (M!Width * ecx) + edx = M!Length(call)
                           /\ M!Aligns \/ edx = 0

\* The cells already written.
Written == IF M!Backward THEN edi + 1 .. call.to + call.n - 1 ELSE call.to .. edi - 1

\* memcpy() moves memory up into itself.
Overlaps == call.routine = "memcpy" /\ call.to \in call.from + 1 .. call.from + call.n - 1

MemoryInv ==
    /\ call \in Calls /\ M!Fits(call)
    /\ step \in {"top", "aligned"}
    /\ Counted
    /\ esi - edi = call.from - call.to
    /\ Progress \in Nat
    /\ mem \in [M!Cells -> M!Cells \cup {M!C[i] : i \in 1 .. 4}]
    /\ Overlaps \/ mem = [a \in M!Cells |-> IF a \in Written THEN M!Asked(a) ELSE a]

\* How much each routine writes at once, and in all.
LEMMA Routine ==
    ASSUME M!MemoryAssumption, call \in Calls
    PROVE  /\ call.to \in Nat /\ call.from \in Nat /\ call.n \in Nat /\ SIZE \in Nat
           /\ \/ /\ call.routine = "memset" /\ call.routine \in DOMAIN M!Filled
                 /\ M!Filled[call.routine] = 1 /\ M!Width = 4
                 /\ M!Length(call) = call.n /\ M!Aligns /\ ~M!Backward
              \/ /\ call.routine = "memset_word" /\ call.routine \in DOMAIN M!Filled
                 /\ M!Filled[call.routine] = 2 /\ M!Width = 2
                 /\ M!Length(call) = 2 * call.n /\ ~M!Aligns /\ ~M!Backward
              \/ /\ call.routine = "memset_dword" /\ call.routine \in DOMAIN M!Filled
                 /\ M!Filled[call.routine] = 4 /\ M!Width = 4
                 /\ M!Length(call) = 4 * call.n /\ ~M!Aligns /\ ~M!Backward
              \/ /\ call.routine = "memcpy" /\ call.routine \notin DOMAIN M!Filled
                 /\ M!Width = 4
                 /\ M!Length(call) = call.n /\ M!Aligns /\ ~M!Backward
              \/ /\ call.routine = "memmove" /\ call.routine \notin DOMAIN M!Filled
                 /\ M!Width = 1 /\ M!Length(call) = call.n /\ ~M!Aligns
                 /\ (M!Backward <=> call.from < call.to)
  <1>1. /\ call.to \in Nat /\ call.from \in Nat /\ call.n \in Nat /\ SIZE \in Nat
        /\ call.routine \in M!Routines
    BY DEF M!MemoryAssumption
  <1>2. DOMAIN M!Filled = {"memset", "memset_word", "memset_dword"}
        /\ M!Filled["memset"] = 1 /\ M!Filled["memset_word"] = 2 /\ M!Filled["memset_dword"] = 4
    BY DEF M!Filled
  <1> HIDE DEF M!Filled
  <1>3. CASE call.routine = "memset"
    BY <1>1, <1>2, <1>3 DEF M!Width, M!Length, M!Aligns, M!Backward
  <1>4. CASE call.routine = "memset_word"
    BY <1>1, <1>2, <1>4 DEF M!Width, M!Length, M!Aligns, M!Backward
  <1>5. CASE call.routine = "memset_dword"
    BY <1>1, <1>2, <1>5 DEF M!Width, M!Length, M!Aligns, M!Backward
  <1>6. CASE call.routine = "memcpy"
    BY <1>1, <1>2, <1>6 DEF M!Width, M!Length, M!Aligns, M!Backward
  <1>7. CASE call.routine = "memmove"
    BY <1>1, <1>2, <1>7 DEF M!Width, M!Length, M!Aligns, M!Backward
  <1>8. QED
    BY <1>1, <1>3, <1>4, <1>5, <1>6, <1>7 DEF M!Routines

\* The bytes of a value repeat with its width.
LEMMA Pattern ==
    ASSUME NEW w \in {1, 2, 4}, NEW q \in Nat, NEW i \in 0 .. (w - 1)
    PROVE  (w * q + i) % w = i
  <1>1. CASE w = 1
    BY <1>1
  <1>2. CASE w = 2
    BY <1>2
  <1>3. CASE w = 4
    BY <1>3
  <1>4. QED
    BY <1>1, <1>2, <1>3

IsMultiple(p, w) == \E q \in Nat : p = w * q

\* A write of w cells that begins an element, if elements have more cells than one.
WholeElements(w) ==
    call.routine \in {"memset_word", "memset_dword"} =>
        M!Filled[call.routine] = w /\ IsMultiple(Progress, w)

\* The cells of one stos or movs get what was asked for.
LEMMA SourceIsAsked ==
    ASSUME M!MemoryAssumption, MemoryInv, ~Overlaps, NEW w \in {1, 2, 4},
           Progress + w <= M!Length(call), M!Backward => w = 1,
           WholeElements(w),
           NEW i \in 0 .. (w - 1)
    PROVE  /\ edi + i \in M!Cells
           /\ M!Asked(edi + i) = IF call.routine \in DOMAIN M!Filled THEN M!eax[i + 1] ELSE mem[esi + i]
           /\ M!Asked(edi + i) \in M!Cells \cup {M!C[j] : j \in 1 .. 4}
  <1>1. /\ call.to \in Nat /\ call.from \in Nat /\ call.n \in Nat /\ SIZE \in Nat
        /\ call.to + M!Length(call) <= SIZE /\ call.from + M!Length(call) <= SIZE
        /\ edi \in Int /\ esi \in Int /\ esi - edi = call.from - call.to /\ Progress \in Nat
        /\ M!Length(call) \in Nat /\ w \in Nat /\ i \in Nat /\ i < w
        /\ mem = [a \in M!Cells |-> IF a \in Written THEN M!Asked(a) ELSE a]
    BY Routine DEF MemoryInv, M!Fits, Counted
  <1>2. /\ edi + i >= call.to /\ edi + i < call.to + M!Length(call)
        /\ esi + i >= call.from /\ esi + i < call.from + M!Length(call)
    <2>1. CASE M!Backward
      <3>1. Progress = call.to + call.n - 1 - edi /\ w = 1 /\ M!Length(call) = call.n
        BY <2>1, Routine DEF Progress, MemoryInv
      <3>2. QED
        BY <1>1, <3>1
    <2>2. CASE ~M!Backward
      <3>1. Progress = edi - call.to
        BY <2>2 DEF Progress
      <3>2. QED
        BY <1>1, <3>1
    <2>3. QED
      BY <2>1, <2>2
  <1>3. edi + i \in M!Cells /\ esi + i \in M!Cells /\ edi + i \in Int
    <2>1. /\ SIZE \in Nat /\ edi + i \in Int /\ 0 <= edi + i /\ edi + i < SIZE
          /\ esi + i \in Int /\ 0 <= esi + i /\ esi + i < SIZE
      BY <1>1, <1>2
    <2>2. QED
      BY <2>1 DEF M!Cells
  <1>4. CASE call.routine \in DOMAIN M!Filled
    <2>1. ~M!Backward /\ Progress = edi - call.to
      BY <1>4, Routine DEF MemoryInv, Progress
    <2>2. M!Asked(edi + i) = M!C[((edi + i - call.to) % M!Filled[call.routine]) + 1]
      BY <1>1, <1>3, <1>4 DEF M!Asked
    <2>3. M!eax[i + 1] = M!C[((edi + i - call.to) % M!Filled[call.routine]) + 1]
      <3>1. CASE call.routine = "memset"
        <4>1. M!Filled[call.routine] = 1 /\ (edi + i - call.to) % 1 = 0
          BY <1>1, <1>3, <3>1, Routine DEF MemoryInv
        <4>2. M!eax = <<M!C[1], M!C[1], M!C[1], M!C[1]>>
          BY <3>1, Zenon DEF M!eax
        <4>3. i + 1 \in {1, 2, 3, 4}
          OBVIOUS
        <4>4. M!eax[i + 1] = M!C[1]
          BY <4>2, <4>3
        <4>5. QED
          BY <4>1, <4>4
      <3>2. CASE call.routine \in {"memset_word", "memset_dword"}
        <4>1. PICK q \in Nat : Progress = w * q
          BY <3>2 DEF WholeElements, IsMultiple
        <4>2. edi + i - call.to = w * q + i
          BY <1>1, <2>1, <4>1
        <4>3. (edi + i - call.to) % w = i /\ M!Filled[call.routine] = w
          BY <3>2, <4>2, Pattern DEF WholeElements
        <4>4. M!eax = M!C
          BY <3>2 DEF M!eax
        <4>5. QED
          BY <4>3, <4>4
      <3>3. QED
        BY <1>4, <3>1, <3>2, Routine DEF MemoryInv
    <2>4. M!eax[i + 1] \in {M!C[j] : j \in 1 .. 4}
      <3>1. i + 1 \in 1 .. 4
        BY <1>1
      <3>2. M!eax[i + 1] = M!C[1] \/ M!eax[i + 1] = M!C[i + 1]
        <4>1. i + 1 \in {1, 2, 3, 4}
          BY <3>1
        <4>2. QED
          BY <4>1 DEF M!eax
      <3>3. QED
        BY <3>1, <3>2
    <2>5. QED
      BY <1>3, <1>4, <2>2, <2>3, <2>4
  <1>5. CASE call.routine \notin DOMAIN M!Filled
    <2>1. M!Asked(edi + i) = call.from + (edi + i) - call.to
      BY <1>5 DEF M!Asked
    <2>2. M!Asked(edi + i) = esi + i
      BY <1>1, <1>3, <2>1
    <2>3. esi + i \notin Written
      <3>1. CASE call.routine = "memcpy"
        <4>1. ~M!Backward /\ M!Length(call) = call.n /\ Progress = edi - call.to
          BY <3>1, Routine DEF MemoryInv, Progress
        <4>2. ~(call.to \in call.from + 1 .. call.from + call.n - 1)
          BY <3>1 DEF Overlaps
        <4>3. QED
          BY <1>1, <1>2, <4>1, <4>2 DEF Written
      <3>2. CASE call.routine = "memmove"
        <4>1. M!Length(call) = call.n /\ (M!Backward <=> call.from < call.to)
          BY <3>2, Routine DEF MemoryInv
        <4>2. CASE M!Backward
          <5>1. i = 0 /\ call.from < call.to
            BY <1>1, <4>1, <4>2
          <5>2. QED
            BY <1>1, <4>2, <5>1 DEF Written
        <4>3. CASE ~M!Backward
          <5>1. ~(call.from < call.to) /\ Progress = edi - call.to
            BY <4>1, <4>3 DEF Progress
          <5>2. QED
            BY <1>1, <4>3, <5>1 DEF Written
        <4>4. QED
          BY <4>2, <4>3
      <3>3. QED
        BY <1>5, <3>1, <3>2, Routine DEF MemoryInv
    <2>4. mem[esi + i] = esi + i
      BY <1>1, <1>3, <2>3
    <2>5. QED
      BY <1>3, <1>5, <2>2, <2>4
  <1>6. QED
    BY <1>4, <1>5

\* One stos or movs brings the routine on by its width.
LEMMA MovePreserves ==
    ASSUME M!MemoryAssumption, MemoryInv, NEW w \in {1, 2, 4}, M!Move(w), call' = call,
           Progress + w <= M!Length(call), M!Backward => w = 1,
           WholeElements(w)
    PROVE  /\ edi' \in Int /\ esi' \in Int /\ esi' - edi' = call.from - call.to
           /\ Progress' = Progress + w
           /\ mem' \in [M!Cells -> M!Cells \cup {M!C[i] : i \in 1 .. 4}]
           /\ Overlaps \/ mem' = [a \in M!Cells |-> IF a \in Written' THEN M!Asked(a) ELSE a]
  <1>1. /\ call.to \in Nat /\ call.from \in Nat /\ call.n \in Nat /\ SIZE \in Nat
        /\ call.to + M!Length(call) <= SIZE /\ call.from + M!Length(call) <= SIZE
        /\ edi \in Int /\ esi \in Int /\ esi - edi = call.from - call.to /\ Progress \in Nat
        /\ M!Length(call) \in Nat /\ w \in Nat /\ w > 0
        /\ mem \in [M!Cells -> M!Cells \cup {M!C[i] : i \in 1 .. 4}]
    BY Routine DEF MemoryInv, M!Fits, Counted
  <1>2. /\ edi' = IF M!Backward THEN edi - w ELSE edi + w
        /\ esi' = IF M!Backward THEN esi - w ELSE esi + w
    <2>1. CASE M!Backward
      BY <1>1, <2>1 DEF M!Move
    <2>2. CASE ~M!Backward
      BY <1>1, <2>2 DEF M!Move
    <2>3. QED
      BY <2>1, <2>2
  <1>3. M!Backward' = M!Backward
    BY DEF M!Backward
  <1>4. edi' \in Int /\ esi' \in Int /\ esi' - edi' = call.from - call.to
    BY <1>1, <1>2
  <1>5. Progress' = Progress + w
    BY <1>1, <1>2, <1>3 DEF Progress
  <1> DEFINE put(a) == IF call.routine \in DOMAIN M!Filled THEN M!eax[a - edi + 1]
                       ELSE mem[esi + (a - edi)]
  <1>6. mem' = [a \in M!Cells |-> IF a \in edi .. edi + w - 1 THEN put(a) ELSE mem[a]]
    <2>1. CASE call.routine \in DOMAIN M!Filled
      <3>1. mem' = [a \in M!Cells |-> IF a \in edi .. edi + w - 1
                                    THEN [i \in 0 .. w - 1 |-> M!eax[i + 1]][a - edi] ELSE mem[a]]
        BY <2>1 DEF M!Move
      <3>2. \A a \in edi .. edi + w - 1 : [i \in 0 .. w - 1 |-> M!eax[i + 1]][a - edi] = put(a)
        <4> TAKE a \in edi .. edi + w - 1
        <4>1. a - edi \in 0 .. w - 1
          BY <1>1
        <4>2. QED
          BY <2>1, <4>1
      <3>3. QED
        BY <3>1, <3>2
    <2>2. CASE call.routine \notin DOMAIN M!Filled
      <3>1. mem' = [a \in M!Cells |-> IF a \in edi .. edi + w - 1
                                    THEN [i \in 0 .. w - 1 |-> mem[esi + i]][a - edi] ELSE mem[a]]
        BY <2>2 DEF M!Move
      <3>2. \A a \in edi .. edi + w - 1 : [i \in 0 .. w - 1 |-> mem[esi + i]][a - edi] = put(a)
        <4> TAKE a \in edi .. edi + w - 1
        <4>1. a - edi \in 0 .. w - 1
          BY <1>1
        <4>2. QED
          BY <2>2, <4>1
      <3>3. QED
        BY <3>1, <3>2
    <2>3. QED
      BY <2>1, <2>2
  <1>7. CASE Overlaps
    <2>1. \A a \in edi .. edi + w - 1 : put(a) \in M!Cells \cup {M!C[i] : i \in 1 .. 4}
      <3>1. SUFFICES ASSUME NEW a \in edi .. edi + w - 1
                     PROVE  mem[esi + (a - edi)] \in M!Cells \cup {M!C[i] : i \in 1 .. 4}
        BY <1>7, Routine DEF Overlaps, MemoryInv
      <3>2. ~M!Backward /\ Progress = edi - call.to
        BY <1>7, Routine DEF Overlaps, MemoryInv, Progress
      <3>3. esi + (a - edi) \in M!Cells
        <4>1. a \in Int /\ edi <= a /\ a <= edi + w - 1
          BY <1>1
        <4>2. call.from <= esi + (a - edi) /\ esi + (a - edi) < call.from + M!Length(call)
          BY <1>1, <3>2, <4>1
        <4>3. esi + (a - edi) \in Int /\ 0 <= esi + (a - edi) /\ esi + (a - edi) < SIZE
          BY <1>1, <4>1, <4>2
        <4> DEFINE j == esi + (a - edi)
        <4> HIDE DEF j
        <4>4. j \in Int /\ 0 <= j /\ j < SIZE
          BY <4>3 DEF j
        <4>5. j \in M!Cells
          BY <1>1, <4>4 DEF M!Cells
        <4>6. QED
          BY <4>5 DEF j
      <3>4. QED
        BY <1>1, <3>3
    <2> HIDE DEF put
    <2>2. mem' \in [M!Cells -> M!Cells \cup {M!C[i] : i \in 1 .. 4}]
      BY <1>1, <1>6, <2>1
    <2>3. QED
      BY <1>4, <1>5, <1>7, <2>2
  <1>8. CASE ~Overlaps
    <2>1. \A a \in edi .. edi + w - 1 :
              a \in M!Cells /\ put(a) = M!Asked(a) /\ put(a) \in M!Cells \cup {M!C[i] : i \in 1 .. 4}
      <3>1. SUFFICES ASSUME NEW a \in edi .. edi + w - 1
                     PROVE  /\ a \in M!Cells /\ put(a) = M!Asked(a)
                            /\ put(a) \in M!Cells \cup {M!C[i] : i \in 1 .. 4}
        OBVIOUS
      <3> DEFINE i == a - edi
      <3>2. i \in 0 .. (w - 1) /\ edi + i = a
        <4>1. edi \in Int /\ w \in Nat
          BY <1>1
        <4>2. QED
          BY <4>1
      <3> HIDE DEF i
      <3>3. /\ edi + i \in M!Cells
            /\ M!Asked(edi + i) = IF call.routine \in DOMAIN M!Filled THEN M!eax[i + 1] ELSE mem[esi + i]
            /\ M!Asked(edi + i) \in M!Cells \cup {M!C[j] : j \in 1 .. 4}
        BY <1>8, <3>2, SourceIsAsked
      <3>4. put(a) = M!Asked(a)
        BY <3>2, <3>3 DEF i
      <3>5. QED
        BY <3>2, <3>3, <3>4
    <2>2. mem = [a \in M!Cells |-> IF a \in Written THEN M!Asked(a) ELSE a]
      BY <1>8 DEF MemoryInv
    <2>3. \A a \in M!Cells : a \in Written' <=> a \in Written \/ a \in edi .. edi + w - 1
      <3>1. M!Cells \subseteq Int
        BY <1>1 DEF M!Cells
      <3>2. CASE M!Backward
        <4>1. w = 1 /\ Progress = call.to + call.n - 1 - edi /\ M!Length(call) = call.n
          BY <3>2, Routine DEF Progress, MemoryInv
        <4>2. Written = edi + 1 .. call.to + call.n - 1 /\ Written' = edi .. call.to + call.n - 1
          BY <1>1, <1>2, <1>3, <3>2, <4>1 DEF Written
        <4>3. SUFFICES ASSUME NEW a \in Int
                       PROVE  a \in edi .. call.to + call.n - 1 <=>
                                  a \in edi + 1 .. call.to + call.n - 1 \/ a \in edi .. edi
          <5>1. edi + w - 1 = edi
            BY <1>1, <4>1
          <5>2. QED
            BY <3>1, <4>2, <5>1
        <4>4. edi <= call.to + call.n - 1
          BY <1>1, <4>1
        <4>5. QED
          BY <1>1, <4>4
      <3>3. CASE ~M!Backward
        <4>1. Written = call.to .. edi - 1 /\ Written' = call.to .. edi + w - 1
              /\ Progress = edi - call.to
          BY <1>1, <1>2, <1>3, <3>3 DEF Written, Progress
        <4>2. SUFFICES ASSUME NEW a \in Int
                       PROVE  a \in call.to .. edi + w - 1 <=>
                                  a \in call.to .. edi - 1 \/ a \in edi .. edi + w - 1
          BY <3>1, <4>1
        <4>3. call.to <= edi
          <5>1. call.to \in Int /\ edi \in Int /\ edi - call.to \in Nat
            BY <1>1, <4>1
          <5>2. QED
            BY <5>1
        <4>4. QED
          BY <1>1, <4>3
      <3>4. QED
        BY <3>2, <3>3
    <2> HIDE DEF put
    <2>4. mem' \in [M!Cells -> M!Cells \cup {M!C[i] : i \in 1 .. 4}]
      BY <1>1, <1>6, <2>1
    <2>5. mem' = [a \in M!Cells |-> IF a \in Written' THEN M!Asked(a) ELSE a]
      BY <1>6, <2>1, <2>2, <2>3
    <2>6. QED
      BY <1>4, <1>5, <2>4, <2>5
  <1>9. QED
    BY <1>7, <1>8

\* What depends on the call alone stays.
LEMMA CallStays ==
    ASSUME call' = call
    PROVE  /\ Overlaps' = Overlaps /\ M!Width' = M!Width /\ M!Aligns' = M!Aligns
           /\ \A a : M!Asked(a)' = M!Asked(a)
           /\ M!Length(call)' = M!Length(call) /\ M!Fits(call)' = M!Fits(call)
  BY DEF Overlaps, M!Width, M!Aligns, M!Asked, M!Length, M!Fits

\* A step that writes preserves the invariant, if the registers count it.
LEMMA WritePreserves ==
    ASSUME M!MemoryAssumption, MemoryInv, NEW w \in {1, 2, 4}, M!Move(w),
           UNCHANGED <<call, step>>,
           Progress + w <= M!Length(call), M!Backward => w = 1, WholeElements(w),
           (Progress' = Progress + w /\ edi' \in Int /\ esi' \in Int) => Counted'
    PROVE  MemoryInv'
  <1>1. call' = call /\ step' = step /\ w \in Nat
    OBVIOUS
  <1>2. /\ edi' \in Int /\ esi' \in Int /\ esi' - edi' = call.from - call.to
        /\ Progress' = Progress + w
        /\ mem' \in [M!Cells -> M!Cells \cup {M!C[i] : i \in 1 .. 4}]
        /\ Overlaps \/ mem' = [a \in M!Cells |-> IF a \in Written' THEN M!Asked(a) ELSE a]
    BY <1>1, MovePreserves
  <1>3. Counted'
    BY <1>2
  <1>4. Progress' \in Nat
    BY <1>1, <1>2 DEF MemoryInv
  <1>5. (Overlaps \/ mem = [a \in M!Cells |-> IF a \in Written THEN M!Asked(a) ELSE a])'
    <2>1. \A a : M!Asked(a)' = M!Asked(a)
      BY <1>1, CallStays
    <2>2. Overlaps' = Overlaps
      BY <1>1, CallStays
    <2>3. QED
      BY <1>2, <2>1, <2>2
  <1>6. (call \in Calls /\ M!Fits(call) /\ step \in {"top", "aligned"})'
    BY <1>1, CallStays DEF MemoryInv
  <1>7. QED
    BY <1>1, <1>2, <1>3, <1>4, <1>5, <1>6 DEF MemoryInv

\* Byte by byte up to the first aligned cell.
LEMMA TopPreserves ==
    ASSUME M!MemoryAssumption, MemoryInv, M!Top
    PROVE  MemoryInv'
  <1>1. /\ step = "top" /\ ecx # 0 /\ M!Move(1) /\ ecx' = ecx - 1
        /\ UNCHANGED <<call, edx, step>>
    BY DEF M!Top
  <1>2. /\ ecx \in Nat /\ edx = 0 /\ M!Aligns /\ Progress + ecx = call.n /\ Progress \in Nat
        /\ M!Length(call) = call.n /\ ~M!Backward /\ call.n \in Nat
    BY <1>1, Routine DEF MemoryInv, Counted
  <1>3. WholeElements(1)
    BY <1>2 DEF WholeElements, M!Aligns
  <1>4. Progress + 1 <= M!Length(call)
    BY <1>1, <1>2
  <1>5. ASSUME Progress' = Progress + 1, edi' \in Int, esi' \in Int
        PROVE  Counted'
    <2>1. ecx' \in Nat /\ Progress' + ecx' = call.n
      BY <1>1, <1>2, <1>5
    <2>2. M!Aligns'
      BY <1>1, <1>2, CallStays
    <2>3. QED
      BY <1>1, <1>2, <1>5, <2>1, <2>2 DEF Counted
  <1>6. QED
    BY <1>1, <1>2, <1>3, <1>4, <1>5, WritePreserves

\* The rest is divided into words and bytes.
LEMMA AlignedPreserves ==
    ASSUME M!MemoryAssumption, MemoryInv, M!Aligned
    PROVE  MemoryInv'
  <1>1. /\ step = "top" /\ step' = "aligned" /\ ecx' = ecx \div 4 /\ edx' = ecx % 4
        /\ UNCHANGED <<call, mem, edi, esi>>
    BY DEF M!Aligned, M!Left
  <1>2. /\ ecx \in Nat /\ edx = 0 /\ M!Aligns /\ Progress + ecx = call.n /\ Progress \in Nat
        /\ M!Length(call) = call.n /\ M!Width = 4 /\ call.n \in Nat
    BY <1>1, Routine DEF MemoryInv, Counted
  <1>3. Progress' = Progress /\ Written' = Written
    BY <1>1 DEF Progress, Written, M!Backward
  <1>4. ecx' \in Nat /\ edx' \in 0 .. 3 /\ Progress + 4 * ecx' + edx' = M!Length(call)
    BY <1>1, <1>2
  <1>5. Counted'
    <2>1. M!Width' = 4 /\ M!Aligns' /\ M!Length(call)' = M!Length(call)
      BY <1>1, <1>2, CallStays
    <2>2. QED
      BY <1>1, <1>3, <1>4, <2>1 DEF MemoryInv, Counted
  <1>6. (Overlaps \/ mem = [a \in M!Cells |-> IF a \in Written THEN M!Asked(a) ELSE a])'
    <2>1. (\A a : M!Asked(a)' = M!Asked(a)) /\ Overlaps' = Overlaps
      BY <1>1, CallStays
    <2>2. QED
      BY <1>1, <1>3, <2>1 DEF MemoryInv
  <1>7. QED
    BY <1>1, <1>3, <1>5, <1>6, CallStays DEF MemoryInv

\* Writing one element more of c that are left.
LEMMA Element ==
    ASSUME NEW w \in {1, 2, 4}, NEW p \in Nat, NEW c \in Nat, NEW e \in 0 .. 3, NEW l,
           c # 0, p + (w * c) + e = l
    PROVE  p + w <= l /\ p + w + (w * (c - 1)) + e = l
  <1>1. CASE w = 1
    BY <1>1
  <1>2. CASE w = 2
    BY <1>2
  <1>3. CASE w = 4
    BY <1>3
  <1>4. QED
    BY <1>1, <1>2, <1>3

\* With c elements left of n, whole elements are written.
LEMMA ElementsWritten ==
    ASSUME NEW w \in {2, 4}, NEW p \in Nat, NEW c \in Nat, NEW n \in Nat,
           NEW e, NEW l, e = 0, l = w * n, p + (w * c) + e = l
    PROVE  IsMultiple(p, w)
  <1>1. n - c \in Nat /\ p = w * (n - c)
    <2>1. CASE w = 2
      BY <2>1
    <2>2. CASE w = 4
      BY <2>2
    <2>3. QED
      BY <2>1, <2>2
  <1>2. QED
    BY <1>1 DEF IsMultiple

\* rep counts elements.
LEMMA RepPreserves ==
    ASSUME M!MemoryAssumption, MemoryInv, M!Rep
    PROVE  MemoryInv'
  <1>1. /\ step = "aligned" /\ ecx # 0 /\ M!Move(M!Width) /\ ecx' = ecx - 1
        /\ UNCHANGED <<call, edx, step>>
    BY DEF M!Rep
  <1>2. /\ ecx \in Nat /\ edx \in 0 .. 3 /\ Progress \in Nat /\ call.n \in Nat
        /\ Progress + (M!Width * ecx) + edx = M!Length(call)
        /\ M!Aligns \/ edx = 0
    BY <1>1, Routine DEF MemoryInv, Counted
  <1>3. M!Width \in {1, 2, 4} /\ (M!Backward => M!Width = 1)
    BY Routine DEF MemoryInv
  <1>4. /\ Progress + M!Width <= M!Length(call)
        /\ Progress + M!Width + (M!Width * (ecx - 1)) + edx = M!Length(call)
    BY <1>1, <1>2, <1>3, Element
  <1>5. Progress + M!Width <= M!Length(call)
    BY <1>4
  <1>6. WholeElements(M!Width)
    <2>1. CASE call.routine = "memset_word"
      <3>1. /\ M!Filled[call.routine] = 2 /\ M!Width = 2 /\ M!Length(call) = 2 * call.n /\ edx = 0
        BY <1>2, <2>1, Routine DEF MemoryInv
      <3>2. M!Width \in {2, 4} /\ M!Length(call) = M!Width * call.n
        BY <3>1
      <3>3. IsMultiple(Progress, M!Width)
        BY <1>2, <3>1, <3>2, ElementsWritten
      <3>4. QED
        BY <3>1, <3>3 DEF WholeElements
    <2>2. CASE call.routine = "memset_dword"
      <3>1. /\ M!Filled[call.routine] = 4 /\ M!Width = 4 /\ M!Length(call) = 4 * call.n /\ edx = 0
        BY <1>2, <2>2, Routine DEF MemoryInv
      <3>2. M!Width \in {2, 4} /\ M!Length(call) = M!Width * call.n
        BY <3>1
      <3>3. IsMultiple(Progress, M!Width)
        BY <1>2, <3>1, <3>2, ElementsWritten
      <3>4. QED
        BY <3>1, <3>3 DEF WholeElements
    <2>3. QED
      BY <2>1, <2>2 DEF WholeElements
  <1>7. ASSUME Progress' = Progress + M!Width, edi' \in Int, esi' \in Int
        PROVE  Counted'
    <2>1. ecx' \in Nat /\ Progress' + (M!Width * ecx') + edx = M!Length(call)
      BY <1>1, <1>2, <1>4, <1>7
    <2>2. M!Aligns' = M!Aligns /\ M!Width' = M!Width /\ M!Length(call)' = M!Length(call)
      BY <1>1, CallStays
    <2>3. QED
      BY <1>1, <1>2, <1>7, <2>1, <2>2 DEF Counted
  <1>8. QED
    BY <1>1, <1>3, <1>5, <1>6, <1>7, WritePreserves

\* The bytes behind the last whole word.
LEMMA BottomPreserves ==
    ASSUME M!MemoryAssumption, MemoryInv, M!Bottom
    PROVE  MemoryInv'
  <1>1. /\ step = "aligned" /\ ecx = 0 /\ edx # 0 /\ M!Move(1) /\ edx' = edx - 1
        /\ UNCHANGED <<call, ecx, step>>
    BY DEF M!Bottom
  <1>2. /\ edx \in 0 .. 3 /\ M!Aligns /\ Progress + edx = call.n /\ Progress \in Nat
        /\ M!Length(call) = call.n /\ ~M!Backward /\ call.n \in Nat /\ M!Width = 4
    BY <1>1, Routine DEF MemoryInv, Counted
  <1>3. WholeElements(1)
    BY <1>2 DEF WholeElements, M!Aligns
  <1>4. Progress + 1 <= M!Length(call)
    BY <1>1, <1>2
  <1>5. ASSUME Progress' = Progress + 1, edi' \in Int, esi' \in Int
        PROVE  Counted'
    <2>1. edx' \in 0 .. 3 /\ Progress' + edx' = call.n
      BY <1>1, <1>2, <1>5
    <2>2. M!Aligns' /\ M!Width' = 4 /\ M!Length(call)' = call.n
      BY <1>1, <1>2, CallStays
    <2>3. QED
      BY <1>1, <1>2, <1>5, <2>1, <2>2 DEF Counted
  <1>6. QED
    BY <1>1, <1>2, <1>3, <1>4, <1>5, WritePreserves

\* A call begins with nothing written.
LEMMA InitMemory ==
    M!MemoryAssumption /\ M!Init => MemoryInv
  <1> SUFFICES ASSUME M!MemoryAssumption, M!Init PROVE MemoryInv
    OBVIOUS
  <1>1. /\ call \in Calls /\ M!Fits(call) /\ mem = [a \in M!Cells |-> a] /\ ecx = call.n /\ edx = 0
        /\ edi = IF M!Backward THEN call.to + call.n - 1 ELSE call.to
        /\ esi = IF M!Backward THEN call.from + call.n - 1 ELSE call.from
        /\ step = IF M!Aligns THEN "top" ELSE "aligned"
    BY DEF M!Init
  <1>2. /\ call.to \in Nat /\ call.from \in Nat /\ call.n \in Nat
        /\ M!Aligns => M!Length(call) = call.n
        /\ ~M!Aligns => M!Length(call) = M!Width * call.n
    <2>1. CASE call.routine \in {"memset", "memcpy"}
      BY <1>1, <2>1, Routine
    <2>2. CASE call.routine \in {"memset_word", "memset_dword", "memmove"}
      BY <1>1, <2>2, Routine
    <2>3. QED
      BY <1>1, <2>1, <2>2, Routine
  <1>3. /\ Progress = 0 /\ esi - edi = call.from - call.to /\ edi \in Int /\ esi \in Int
        /\ Written = {}
    <2>1. CASE M!Backward
      BY <1>1, <1>2, <2>1 DEF Progress, Written
    <2>2. CASE ~M!Backward
      BY <1>1, <1>2, <2>2 DEF Progress, Written
    <2>3. QED
      BY <2>1, <2>2
  <1>4. Counted
    <2>1. CASE M!Aligns
      BY <1>1, <1>2, <1>3, <2>1 DEF Counted
    <2>2. CASE ~M!Aligns
      <3>1. M!Length(call) = M!Width * call.n /\ M!Width \in Nat
        BY <1>1, <1>2, <2>2, Routine
      <3>2. M!Width * call.n \in Nat
        BY <1>2, <3>1
      <3>3. QED
        BY <1>1, <1>2, <1>3, <2>2, <3>1, <3>2 DEF Counted
    <2>3. QED
      BY <2>1, <2>2
  <1>5. QED
    BY <1>1, <1>3, <1>4 DEF MemoryInv

\* Every step preserves the invariant.
LEMMA NextMemory ==
    M!MemoryAssumption /\ MemoryInv /\ [M!Next]_M!vars => MemoryInv'
  <1> SUFFICES ASSUME M!MemoryAssumption, MemoryInv, [M!Next]_M!vars PROVE MemoryInv'
    OBVIOUS
  <1>1. CASE M!Next
    BY <1>1, TopPreserves, AlignedPreserves, RepPreserves, BottomPreserves DEF M!Next
  <1>2. CASE UNCHANGED M!vars
    BY <1>2 DEF M!vars, MemoryInv, Counted, Progress, Written, M!Backward, M!Aligns, M!Width, M!Length,
                M!Fits, Overlaps, M!Asked
  <1>3. QED
    BY <1>1, <1>2

\* The registers stay within the memory, and one cell in front of it and behind it.
LEMMA MemoryTypes == ASSUME M!MemoryAssumption, MemoryInv PROVE M!TypeOK
  <1>1. /\ call \in Calls /\ step \in {"top", "aligned"} /\ Progress \in Nat
        /\ esi - edi = call.from - call.to /\ Counted /\ M!Fits(call)
        /\ mem \in [M!Cells -> M!Cells \cup {M!C[i] : i \in 1 .. 4}]
    BY DEF MemoryInv
  <1> DEFINE L == M!Length(call)
             W == M!Width
  <1>2. /\ call.to \in Nat /\ call.from \in Nat /\ call.n \in Nat /\ SIZE \in Nat
        /\ L \in Nat /\ W \in {1, 2, 4} /\ call.n <= L
        /\ (M!Aligns => L = call.n) /\ (M!Backward => L = call.n /\ ~M!Aligns)
    BY <1>1, Routine
  <1>3. /\ ecx \in Nat /\ edx \in 0 .. 3 /\ edi \in Int /\ esi \in Int
        /\ step = "top" => M!Aligns /\ edx = 0 /\ Progress + ecx = call.n
        /\ step = "aligned" => Progress + (W * ecx) + edx = L
    BY <1>1 DEF Counted
  <1>4. call.to + L <= SIZE /\ call.from + L <= SIZE
    BY <1>1 DEF M!Fits
  <1> HIDE DEF L, W
  <1>5. W * ecx >= ecx /\ W * ecx \in Nat
    <2>1. CASE W = 1
      BY <1>3, <2>1
    <2>2. CASE W = 2
      BY <1>3, <2>2
    <2>3. CASE W = 4
      BY <1>3, <2>3
    <2>4. QED
      BY <1>2, <2>1, <2>2, <2>3
  <1>6. Progress + ecx <= L
    <2>1. CASE step = "top"
      BY <1>1, <1>2, <1>3, <2>1
    <2>2. CASE step = "aligned"
      <3>1. Progress + (W * ecx) + edx = L /\ edx \in 0 .. 3
        BY <1>3, <2>2
      <3>2. PICK x \in Nat : x = W * ecx
        BY <1>5
      <3>3. Progress + x + edx = L /\ x >= ecx
        BY <1>5, <3>1, <3>2
      <3>4. QED
        BY <1>1, <1>2, <1>3, <3>1, <3>3
    <2>3. QED
      BY <1>1, <2>1, <2>2
  <1>7. Progress <= L /\ ecx \in 0 .. SIZE
    BY <1>1, <1>2, <1>3, <1>4, <1>6
  <1>8. edi \in -1 .. SIZE /\ esi \in -1 .. SIZE + SIZE
    <2>1. CASE M!Backward
      <3>1. Progress = call.to + call.n - 1 - edi /\ L = call.n
        BY <1>2, <2>1 DEF Progress
      <3>2. QED
        BY <1>1, <1>2, <1>3, <1>4, <1>7, <3>1
    <2>2. CASE ~M!Backward
      <3>1. Progress = edi - call.to
        BY <2>2 DEF Progress
      <3>2. QED
        BY <1>1, <1>2, <1>3, <1>4, <1>7, <3>1
    <2>3. QED
      BY <2>1, <2>2
  <1>9. QED
    BY <1>1, <1>3, <1>7, <1>8 DEF M!TypeOK

\* When memset(), memset_word(), memset_dword(), memcpy() and memmove() return, every
\* cell of the region holds what was asked for and no other cell has changed, for
\* every size of memory and every call that fits it, whatever its alignment, length
\* and overlap; memcpy() up into its own source excepted.  Every variable keeps its
\* type.
THEOREM BlocksWritten ==
    ASSUME M!MemoryAssumption PROVE M!Spec => [](M!TypeOK /\ M!BlockWritten)
  <1>1. MemoryInv => M!BlockWritten
    <2> SUFFICES ASSUME MemoryInv, M!Done, ~Overlaps
                 PROVE  mem = [a \in M!Cells |-> IF a \in M!Region THEN M!Asked(a) ELSE a]
      BY DEF M!BlockWritten, Overlaps
    <2>1. /\ M!Length(call) \in Nat /\ Progress = M!Length(call) /\ call.to \in Nat /\ call.n \in Nat
          /\ edi \in Int
      BY Routine DEF M!Done, MemoryInv, Counted
    <2>2. Written = M!Region
      <3>1. CASE M!Backward
        <4>1. M!Length(call) = call.n /\ edi = call.to - 1
          BY <2>1, <3>1, Routine DEF MemoryInv, Progress
        <4>2. QED
          BY <2>1, <3>1, <4>1 DEF Written, M!Region
      <3>2. CASE ~M!Backward
        <4>1. edi = call.to + M!Length(call)
          BY <2>1, <3>2 DEF Progress
        <4>2. QED
          BY <2>1, <3>2, <4>1 DEF Written, M!Region
      <3>3. QED
        BY <3>1, <3>2
    <2>3. QED
      BY <2>2 DEF MemoryInv
  <1>2. QED
    BY <1>1, InitMemory, NextMemory, MemoryTypes, PTL DEF M!Spec

-----------------------------------------------------------------------------
\* A set of natural numbers has a least member.
LEMMA LeastMember ==
    ASSUME NEW S, S \subseteq Nat, S # {}
    PROVE  \E x \in S : \A y \in S : x <= y
  <1>1. PICK x \in S : \A y \in S : ~(<<y, x>> \in OpToRel(<, Nat))
    BY NatLessThanWellFounded, WFMin, Zenon
  <1>2. \A y \in S : y < x => <<y, x>> \in OpToRel(<, Nat)
    BY DEF OpToRel
  <1>3. \A y \in S : ~(y < x)
    BY <1>1, <1>2
  <1>4. x \in Nat /\ \A y \in S : y \in Nat
    OBVIOUS
  <1>5. QED
    BY <1>3, <1>4

\* Induction, for a set of natural numbers.
LEMMA AllFrom ==
    ASSUME NEW S, NEW m \in Nat, m \in S, \A n \in Nat : n >= m /\ n \in S => n + 1 \in S
    PROVE  \A n \in Nat : n >= m => n \in S
  <1> DEFINE N == {n \in Nat : n >= m /\ n \notin S}
  <1>1. ASSUME N # {} PROVE FALSE
    <2>1. PICK n \in N : \A k \in N : n <= k
      <3>1. N \subseteq Nat
        OBVIOUS
      <3> HIDE DEF N
      <3>2. QED
        BY <1>1, <3>1, LeastMember
    <2>2. n # m /\ n - 1 \in Nat /\ n - 1 >= m /\ n - 1 \notin N
      BY <2>1
    <2>3. QED
      BY <2>1, <2>2
  <1>2. QED
    BY <1>1

-----------------------------------------------------------------------------
(* grep.  Lines of the file.                                                *)

\* The line that starts at i reaches to j.
Reaches(i, j) ==
    /\ j \in i - 1 .. Len(file)
    /\ j = Len(file) \/ file[j + 1] = G!NEWLINE
    /\ \A k \in i .. j : file[k] # G!NEWLINE

\* There is only one such j,
LEMMA LineIs ==
    ASSUME file \in Seq(STRING), NEW i \in Nat, NEW j, Reaches(i, j)
    PROVE  G!LineAt(file, i) = SubSeq(file, i, j)
  <1> DEFINE P(k) == /\ k = Len(file) \/ file[k + 1] = G!NEWLINE
                     /\ \A m \in i .. k : file[m] # G!NEWLINE
             end == CHOOSE k \in i - 1 .. Len(file) : P(k)
  <1>1. j \in i - 1 .. Len(file) /\ P(j)
    BY DEF Reaches
  <1>2. end \in i - 1 .. Len(file) /\ P(end)
    <2> HIDE DEF P
    <2>1. QED
      BY <1>1
  <1>3. Len(file) \in Nat
    OBVIOUS
  <1>4. end \in Int /\ j \in Int
    BY <1>1, <1>2, <1>3
  <1> HIDE DEF end
  <1>5. ~(j < end)
    <2>1. SUFFICES ASSUME j < end PROVE FALSE
      OBVIOUS
    <2>2. j + 1 \in i .. end /\ j # Len(file)
      BY <1>1, <1>2, <1>3, <1>4, <2>1
    <2>3. QED
      BY <1>1, <1>2, <2>2
  <1>6. ~(end < j)
    <2>1. SUFFICES ASSUME end < j PROVE FALSE
      OBVIOUS
    <2>2. end + 1 \in i .. j /\ end # Len(file)
      BY <1>1, <1>2, <1>3, <1>4, <2>1
    <2>3. QED
      BY <1>1, <1>2, <2>2
  <1>7. end = j
    BY <1>4, <1>5, <1>6
  <1>8. G!LineAt(file, i) = SubSeq(file, i, end)
    BY Zenon DEF G!LineAt, end
  <1>9. QED
    BY <1>7, <1>8

\* and every line has an end.
LEMMA LineReaches ==
    ASSUME file \in Seq(STRING), NEW i \in 1 .. Len(file) + 1
    PROVE  \E j : Reaches(i, j)
  <1> DEFINE S == {k \in i - 1 .. Len(file) : k = Len(file) \/ file[k + 1] = G!NEWLINE}
  <1>1. Len(file) \in Nat
    OBVIOUS
  <1>2. Len(file) \in S /\ S \subseteq Nat
    BY <1>1
  <1>3. PICK j \in S : \A k \in S : j <= k
    <2> HIDE DEF S
    <2>1. QED
      BY <1>2, LeastMember
  <1>4. \A k \in i .. j : file[k] # G!NEWLINE
    <2> TAKE k \in i .. j
    <2> DEFINE p == k - 1
    <2>1. p \in i - 1 .. Len(file) /\ ~(j <= p) /\ p + 1 = k
      BY <1>1, <1>3
    <2>2. p \notin S
      <3> HIDE DEF S, p
      <3>1. QED
        BY <1>3, <2>1
    <2>3. ~(file[p + 1] = G!NEWLINE)
      <3> HIDE DEF p
      <3>1. QED
        BY <2>1, <2>2
    <2>4. QED
      BY <2>1, <2>3
  <1>5. Reaches(i, j)
    BY <1>3, <1>4 DEF Reaches
  <1>6. QED
    BY <1>5

\* The lines with the pattern, start by start.
LEMMA LinesFromIs ==
    ASSUME file \in Seq(STRING)
    PROVE  /\ G!LinesFrom(file, s)[0] = <<>>
           /\ \A n \in 1 .. Len(file) :
                G!LinesFrom(file, s)[n] =
                    IF n \in G!Starts(file) /\ G!HasPattern(G!LineAt(file, n), s)
                    THEN Append(G!LinesFrom(file, s)[n - 1], G!LineAt(file, n))
                    ELSE G!LinesFrom(file, s)[n - 1]
  <1> DEFINE L == Len(file)
             Entry(g, n) == IF n = 0 THEN <<>>
                            ELSE IF n \in G!Starts(file) /\ G!HasPattern(G!LineAt(file, n), s)
                            THEN Append(g[n - 1], G!LineAt(file, n)) ELSE g[n - 1]
             Solves(g, n) == g = [k \in 0 .. n |-> Entry(g, k)]
             S == {n \in Nat : \E g : Solves(g, n)}
  <1>1. 0 \in S
    <2> DEFINE g == [k \in 0 .. 0 |-> <<>>]
    <2>1. \A k \in 0 .. 0 : k = 0
      OBVIOUS
    <2>2. Solves(g, 0)
      BY <2>1, Zenon
    <2>3. QED
      BY <2>2
  <1>2. ASSUME NEW n \in Nat, n \in S PROVE n + 1 \in S
    <2>1. PICK g : Solves(g, n)
      BY <1>2
    <2> DEFINE h == [k \in 0 .. n + 1 |-> IF k \in 0 .. n THEN g[k] ELSE Entry(g, k)]
    <2>2. \A k \in 0 .. n : g[k] = Entry(g, k)
      <3> HIDE DEF Entry
      <3>1. QED
        BY <2>1
    <2>3. \A k \in 0 .. n : k \in 0 .. n + 1 /\ (k # 0 => k - 1 \in 0 .. n)
      OBVIOUS
    <2>4. \A k \in 0 .. n : h[k] = g[k]
      BY <2>3
    <2>5. ASSUME NEW k \in 0 .. n + 1 PROVE h[k] = Entry(h, k)
      <3>1. CASE k \in 0 .. n
        <4>1. Entry(h, k) = Entry(g, k)
          <5> HIDE DEF h
          <5>1. QED
            BY <2>3, <2>4, <3>1, Zenon
        <4>2. QED
          BY <2>2, <2>4, <3>1, <4>1, Zenon
      <3>2. CASE k \notin 0 .. n
        <4>1. k - 1 \in 0 .. n
          BY <3>2
        <4>2. h[k] = Entry(g, k)
          <5> HIDE DEF Entry
          <5>1. QED
            BY <3>2
        <4>3. h[k - 1] = g[k - 1]
          BY <2>4, <4>1, Zenon
        <4> HIDE DEF h
        <4>4. Entry(h, k) = Entry(g, k)
          BY <4>3, Zenon
        <4>5. QED
          BY <4>2, <4>4, Zenon
      <3>3. QED
        BY <3>1, <3>2
    <2>6. Solves(h, n + 1)
      <3> HIDE DEF Entry
      <3>1. QED
        BY <2>5
    <2>7. n + 1 \in Nat
      OBVIOUS
    <2> HIDE DEF h, Solves
    <2>8. QED
      BY <2>6, <2>7
  <1>3. \E g : Solves(g, L)
    <2>1. \A n \in Nat : n >= 0 => n \in S
      <3> HIDE DEF S
      <3>1. QED
        BY <1>1, <1>2, AllFrom
    <2>2. L \in Nat /\ L >= 0
      OBVIOUS
    <2> HIDE DEF L, Solves
    <2>3. L \in S
      BY <2>1, <2>2
    <2>4. QED
      BY <2>3
  <1>4. Solves(G!LinesFrom(file, s), L)
    <2>1. G!LinesFrom(file, s) = CHOOSE g : Solves(g, L)
      BY Zenon DEF G!LinesFrom
    <2> HIDE DEF Solves
    <2>2. QED
      BY <1>3, <2>1, Zenon
  <1>5. \A k \in 0 .. L : G!LinesFrom(file, s)[k] = Entry(G!LinesFrom(file, s), k)
    <2> HIDE DEF Entry
    <2>1. QED
      BY <1>4
  <1>6. 0 \in 0 .. L /\ \A k \in 1 .. L : k \in 0 .. L /\ k # 0
    OBVIOUS
  <1> HIDE DEF L
  <1>7. QED
    BY <1>5, <1>6, Zenon DEF L

\* Characters that start no line add nothing.
LEMMA NoStarts ==
    ASSUME file \in Seq(STRING), NEW m \in Nat, NEW n \in Nat, m <= n, n <= Len(file),
           \A k \in m + 1 .. n : k \notin G!Starts(file)
    PROVE  G!LinesFrom(file, s)[n] = G!LinesFrom(file, s)[m]
  <1> DEFINE S == {k \in Nat : k <= n => G!LinesFrom(file, s)[k] = G!LinesFrom(file, s)[m]}
  <1>1. m \in S
    OBVIOUS
  <1>2. ASSUME NEW k \in Nat, k >= m /\ k \in S PROVE k + 1 \in S
    <2>1. SUFFICES ASSUME k + 1 <= n PROVE G!LinesFrom(file, s)[k + 1] = G!LinesFrom(file, s)[m]
      OBVIOUS
    <2>2. k + 1 \in 1 .. Len(file) /\ k + 1 \in m + 1 .. n /\ k + 1 - 1 = k /\ k <= n
      BY <1>2, <2>1
    <2>3. G!LinesFrom(file, s)[k + 1] = G!LinesFrom(file, s)[k + 1 - 1]
      BY <2>2, LinesFromIs
    <2>4. QED
      BY <1>2, <2>2, <2>3
  <1>3. \A k \in Nat : k >= m => k \in S
    <2> HIDE DEF S
    <2>1. QED
      BY <1>1, <1>2, AllFrom
  <1>4. QED
    BY <1>3

-----------------------------------------------------------------------------
(* The buffer as a window on the file.                                      *)

\* The character of the file where the next line of the buffer starts.
At == pos - last + 1 + (IF pc = "scan" THEN line_start ELSE 0)

\* Between two lines: at a start, at the end, or at a newline the line was cut before.
Fresh == At = 1 \/ At = Len(file) + 1 \/ file[At - 1] = G!NEWLINE \/ file[At] = G!NEWLINE

\* The numbers.
Places ==
    /\ file \in Files /\ s \in Patterns /\ pos \in 0 .. Len(file) /\ last \in 0 .. BUFSIZE
    /\ last <= pos
    /\ cnt \in 0 .. BUFSIZE /\ pc \in {"read", "scan", "done"}
    /\ pc = "read" => last < BUFSIZE
    /\ line_start \in 0 .. BUFSIZE + 1 /\ (pc = "scan" => line_start <= last)
    /\ pc = "done" => last = 0 /\ pos = Len(file)

\* What counts in the buffer is the file in front of the position.
Window ==
    /\ DOMAIN data = 0 .. BUFSIZE
    /\ \A i \in 0 .. last - 1 :
            (pc = "scan" => i >= line_start) => data[i] = file[pos - last + i + 1]

\* Only at the end of the file a read returns less than there is room for.
ReadOn == pc = "scan" => (cnt = 0 \/ last < BUFSIZE => pos = Len(file))

\* The byte behind the buffer becomes no newline.
Guarded == behind # G!NEWLINE => data[BUFSIZE] # G!NEWLINE

\* What is printed are the lines before the next one.
Found ==
    G!LinesFit /\ behind # G!NEWLINE => Fresh /\ printed = G!LinesFrom(file, s)[At - 1]

SearchInv == Places /\ Window /\ ReadOn /\ Guarded /\ Found

\* What the assumption says of this file and this pattern.
LEMMA Texts ==
    ASSUME G!GrepAssumption, Places
    PROVE  /\ file \in Seq(STRING) /\ Len(file) \in Nat
           /\ \A i \in 1 .. Len(file) : file[i] # G!NUL
           /\ s \in Seq(STRING) /\ Len(s) \in Nat \ {0} /\ \A i \in 1 .. Len(s) : s[i] # G!NUL
           /\ BUFSIZE \in Nat \ {0} /\ G!NUL # G!NEWLINE
  <1>1. file \in Files /\ s \in Patterns
    BY DEF Places
  <1>2. /\ file \in Seq(STRING) /\ \A i \in DOMAIN file : file[i] # G!NUL
        /\ s \in Seq(STRING) /\ s # <<>> /\ \A i \in DOMAIN s : s[i] # G!NUL
    BY <1>1 DEF G!GrepAssumption
  <1>3. BUFSIZE \in Nat \ {0} /\ G!NUL # G!NEWLINE
    BY DEF G!GrepAssumption, G!NUL, G!NEWLINE
  <1>4. QED
    BY <1>2, <1>3

\* Where the line in the buffer ends.
LEMMA LineEnd ==
    ASSUME last \in Nat, line_start \in 0 .. last
    PROVE  /\ G!line_end \in line_start .. last
           /\ G!line_end = last \/ data[G!line_end] = G!NEWLINE
           /\ \A k \in line_start .. G!line_end - 1 : data[k] # G!NEWLINE
  <1> DEFINE S == {i \in line_start .. last : i = last \/ data[i] = G!NEWLINE}
             P(i) == /\ i = last \/ data[i] = G!NEWLINE
                     /\ \A j \in line_start .. i - 1 : data[j] # G!NEWLINE
  <1>1. last \in S /\ S \subseteq Nat
    OBVIOUS
  <1>2. PICK e \in S : \A k \in S : e <= k
    <2> HIDE DEF S
    <2>1. QED
      BY <1>1, LeastMember
  <1>3. \A k \in line_start .. e - 1 : data[k] # G!NEWLINE
    <2> TAKE k \in line_start .. e - 1
    <2>1. k \in line_start .. last /\ ~(e <= k)
      BY <1>2
    <2>2. k \notin S
      <3> HIDE DEF S
      <3>1. QED
        BY <1>2, <2>1
    <2>3. QED
      BY <2>1, <2>2
  <1>4. e \in line_start .. last /\ P(e)
    BY <1>2, <1>3
  <1>5. G!line_end \in line_start .. last /\ P(G!line_end)
    <2>1. G!line_end = CHOOSE i \in line_start .. last : P(i)
      BY Zenon DEF G!line_end
    <2> HIDE DEF P
    <2>2. QED
      BY <1>4, <2>1
  <1>6. QED
    BY <1>5

\* The line the buffer holds, and that it holds no NUL before its end.
LEMMA InBuffer ==
    ASSUME G!GrepAssumption, SearchInv, pc = "scan"
    PROVE  /\ line_start \in 0 .. last /\ G!line_end \in line_start .. last
           /\ last \in 0 .. BUFSIZE
           /\ pos - last \in Nat /\ pos <= Len(file) /\ pos \in Nat
           /\ At = pos - last + 1 + line_start
           /\ G!line_end = last \/ data[G!line_end] = G!NEWLINE
           /\ \A k \in line_start .. last - 1 : data[k] = file[pos - last + k + 1]
           /\ \A k \in line_start .. G!line_end - 1 : data[k] # G!NEWLINE /\ G!Ended[k] = data[k]
           /\ G!Ended[G!line_end] = G!NUL /\ DOMAIN G!Ended = 0 .. BUFSIZE
           /\ \A k \in 0 .. BUFSIZE : k # G!line_end => G!Ended[k] = data[k]
           /\ G!FirstNul = G!line_end
  <1>1. /\ line_start \in 0 .. last /\ last \in 0 .. BUFSIZE /\ BUFSIZE \in Nat
        /\ pos \in 0 .. Len(file) /\ Len(file) \in Nat /\ last <= pos
        /\ DOMAIN data = 0 .. BUFSIZE
    BY Texts DEF SearchInv, Places, Window
  <1>2. /\ G!line_end \in line_start .. last
        /\ G!line_end = last \/ data[G!line_end] = G!NEWLINE
        /\ \A k \in line_start .. G!line_end - 1 : data[k] # G!NEWLINE
    BY <1>1, LineEnd
  <1>3. /\ line_start \in Int /\ G!line_end \in Int /\ last \in Int /\ 0 <= line_start
        /\ line_start <= G!line_end /\ G!line_end <= last /\ last <= BUFSIZE
    BY <1>1, <1>2
  <1>4. \A k \in line_start .. last - 1 : data[k] = file[pos - last + k + 1]
    BY <1>1 DEF SearchInv, Window
  <1>5. G!Ended = [data EXCEPT ![G!line_end] = G!NUL]
    BY Zenon DEF G!Ended
  <1>6. /\ G!Ended[G!line_end] = G!NUL /\ DOMAIN G!Ended = 0 .. BUFSIZE
        /\ \A k \in 0 .. BUFSIZE : k # G!line_end => G!Ended[k] = data[k]
    BY <1>1, <1>2, <1>5
  <1>7. \A k \in line_start .. G!line_end - 1 :
            k \in 0 .. BUFSIZE /\ k # G!line_end /\ k \in line_start .. last - 1
    BY <1>3, <1>1
  <1>8. \A k \in line_start .. G!line_end - 1 : G!Ended[k] # G!NUL
    <2> TAKE k \in line_start .. G!line_end - 1
    <2>1. G!Ended[k] = file[pos - last + k + 1]
      BY <1>4, <1>6, <1>7
    <2>2. pos - last + k + 1 \in 1 .. Len(file)
      BY <1>1, <1>2
    <2>3. QED
      BY <2>1, <2>2, Texts DEF SearchInv
  <1>9. G!FirstNul = G!line_end
    <2> DEFINE P(i) == G!Ended[i] = G!NUL /\ \A j \in line_start .. i - 1 : G!Ended[j] # G!NUL
               f == CHOOSE i \in line_start .. G!line_end : P(i)
    <2>1. G!FirstNul = f
      BY Zenon DEF G!FirstNul
    <2>2. G!line_end \in line_start .. G!line_end /\ P(G!line_end)
      BY <1>1, <1>2, <1>6, <1>8
    <2>3. f \in line_start .. G!line_end /\ P(f)
      <3> HIDE DEF P
      <3>1. QED
        BY <2>2
    <2> HIDE DEF f
    <2>4. ~(f < G!line_end)
      <3>1. f < G!line_end => f \in line_start .. G!line_end - 1
        BY <1>1, <1>2, <2>3
      <3>2. QED
        BY <1>8, <2>3, <3>1
    <2>5. f = G!line_end
      BY <1>3, <2>3, <2>4
    <2>6. QED
      BY <2>1, <2>5
  <1>10. At = pos - last + 1 + line_start
    BY DEF At
  <1>11. pos - last \in Nat /\ pos <= Len(file) /\ pos \in Nat
    BY <1>1
  <1>12. \A k \in line_start .. G!line_end - 1 : data[k] # G!NEWLINE /\ G!Ended[k] = data[k]
    BY <1>2, <1>6, <1>7, Zenon
  <1>13. QED
    BY <1>1, <1>2, <1>4, <1>6, <1>9, <1>10, <1>11, <1>12, Zenon

\* Where the line the buffer holds ends in the file.
LineEndInFile == pos - last + G!line_end

\* The line in the buffer is that part of the file.
LEMMA InFile ==
    ASSUME G!GrepAssumption, SearchInv, pc = "scan"
    PROVE  /\ At \in 1 .. Len(file) + 1 /\ LineEndInFile \in At - 1 .. Len(file)
           /\ LineEndInFile - At + 1 = G!line_end - line_start
           /\ \A k \in At .. LineEndInFile : file[k] # G!NEWLINE
           /\ \A k \in line_start .. G!line_end - 1 : G!Ended[k] = file[At + (k - line_start)]
           /\ G!line_end < last =>
                LineEndInFile < Len(file) /\ file[LineEndInFile + 1] = G!NEWLINE
  <1> DEFINE j == LineEndInFile
  <1>1. /\ line_start \in Int /\ G!line_end \in Int /\ last \in Int /\ pos \in Int
        /\ Len(file) \in Int
        /\ 0 <= line_start /\ line_start <= G!line_end /\ G!line_end <= last /\ last <= pos
        /\ pos <= Len(file)
        /\ At = pos - last + 1 + line_start /\ j = pos - last + G!line_end
    BY InBuffer, Texts DEF LineEndInFile, SearchInv
  <1>2. /\ \A k \in line_start .. last - 1 : data[k] = file[pos - last + k + 1]
        /\ \A k \in line_start .. G!line_end - 1 : data[k] # G!NEWLINE /\ G!Ended[k] = data[k]
        /\ G!line_end < last => data[G!line_end] = G!NEWLINE
    BY <1>1, InBuffer
  <1> HIDE DEF j
  <1>3. ASSUME NEW k \in line_start .. G!line_end - 1
        PROVE  /\ data[k] = file[At + (k - line_start)] /\ data[k] # G!NEWLINE
               /\ G!Ended[k] = data[k]
    <2>1. k \in line_start .. last - 1 /\ pos - last + k + 1 = At + (k - line_start)
      BY <1>1
    <2>2. data[k] = file[pos - last + k + 1]
      BY <1>2, <2>1
    <2>3. QED
      BY <1>2, <2>1, <2>2
  <1>4. ASSUME NEW k \in At .. j PROVE file[k] # G!NEWLINE
    <2>1. /\ line_start + (k - At) \in line_start .. G!line_end - 1
          /\ At + ((line_start + (k - At)) - line_start) = k
      BY <1>1
    <2>2. QED
      BY <1>3, <2>1
  <1>5. G!line_end < last => j < Len(file) /\ file[j + 1] = G!NEWLINE
    <2>1. SUFFICES ASSUME G!line_end < last PROVE j < Len(file) /\ file[j + 1] = G!NEWLINE
      OBVIOUS
    <2>2. /\ j < Len(file) /\ j + 1 = pos - last + G!line_end + 1
          /\ G!line_end \in line_start .. last - 1
      BY <1>1, <2>1
    <2>3. QED
      BY <1>2, <2>1, <2>2
  <1>6. /\ At \in 1 .. Len(file) + 1 /\ j \in At - 1 .. Len(file)
        /\ j - At + 1 = G!line_end - line_start
    BY <1>1
  <1>7. QED
    BY <1>3, <1>4, <1>5, <1>6 DEF j

\* It is all of it, where every line fits the buffer.
LEMMA WholeLine ==
    ASSUME G!GrepAssumption, SearchInv, pc = "scan", ~G!CutOff, G!LinesFit, behind # G!NEWLINE,
           At \in G!Starts(file)
    PROVE  Reaches(At, LineEndInFile)
  <1> DEFINE j == LineEndInFile
  <1>1. /\ At \in 1 .. Len(file) + 1 /\ j \in At - 1 .. Len(file)
        /\ \A k \in At .. j : file[k] # G!NEWLINE
        /\ G!line_end < last => j < Len(file) /\ file[j + 1] = G!NEWLINE
        /\ Len(file) \in Nat
    BY InFile, Texts DEF SearchInv
  <1>2. /\ line_start \in 0 .. last /\ G!line_end \in line_start .. last
        /\ last \in 0 .. BUFSIZE /\ BUFSIZE \in Nat
        /\ pos \in Nat /\ pos <= Len(file)
        /\ j = pos - last + G!line_end /\ At = pos - last + 1 + line_start
    BY InBuffer, Texts DEF LineEndInFile, SearchInv
  <1>3. SUFFICES j = Len(file) \/ file[j + 1] = G!NEWLINE
    BY <1>1 DEF Reaches
  <1> HIDE DEF j
  <1>4. CASE G!line_end < last
    BY <1>1, <1>4
  <1>5. CASE G!line_end = last /\ (cnt = 0 \/ last < BUFSIZE)
    BY <1>2, <1>5 DEF SearchInv, ReadOn
  <1>6. CASE G!line_end = last /\ cnt # 0 /\ last = BUFSIZE
    <2>1. data[G!line_end] # G!NEWLINE
      BY <1>6 DEF SearchInv, Guarded
    <2>2. line_start = 0
      BY <1>6, <2>1 DEF G!CutOff
    <2>3. j = pos /\ At = pos - BUFSIZE + 1
      BY <1>2, <1>6, <2>2
    <2>4. PICK e : Reaches(At, e)
      BY <1>1, LineReaches, Texts DEF SearchInv
    <2>5. /\ e \in At - 1 .. Len(file)
          /\ e = Len(file) \/ file[e + 1] = G!NEWLINE
      BY <2>4 DEF Reaches
    <2>6. Len(G!LineAt(file, At)) = e - At + 1
      <3>1. G!LineAt(file, At) = SubSeq(file, At, e)
        BY <1>1, <2>4, LineIs, Texts DEF SearchInv
      <3>2. QED
        BY <1>1, <2>5, <3>1, SubSeqProperties, Texts DEF SearchInv
    <2>7. Len(G!LineAt(file, At)) <= BUFSIZE
      BY DEF G!LinesFit
    <2>8. e <= j
      BY <1>1, <1>2, <2>3, <2>5, <2>6, <2>7
    <2>9. ~(e < j)
      <3>1. e < j => e + 1 \in At .. j /\ e # Len(file)
        BY <1>1, <2>5
      <3>2. QED
        BY <1>1, <2>5, <3>1
    <2>10. e = j
      BY <1>1, <2>5, <2>8, <2>9
    <2>11. QED
      BY <2>5, <2>10
  <1>7. QED
    BY <1>2, <1>4, <1>5, <1>6

\* Where a line that ends where the buffer's does has the pattern, the comparisons find it,
\* and what is printed is the line.
LEMMA PatternFound ==
    ASSUME G!GrepAssumption, SearchInv, pc = "scan"
    PROVE  LET line == SubSeq(file, At, LineEndInFile)
           IN  /\ G!HasPattern(line, s)
                    <=> \E check \in line_start .. G!line_end - 1 : G!MatchesAt(check)
               /\ line = [i \in 1 .. G!FirstNul - line_start |-> G!Ended[line_start + i - 1]]
  <1> DEFINE line == SubSeq(file, At, LineEndInFile)
             n == G!line_end - line_start
  <1>1. /\ line_start \in Int /\ G!line_end \in Int /\ 0 <= line_start
        /\ line_start <= G!line_end
        /\ G!line_end <= BUFSIZE /\ BUFSIZE \in Nat /\ n \in Nat /\ n = G!line_end - line_start
    <2>1. line_start \in 0 .. last /\ G!line_end \in line_start .. last /\ last \in 0 .. BUFSIZE
      BY InBuffer
    <2>2. BUFSIZE \in Nat
      BY Texts DEF SearchInv
    <2>3. QED
      BY <2>1, <2>2
  <1>2. /\ At \in Int /\ LineEndInFile \in Int /\ LineEndInFile - At + 1 = n
        /\ LineEndInFile >= At - 1
        /\ 1 <= At /\ LineEndInFile <= Len(file) /\ Len(file) \in Nat
    BY InFile, Texts DEF SearchInv
  <1>3. \A k \in line_start .. G!line_end - 1 : G!Ended[k] = file[At + (k - line_start)]
    BY InFile
  <1>4. /\ file \in Seq(STRING) /\ s \in Seq(STRING) /\ Len(s) \in Nat \ {0}
        /\ \A i \in 1 .. Len(s) : s[i] # G!NUL
    BY Texts DEF SearchInv
  <1> HIDE DEF n
  <1>5. /\ line \in Seq(STRING) /\ Len(line) = n
        /\ \A i \in 1 .. n : line[i] = file[At + i - 1]
    <2>1. \A i \in At .. LineEndInFile : file[i] \in STRING
      BY <1>2, <1>4
    <2>2. /\ line \in Seq(STRING)
          /\ Len(line) = IF At <= LineEndInFile THEN LineEndInFile - At + 1 ELSE 0
          /\ \A i \in 1 .. LineEndInFile - At + 1 : line[i] = file[At + i - 1]
      BY <1>2, <2>1, SubSeqProperties
    <2>3. QED
      BY <1>2, <2>2
  <1> HIDE DEF line
  <1>6. \A i \in 1 .. n : line[i] = G!Ended[line_start + i - 1]
    <2> TAKE i \in 1 .. n
    <2>1. /\ line_start + i - 1 \in line_start .. G!line_end - 1
          /\ At + ((line_start + i - 1) - line_start) = At + i - 1
      BY <1>1, <1>2
    <2>2. QED
      BY <1>3, <1>5, <2>1
  <1>7. line = [i \in 1 .. G!FirstNul - line_start |-> G!Ended[line_start + i - 1]]
    <2>1. G!FirstNul - line_start = n
      BY <1>1, InBuffer
    <2>2. line = [i \in 1 .. n |-> line[i]]
      BY <1>5
    <2>3. QED
      BY <1>6, <2>1, <2>2
  <1>8. ASSUME NEW k \in 0 .. n - Len(s), SubSeq(line, k + 1, k + Len(s)) = s
        PROVE  \E check \in line_start .. G!line_end - 1 : G!MatchesAt(check)
    <2> DEFINE check == line_start + k
    <2>1. check \in line_start .. G!line_end - 1 /\ k \in Nat /\ k + Len(s) <= n
      BY <1>1, <1>4
    <2>2. \A i \in 1 .. Len(s) : s[i] = line[k + i]
      <3>1. \A i \in k + 1 .. k + Len(s) : line[i] \in STRING
        BY <1>5, <2>1
      <3>2. \A i \in 1 .. (k + Len(s)) - (k + 1) + 1 :
                SubSeq(line, k + 1, k + Len(s))[i] = line[(k + 1) + i - 1]
        BY <1>4, <2>1, <3>1, SubSeqProperties
      <3>3. (k + Len(s)) - (k + 1) + 1 = Len(s) /\ \A i \in 1 .. Len(s) : (k + 1) + i - 1 = k + i
        BY <1>4, <2>1
      <3>4. QED
        BY <1>8, <3>2, <3>3
    <2>3. ASSUME NEW i \in 1 .. Len(s)
          PROVE  check + i - 1 <= G!line_end /\ G!Ended[check + i - 1] = s[i]
      <3>1. /\ k + i \in 1 .. n /\ line_start + (k + i) - 1 = check + i - 1
            /\ check + i - 1 <= G!line_end
        BY <1>1, <1>4, <2>1
      <3>2. QED
        BY <1>6, <2>2, <3>1
    <2>4. DOMAIN s = 1 .. Len(s)
      BY <1>4
    <2> HIDE DEF check
    <2>5. G!MatchesAt(check)
      BY <2>3, <2>4 DEF G!MatchesAt
    <2>6. QED
      BY <2>1, <2>5
  <1>9. ASSUME NEW check \in line_start .. G!line_end - 1, G!MatchesAt(check)
        PROVE  \E k \in 0 .. n - Len(s) : SubSeq(line, k + 1, k + Len(s)) = s
    <2> DEFINE k == check - line_start
    <2>1. \A i \in 1 .. Len(s) : check + i - 1 <= G!line_end /\ G!Ended[check + i - 1] = s[i]
      BY <1>4, <1>9 DEF G!MatchesAt
    <2>2. \A i \in 1 .. Len(s) : check + i - 1 # G!line_end
      <3>1. G!Ended[G!line_end] = G!NUL
        BY InBuffer
      <3>2. QED
        BY <1>4, <2>1, <3>1
    <2>3. check + Len(s) - 1 < G!line_end
      <3>1. Len(s) \in 1 .. Len(s)
        BY <1>4
      <3>2. QED
        BY <1>1, <1>4, <2>1, <2>2, <3>1
    <2>4. k \in 0 .. n - Len(s) /\ k \in Nat /\ k + Len(s) <= n /\ check = line_start + k
      BY <1>1, <1>4, <2>3
    <2> HIDE DEF k
    <2>5. \A i \in 1 .. Len(s) : line[k + i] = s[i]
      <3> TAKE i \in 1 .. Len(s)
      <3>1. k + i \in 1 .. n /\ line_start + (k + i) - 1 = check + i - 1
        BY <1>1, <1>4, <2>4
      <3>2. QED
        BY <1>6, <2>1, <3>1
    <2>6. SubSeq(line, k + 1, k + Len(s)) = s
      <3> DEFINE part == SubSeq(line, k + 1, k + Len(s))
      <3>1. \A i \in k + 1 .. k + Len(s) : line[i] \in STRING
        BY <1>5, <2>4
      <3>2. /\ part \in Seq(STRING)
            /\ Len(part) = IF k + 1 <= k + Len(s) THEN (k + Len(s)) - (k + 1) + 1 ELSE 0
            /\ \A i \in 1 .. (k + Len(s)) - (k + 1) + 1 : part[i] = line[(k + 1) + i - 1]
        BY <1>4, <2>4, <3>1, SubSeqProperties
      <3>3. /\ (k + Len(s)) - (k + 1) + 1 = Len(s) /\ k + 1 <= k + Len(s)
            /\ \A i \in 1 .. Len(s) : (k + 1) + i - 1 = k + i
        BY <1>4, <2>4
      <3> HIDE DEF part
      <3>4. Len(part) = Len(s) /\ \A i \in 1 .. Len(s) : part[i] = s[i]
        BY <2>5, <3>2, <3>3
      <3>5. part = s
        BY <1>4, <3>2, <3>4, SeqEqual
      <3>6. QED
        BY <3>5 DEF part
    <2>7. QED
      BY <2>4, <2>6
  <1>10. G!HasPattern(line, s) <=> \E k \in 0 .. n - Len(s) : SubSeq(line, k + 1, k + Len(s)) = s
    BY <1>5 DEF G!HasPattern
  <1>11. G!HasPattern(line, s) <=> \E check \in line_start .. G!line_end - 1 : G!MatchesAt(check)
    BY <1>8, <1>9, <1>10
  <1>12. QED
    BY <1>7, <1>11 DEF line

\* It holds at first,
LEMMA SearchInvInit ==
    ASSUME G!GrepAssumption, G!Init
    PROVE  SearchInv
  <1>1. /\ file \in Files /\ s \in Patterns /\ pos = 0 /\ last = 0 /\ cnt = 0
        /\ line_start = 0 /\ pc = "read"
        /\ printed = <<>> /\ behind = data[BUFSIZE]
    BY DEF G!Init
  <1>2. DOMAIN data = 0 .. BUFSIZE
    BY DEF G!Init, G!Indices
  <1>3. BUFSIZE \in Nat \ {0} /\ file \in Seq(STRING) /\ Len(file) \in Nat
    <2>1. BUFSIZE \in Nat \ {0} /\ Files \subseteq Seq(STRING)
      BY DEF G!GrepAssumption
    <2>2. QED
      BY <1>1, <2>1
  <1>4. Places
    BY <1>1, <1>3 DEF Places
  <1>5. Window /\ ReadOn /\ Guarded
    BY <1>1, <1>2 DEF Window, ReadOn, Guarded
  <1>6. At = 1
    BY <1>1 DEF At
  <1>7. Found
    BY <1>1, <1>3, <1>6, LinesFromIs DEF Found, Fresh
  <1>8. QED
    BY <1>4, <1>5, <1>7 DEF SearchInv

\* a read() adds to the window,
LEMMA SearchInvRead ==
    ASSUME G!GrepAssumption, SearchInv, G!read
    PROVE  SearchInv'
  <1> DEFINE n == IF BUFSIZE - last < Len(file) - pos THEN BUFSIZE - last ELSE Len(file) - pos
  <1>1. /\ pc = "read" /\ pc' = "scan" /\ cnt' = n /\ pos' = pos + n /\ last' = last + n
        /\ data' = [i \in 0 .. BUFSIZE |->
                        IF i \in last .. last + n - 1 THEN file[pos + i - last + 1] ELSE data[i]]
        /\ line_start' = 0 /\ file' = file /\ s' = s /\ printed' = printed /\ behind' = behind
    BY DEF G!read, G!Indices
  <1>2. /\ pos \in Nat /\ pos <= Len(file) /\ last \in Nat /\ last < BUFSIZE /\ last <= pos
        /\ Len(file) \in Nat /\ BUFSIZE \in Nat /\ file \in Files /\ s \in Patterns
    BY <1>1, Texts DEF SearchInv, Places
  <1>3. /\ n \in Nat /\ last + n <= BUFSIZE /\ pos + n <= Len(file)
        /\ n = 0 \/ last + n < BUFSIZE => pos + n = Len(file)
    BY <1>2
  <1> HIDE DEF n
  <1>4. Places'
    BY <1>1, <1>2, <1>3 DEF Places
  <1>5. Window'
    <2>1. \A i \in 0 .. last - 1 : data[i] = file[pos - last + i + 1]
      BY <1>1 DEF SearchInv, Window
    <2>2. ASSUME NEW i \in 0 .. last + n - 1
          PROVE  data'[i] = file[(pos + n) - (last + n) + i + 1]
      <3>1. i \in 0 .. BUFSIZE /\ (pos + n) - (last + n) + i + 1 = pos - last + i + 1
        BY <1>2, <1>3
      <3>2. CASE i \in 0 .. last - 1
        BY <1>1, <1>2, <2>1, <3>1, <3>2
      <3>3. CASE i \in last .. last + n - 1
        <4>1. pos + i - last + 1 = pos - last + i + 1
          BY <1>2, <3>3
        <4>2. QED
          BY <1>1, <3>1, <3>3, <4>1
      <3>4. QED
        BY <1>2, <1>3, <3>2, <3>3
    <2>3. ASSUME NEW i \in 0 .. last' - 1 PROVE data'[i] = file'[pos' - last' + i + 1]
      <3>1. i \in 0 .. last + n - 1 /\ pos' - last' + i + 1 = (pos + n) - (last + n) + i + 1
        BY <1>1, <1>2, <1>3
      <3>2. QED
        BY <1>1, <2>2, <3>1
    <2>4. DOMAIN data' = 0 .. BUFSIZE
      BY <1>1
    <2>5. QED
      BY <2>3, <2>4 DEF Window
  <1>6. ReadOn'
    BY <1>1, <1>3 DEF ReadOn
  <1>7. Guarded'
    <2>1. data'[BUFSIZE] = data[BUFSIZE]
      <3>1. BUFSIZE \in 0 .. BUFSIZE /\ BUFSIZE \notin last .. last + n - 1
        BY <1>2, <1>3
      <3>2. QED
        BY <1>1, <3>1
    <2>2. QED
      BY <1>1, <2>1 DEF SearchInv, Guarded
  <1>8. Found'
    <2>1. At' = At
      BY <1>1, <1>2, <1>3 DEF At
    <2>2. (G!LinesFit)' <=> G!LinesFit
      BY <1>1 DEF G!LinesFit
    <2>3. QED
      BY <1>1, <2>1, <2>2 DEF SearchInv, Found, Fresh
  <1>9. QED
    BY <1>4, <1>5, <1>6, <1>7, <1>8 DEF SearchInv

\* moving what is left to the front shifts it,
LEMMA SearchInvMove ==
    ASSUME G!GrepAssumption, SearchInv, G!MoveToFront
    PROVE  SearchInv'
  <1> DEFINE e == G!line_end
             kept == last - line_start
  <1>1. /\ pc = "scan" /\ pc' = "read" /\ last' = kept /\ line_start' = line_start
        /\ data' = [i \in 0 .. BUFSIZE |->
                        IF i <= e - line_start THEN G!Ended[line_start + i] ELSE G!Ended[i]]
        /\ file' = file /\ pos' = pos /\ s' = s /\ cnt' = cnt /\ printed' = printed
        /\ behind' = behind
    BY InBuffer DEF G!MoveToFront, G!Indices, G!Kept
  <1>2. e = last /\ line_start # 0
    BY <1>1, InBuffer DEF G!MoveToFront, G!CutOff
  <1>3. /\ pos \in Nat /\ pos <= Len(file) /\ last \in Nat /\ last <= BUFSIZE /\ last <= pos
        /\ line_start \in 1 .. last
        /\ Len(file) \in Nat /\ BUFSIZE \in Nat /\ file \in Files /\ s \in Patterns
        /\ cnt \in 0 .. BUFSIZE
    BY <1>1, <1>2, Texts DEF SearchInv, Places
  <1> HIDE DEF e
  <1>4. Places'
    BY <1>1, <1>3 DEF Places
  <1>5. Window'
    <2>1. /\ \A i \in line_start .. last - 1 : data[i] = file[pos - last + i + 1]
          /\ \A i \in line_start .. last - 1 : G!Ended[i] = data[i]
      BY <1>1, <1>2, InBuffer DEF e
    <2>2. ASSUME NEW i \in 0 .. kept - 1
          PROVE  data'[i] = file[pos - kept + i + 1]
      <3>1. /\ i \in 0 .. BUFSIZE /\ i <= e - line_start
            /\ line_start + i \in line_start .. last - 1
            /\ pos - last + (line_start + i) + 1 = pos - kept + i + 1
        BY <1>2, <1>3
      <3>2. QED
        BY <1>1, <2>1, <3>1
    <2>3. QED
      BY <1>1, <2>2 DEF Window
  <1>6. ReadOn'
    BY <1>1 DEF ReadOn
  <1>7. Guarded'
    <2>1. data'[BUFSIZE] = G!Ended[BUFSIZE]
      <3>1. BUFSIZE \in 0 .. BUFSIZE /\ ~(BUFSIZE <= e - line_start)
        BY <1>2, <1>3
      <3>2. QED
        BY <1>1, <3>1
    <2>2. G!Ended[BUFSIZE] = G!NUL \/ G!Ended[BUFSIZE] = data[BUFSIZE]
      <3>1. BUFSIZE \in 0 .. BUFSIZE
        BY <1>3
      <3>2. QED
        BY <1>1, <3>1, InBuffer
    <2>3. QED
      BY <1>1, <2>1, <2>2, Texts DEF SearchInv, Guarded
  <1>8. Found'
    <2>1. At' = At
      BY <1>1, <1>3 DEF At
    <2>2. (G!LinesFit)' <=> G!LinesFit
      BY <1>1 DEF G!LinesFit
    <2>3. QED
      BY <1>1, <2>1, <2>2 DEF SearchInv, Found, Fresh
  <1>9. QED
    BY <1>4, <1>5, <1>6, <1>7, <1>8 DEF SearchInv

\* and a search goes on to the next line.
LEMMA SearchFound ==
    ASSUME G!GrepAssumption, SearchInv, G!SearchLine, G!LinesFit, behind # G!NEWLINE
    PROVE  Fresh' /\ printed' = G!LinesFrom(file, s)[At' - 1]
  <1> DEFINE e == G!line_end
             j == LineEndInFile
             lines == G!LinesFrom(file, s)
             line == SubSeq(file, At, j)
             hit == \E check \in line_start .. e - 1 : G!MatchesAt(check)
  <1>1. /\ pc = "scan" /\ ~G!CutOff /\ file' = file /\ pos' = pos
        /\ printed' = IF hit THEN Append(printed, line) ELSE printed
        /\ line_start' = e + 1
        /\ IF e + 1 >= last THEN last' = 0 /\ pc' \in {"read", "done"}
           ELSE last' = last /\ pc' = pc
    <2>1. /\ pc = "scan" /\ ~G!CutOff /\ file' = file /\ pos' = pos
          /\ printed' = IF hit
                        THEN Append(printed, [i \in 1 .. G!FirstNul - line_start |->
                                                    G!Ended[line_start + i - 1]])
                        ELSE printed
          /\ line_start' = e + 1
          /\ IF e + 1 >= last THEN last' = 0 /\ pc' = (IF cnt = 0 THEN "done" ELSE "read")
             ELSE UNCHANGED <<last, pc>>
      BY DEF G!SearchLine
    <2>2. line = [i \in 1 .. G!FirstNul - line_start |-> G!Ended[line_start + i - 1]]
      BY <2>1, PatternFound
    <2>3. printed' = IF hit THEN Append(printed, line) ELSE printed
      BY <2>1, <2>2, Zenon
    <2>4. IF e + 1 >= last THEN last' = 0 /\ pc' \in {"read", "done"}
          ELSE last' = last /\ pc' = pc
      BY <2>1
    <2>5. QED
      BY <2>1, <2>3, <2>4
  <1>2. hit <=> G!HasPattern(line, s)
    BY <1>1, PatternFound
  <1>3. /\ At \in 1 .. Len(file) + 1 /\ j \in At - 1 .. Len(file) /\ j - At + 1 = e - line_start
        /\ \A k \in At .. j : file[k] # G!NEWLINE
        /\ e < last => j < Len(file) /\ file[j + 1] = G!NEWLINE
        /\ Len(file) \in Nat /\ file \in Seq(STRING)
    BY <1>1, InFile, Texts DEF SearchInv
  <1>4. /\ line_start \in 0 .. last /\ e \in line_start .. last /\ last \in Nat
        /\ pos \in Nat /\ last <= pos
        /\ j = pos - last + e
    BY <1>1, InBuffer DEF LineEndInFile
  <1>5. Fresh /\ printed = lines[At - 1]
    BY DEF SearchInv, Found
  <1>6. At \in G!Starts(file) => Reaches(At, j)
    BY <1>1, WholeLine
  <1> HIDE DEF e, j, hit, line
  \* The character before the next line of the buffer.
  <1>7. At' = IF e < last THEN j + 2 ELSE j + 1
    <2>1. CASE e + 1 >= last
      BY <1>1, <1>4, <2>1 DEF At
    <2>2. CASE ~(e + 1 >= last)
      BY <1>1, <1>4, <2>2 DEF At
    <2>3. QED
      BY <2>1, <2>2
  <1>8. /\ Len(file) \in Nat /\ At \in Nat /\ At >= 1
        /\ At' \in Nat /\ At <= At' /\ At' <= Len(file) + 1
    BY <1>3, <1>7
  <1>9. Fresh'
    <2>1. CASE e < last
      BY <1>1, <1>3, <1>7, <1>8, <2>1 DEF Fresh
    <2>2. CASE ~(e < last) /\ At \in G!Starts(file)
      <3>1. j = Len(file) \/ file[j + 1] = G!NEWLINE
        BY <1>6, <2>2 DEF Reaches
      <3>2. At' = j + 1
        BY <1>3, <1>7, <1>8, <2>2
      <3>3. QED
        BY <1>1, <3>1, <3>2 DEF Fresh
    <2>3. CASE ~(e < last) /\ At \notin G!Starts(file)
      <3>1. At' = At
        <4>1. At = Len(file) + 1 \/ file[At] = G!NEWLINE
          BY <1>3, <1>5, <2>3 DEF Fresh, G!Starts
        <4>2. ~(At <= j)
          BY <1>3, <4>1
        <4>3. QED
          BY <1>3, <1>7, <1>8, <2>3, <4>2
      <3>2. QED
        BY <1>1, <1>5, <3>1 DEF Fresh
    <2>4. QED
      BY <2>1, <2>2, <2>3
  <1>10. \A k \in At + 1 .. At' - 1 : k \notin G!Starts(file)
    <2>1. ASSUME NEW k \in At + 1 .. At' - 1 PROVE k # 1 /\ file[k - 1] # G!NEWLINE
      <3>1. k - 1 \in At .. j /\ k # 1
        BY <1>3, <1>7, <1>8
      <3>2. QED
        BY <1>3, <3>1
    <2>2. QED
      BY <2>1 DEF G!Starts
  <1>11. printed' = lines[At' - 1]
    <2>1. CASE At' - 1 = At - 1
      <3>1. ~hit
        BY <1>3, <1>4, <1>7, <1>8, <2>1 DEF hit, e
      <3>2. QED
        BY <1>1, <1>5, <2>1, <3>1
    <2>2. CASE At' - 1 # At - 1
      <3>1. At \in 1 .. Len(file) /\ At <= At' - 1 /\ At' - 1 \in Nat /\ At' - 1 <= Len(file)
        <4> DEFINE a == At
                   b == At'
                   n == Len(file)
        <4>1. /\ n \in Nat /\ a \in Nat /\ a >= 1 /\ b \in Nat /\ a <= b /\ b <= n + 1
              /\ b - 1 # a - 1
          BY <1>8, <2>2, Zenon
        <4> HIDE DEF a, b, n
        <4>2. a \in 1 .. n /\ a <= b - 1 /\ b - 1 \in Nat /\ b - 1 <= n
          BY <4>1
        <4>3. QED
          BY <4>2 DEF a, b, n
      <3>2. lines[At' - 1] = lines[At]
        BY <1>3, <1>8, <1>10, <3>1, NoStarts
      <3>3. lines[At] = IF At \in G!Starts(file) /\ G!HasPattern(G!LineAt(file, At), s)
                        THEN Append(lines[At - 1], G!LineAt(file, At)) ELSE lines[At - 1]
        BY <1>3, <3>1, LinesFromIs
      <3>4. CASE At \in G!Starts(file)
        <4>1. G!LineAt(file, At) = line
          BY <1>3, <1>6, <1>8, <3>4, LineIs DEF line
        <4>2. QED
          BY <1>1, <1>2, <1>5, <3>2, <3>3, <3>4, <4>1
      <3>5. CASE At \notin G!Starts(file)
        <4>1. file[At] = G!NEWLINE
          BY <1>3, <1>5, <3>1, <3>5 DEF Fresh, G!Starts
        <4>2. ~(At <= j)
          BY <1>3, <4>1
        <4>3. ~hit
          BY <1>3, <1>4, <4>2 DEF hit, e
        <4>4. QED
          BY <1>1, <1>5, <3>2, <3>3, <3>5, <4>3
      <3>6. QED
        BY <3>4, <3>5
    <2>3. QED
      BY <2>1, <2>2
  <1>12. QED
    BY <1>9, <1>11

\* So the search of a line preserves the invariant.
LEMMA SearchInvSearch ==
    ASSUME G!GrepAssumption, SearchInv, G!SearchLine
    PROVE  SearchInv'
  <1> DEFINE e == G!line_end
  <1>1. /\ pc = "scan" /\ ~G!CutOff /\ data' = G!Ended /\ line_start' = e + 1
        /\ file' = file /\ pos' = pos /\ s' = s /\ cnt' = cnt /\ behind' = behind
        /\ IF e + 1 >= last THEN last' = 0 /\ pc' = (IF cnt = 0 THEN "done" ELSE "read")
           ELSE last' = last /\ pc' = "scan"
    BY DEF G!SearchLine
  <1>2. /\ pos \in Nat /\ pos <= Len(file) /\ last \in Nat /\ last <= BUFSIZE /\ last <= pos
        /\ line_start \in 0 .. last /\ e \in line_start .. last
        /\ Len(file) \in Nat /\ BUFSIZE \in Nat \ {0} /\ file \in Files /\ s \in Patterns
        /\ cnt \in 0 .. BUFSIZE
        /\ cnt = 0 \/ last < BUFSIZE => pos = Len(file)
    BY <1>1, InBuffer, Texts DEF SearchInv, Places, ReadOn
  <1>3. /\ DOMAIN data' = 0 .. BUFSIZE
        /\ \A i \in line_start .. last - 1 : data[i] = file[pos - last + i + 1]
        /\ \A i \in 0 .. BUFSIZE : i # e => data'[i] = data[i]
        /\ data'[e] = G!NUL
    BY <1>1, InBuffer
  <1> HIDE DEF e
  <1>4. Places'
    <2>1. CASE e + 1 >= last
      BY <1>1, <1>2, <2>1 DEF Places
    <2>2. CASE ~(e + 1 >= last)
      BY <1>1, <1>2, <2>2 DEF Places
    <2>3. QED
      BY <2>1, <2>2
  <1>5. Window'
    <2>1. CASE e + 1 >= last
      BY <1>1, <1>3, <2>1 DEF Window
    <2>2. CASE ~(e + 1 >= last)
      <3>1. ASSUME NEW i \in 0 .. last - 1, i >= e + 1 PROVE data'[i] = file[pos - last + i + 1]
        <4>1. i \in line_start .. last - 1 /\ i \in 0 .. BUFSIZE /\ i # e
          BY <1>2, <3>1
        <4>2. QED
          BY <1>3, <4>1
      <3>2. QED
        BY <1>1, <1>3, <2>2, <3>1 DEF Window
    <2>3. QED
      BY <2>1, <2>2
  <1>6. ReadOn'
    <2>1. CASE e + 1 >= last
      BY <1>1, <2>1 DEF ReadOn
    <2>2. CASE ~(e + 1 >= last)
      BY <1>1, <1>2, <2>2 DEF ReadOn
    <2>3. QED
      BY <2>1, <2>2
  <1>7. Guarded'
    <2>1. data'[BUFSIZE] = G!NUL \/ data'[BUFSIZE] = data[BUFSIZE]
      <3>1. BUFSIZE \in 0 .. BUFSIZE
        BY <1>2
      <3>2. QED
        BY <1>3, <3>1
    <2>2. QED
      BY <1>1, <2>1, Texts DEF SearchInv, Guarded
  <1>8. Found'
    <2>1. (G!LinesFit)' <=> G!LinesFit
      BY <1>1 DEF G!LinesFit
    <2>2. G!LinesFit /\ behind # G!NEWLINE => Fresh' /\ printed' = G!LinesFrom(file, s)[At' - 1]
      BY SearchFound
    <2>3. QED
      BY <1>1, <2>1, <2>2 DEF Found
  <1>9. QED
    BY <1>4, <1>5, <1>6, <1>7, <1>8 DEF SearchInv

\* grep prints every line of a text with the pattern, once and whole, and no other,
\* wherever the reads cut it, if the lines fit the buffer and the byte behind it is no
\* newline at first; every variable keeps its type.
THEOREM PatternIsFound == G!GrepAssumption => (G!Spec => [](G!TypeOK /\ G!LinesFound))
  <1> SUFFICES ASSUME G!GrepAssumption PROVE G!Spec => [](G!TypeOK /\ G!LinesFound)
    OBVIOUS
  <1>1. G!Init => SearchInv
    BY SearchInvInit
  <1>2. SearchInv /\ [G!Next]_G!vars => SearchInv'
    <2> SUFFICES ASSUME SearchInv, [G!Next]_G!vars PROVE SearchInv'
      OBVIOUS
    <2>1. CASE G!read
      BY <2>1, SearchInvRead
    <2>2. CASE G!MoveToFront
      BY <2>2, SearchInvMove
    <2>3. CASE G!SearchLine
      BY <2>3, SearchInvSearch
    <2>4. CASE UNCHANGED G!vars
      <3>1. /\ file' = file /\ pos' = pos /\ s' = s /\ data' = data /\ last' = last /\ cnt' = cnt
            /\ line_start' = line_start /\ pc' = pc /\ printed' = printed /\ behind' = behind
        BY <2>4 DEF G!vars
      <3>2. At' = At /\ (Fresh' <=> Fresh) /\ ((G!LinesFit)' <=> G!LinesFit)
        BY <3>1 DEF At, Fresh, G!LinesFit
      <3>3. QED
        BY <3>1, <3>2 DEF SearchInv, Places, Window, ReadOn, Guarded, Found
    <2>5. QED
      BY <2>1, <2>2, <2>3, <2>4 DEF G!Next
  <1>3. SearchInv => G!TypeOK /\ G!LinesFound
    <2> SUFFICES ASSUME SearchInv PROVE G!TypeOK /\ G!LinesFound
      OBVIOUS
    <2>1. G!TypeOK
      BY DEF SearchInv, Places, Window, G!TypeOK, G!Indices
    <2>2. ASSUME pc = "done", G!LinesFit, behind # G!NEWLINE PROVE printed = G!LinesWithPattern
      <3>1. Len(file) \in Nat
        BY Texts DEF SearchInv
      <3>2. At - 1 = Len(file)
        BY <2>2, <3>1 DEF SearchInv, Places, At
      <3>3. QED
        BY <2>2, <3>2 DEF SearchInv, Found, G!LinesWithPattern
    <2>3. QED
      BY <2>1, <2>2 DEF G!LinesFound
  <1>4. QED
    BY <1>1, <1>2, <1>3, PTL DEF G!Spec
=============================================================================
