-------------------------------- MODULE Heap --------------------------------
(***************************************************************************)
(* kmalloc(), in bytes from KMALLOC_BEGIN.  The code walks a list of free  *)
(* blocks, which never has more than one element: a block that is split    *)
(* puts its rest in its own place, and nothing is ever freed.              *)
(***************************************************************************)
EXTENDS Integers

CONSTANTS
    Requests,           \* sizes asked for
    HEAP,               \* KMALLOC_SIZE, 16 MB: four page tables
    WRAP                \* 2^32

VARIABLES
    kmem_blocks,        \* where the free block's header is; NULL before the first call
    free_size,          \* that header's size
    blocks,             \* what was returned: where it starts, what was asked for
    faulted             \* a header was written past the four page tables

vars == <<kmem_blocks, free_size, blocks, faulted>>

NULL == -1
HEADER == 16            \* sizeof(block_t)
LIMIT == HEAP \div 4    \* the largest request, 4 MB, is also what one page table maps

ASSUME HeapAssumption ==
    /\ Requests \subseteq Nat
    /\ HEAP \in Nat /\ HEAP % 64 = 0 /\ HEAP >= 64
    /\ WRAP \in Nat /\ WRAP >= HEAP

\* Mutant: rounds down.
ALIGNED_SIZERoundedDown(x) == (x \div 16) * 16

ALIGNED_SIZE(x) == ((x + 15) \div 16) * 16

Init == kmem_blocks = NULL /\ free_size = 0 /\ blocks = {} /\ faulted = FALSE

Return(header, asked) == blocks' = blocks \cup {[start |-> header + HEADER, asked |-> asked]}

\* The first call finds no free block and lays out the heap.
kmalloc_first(asked) ==
    LET real_size == ALIGNED_SIZE(asked) + HEADER IN
    /\ kmem_blocks = NULL \/ free_size < ALIGNED_SIZE(asked)
    /\ kmem_blocks' = real_size
    /\ free_size' = HEAP - real_size
    /\ Return(0, asked)
    /\ UNCHANGED faulted

\* Mutant: the size is a signed number.
RestSizeSigned(size) == size - (size + HEADER)

\* The rest's size is computed from the size just overwritten: -HEADER, as an
\* unsigned number larger than the heap.
RestSize(size) == (size - (size + HEADER)) % WRAP

\* The rest gets a header of its own.  Without room for one the block is returned
\* whole, and stays the free block.
kmalloc_next(asked) ==
    LET size == ALIGNED_SIZE(asked)
        next == kmem_blocks + size + HEADER
    IN
    /\ kmem_blocks # NULL /\ free_size >= size
    /\ IF free_size - size < HEADER
       THEN Return(kmem_blocks, asked) /\ UNCHANGED <<kmem_blocks, free_size, faulted>>
       ELSE IF next < HEAP
       THEN /\ kmem_blocks' = next
            /\ free_size' = RestSize(size)
            /\ Return(kmem_blocks, asked)
            /\ UNCHANGED faulted
       ELSE /\ faulted' = TRUE /\ free_size' = size
            /\ UNCHANGED <<kmem_blocks, blocks>>

\* A page fault in the kernel is the end of the caller, and of this model.
kmalloc(asked) ==
    /\ ~faulted /\ asked # 0 /\ asked <= LIMIT
    /\ kmalloc_first(asked) \/ kmalloc_next(asked)

Next == \E asked \in Requests : kmalloc(asked)

Spec == Init /\ [][Next]_vars

-----------------------------------------------------------------------------
\* Every variable has its type.
TypeOK ==
    /\ kmem_blocks \in Nat \cup {NULL} /\ free_size \in 0 .. WRAP - 1
    /\ blocks \subseteq [start : Nat, asked : Nat] /\ faulted \in BOOLEAN

End(b) == b.start + b.asked

\* What kmalloc() returns belongs to the caller: it lies in the heap, under the
\* free block's header, and meets neither another block nor its header, whatever
\* the sizes the free header claims.
BlocksDisjoint ==
    \A b \in blocks :
        /\ HEADER <= b.start /\ End(b) <= kmem_blocks /\ kmem_blocks <= HEAP
        /\ b.start % 16 = 0
        /\ \A c \in blocks : b = c \/ End(b) + HEADER <= c.start \/ End(c) + HEADER <= b.start
=============================================================================
