------------------------------- MODULE Malloc -------------------------------
(***************************************************************************)
(* The memory allocator of user programs (umalloc.c): a circular list of   *)
(* free blocks in address order, kept in the headers of the blocks         *)
(* themselves.  Addresses count headers; base is at address 0, below the   *)
(* heap.  The whole list lives in raw memory (ptr, size), so a wrong link  *)
(* or size is not caught by the shape of the model.                        *)
(***************************************************************************)
EXTENDS Naturals, FiniteSets, FiniteSetsExt, Sequences

CONSTANTS
    MaxBrk,     \* the end of the memory sbrk can give
    MinCore,    \* the least number of headers morecore asks for (4096)
    Units,      \* the sizes asked for, in headers, the block's own included
    Steps       \* the sizes by which the program itself calls sbrk

VARIABLES
    ptr,        \* the link in the header at each address
    size,       \* the size in the header at each address
    freep,      \* where the search starts, or None before the first call
    brk,        \* the end of the heap
    live,       \* ghost: the blocks given out and not freed, as <<header, units>>
    own,        \* ghost: the addresses the program got from sbrk for itself
    asked       \* ghost: units of a call that has just returned 0, or 0

vars == <<ptr, size, freep, brk, live, own, asked>>

base == 0
None == MaxBrk + 1
Heap == 1..MaxBrk

(* The allocator's memory, as one value that the functions of the code     *)
(* transform.                                                              *)
Mem == [ptr |-> ptr, size |-> size, freep |-> freep, brk |-> brk]

(* The block after which the block at bp belongs: the search of free.      *)
RECURSIVE place(_, _, _)
place(m, bp, p) ==
    LET q == m.ptr[p]
    IN  IF bp > p /\ bp < q THEN p
        ELSE IF p >= q /\ (bp > p \/ bp < q) THEN p
        ELSE place(m, bp, q)

(* Mutant: the block is not joined to the one above it.                    *)
join_up_never(m, bp, q) == [m EXCEPT !.ptr[bp] = q]

(* The two joins of free: with the block above, then with the one below.   *)
join_up(m, bp, q) ==
    IF bp + m.size[bp] = q
    THEN [m EXCEPT !.size[bp] = @ + m.size[q], !.ptr[bp] = m.ptr[q]]
    ELSE [m EXCEPT !.ptr[bp] = q]

join_down(m, p, bp) ==
    IF p + m.size[p] = bp
    THEN [m EXCEPT !.size[p] = @ + m.size[bp], !.ptr[p] = m.ptr[bp], !.freep = p]
    ELSE [m EXCEPT !.ptr[p] = bp, !.freep = p]

release(m, bp) ==
    LET p == place(m, bp, m.freep)
    IN  join_down(join_up(m, bp, m.ptr[p]), p, bp)

sbrk(m, n) == m.brk + n <= MaxBrk + 1

(* Memory after morecore, or the same memory when sbrk fails.              *)
morecore(m, nunits) ==
    LET nu == Max({nunits, MinCore})
    IN  IF sbrk(m, nu)
        THEN release([m EXCEPT !.brk = @ + nu, !.size[m.brk] = nu], m.brk)
        ELSE m

(* The block p is large enough: it, or its tail, is the result.            *)
take(m, prevp, p, nunits) ==
    IF m.size[p] = nunits
    THEN [mem |-> [m EXCEPT !.ptr[prevp] = m.ptr[p], !.freep = prevp], at |-> p]
    ELSE LET q == p + (m.size[p] - nunits)
         IN  [mem |-> [m EXCEPT !.size = [@ EXCEPT ![p] = @ - nunits, ![q] = nunits],
                       !.freep = prevp],
              at |-> q]

RECURSIVE search(_, _, _, _)
search(m, prevp, p, nunits) ==
    LET more == morecore(m, nunits)
    IN  IF m.size[p] >= nunits THEN take(m, prevp, p, nunits)
        ELSE IF p # m.freep THEN search(m, p, m.ptr[p], nunits)
        ELSE IF more = m THEN [mem |-> m, at |-> None]
        ELSE search(more, more.freep, more.ptr[more.freep], nunits)

RECURSIVE Reach(_, _, _)
Reach(m, p, seen) ==
    IF p \in seen THEN seen ELSE Reach(m, m.ptr[p], seen \union {p})

(* The blocks of the free list of a memory, base apart.                    *)
FreeIn(m) == IF m.freep = None THEN {} ELSE Reach(m, m.freep, {}) \ {base}

(* The memory after a call.  A cell that is not a header any more belongs  *)
(* to the program or is never looked at: 0 stands for what it holds, and   *)
(* so does the link of a block given out.                                  *)
Store(m) ==
    LET free_now == FreeIn(m) \union {base}
    IN  /\ ptr' = [a \in DOMAIN ptr |-> IF a \in free_now THEN m.ptr[a] ELSE 0]
        /\ size' = [a \in DOMAIN size |->
                       IF a \in free_now \union {b[1] : b \in live'} THEN m.size[a] ELSE 0]
        /\ freep' = m.freep
        /\ brk' = m.brk

malloc(nunits) ==
    LET m == IF freep # None THEN Mem
             ELSE [Mem EXCEPT !.ptr[base] = base, !.size[base] = 0, !.freep = base]
        got == search(m, m.freep, m.ptr[m.freep], nunits)
    IN  /\ live' = IF got.at = None THEN live ELSE live \union {<<got.at, nunits>>}
        /\ Store(got.mem)
        /\ asked' = IF got.at = None THEN nunits ELSE 0
        /\ UNCHANGED own

free(b) ==
    /\ live' = live \ {b}
    /\ Store(release(Mem, b[1]))
    /\ asked' = 0
    /\ UNCHANGED own

(* The program calls sbrk itself: the heap has a hole the allocator must   *)
(* not give out or join across.                                            *)
grow(n) ==
    /\ sbrk(Mem, n)
    /\ own' = own \union (brk..brk + n - 1)
    /\ brk' = brk + n
    /\ asked' = 0
    /\ UNCHANGED <<ptr, size, freep, live>>

Init ==
    /\ ptr = [a \in 0..MaxBrk |-> 0]
    /\ size = [a \in 0..MaxBrk |-> 0]
    /\ freep = None
    /\ brk = 1
    /\ live = {}
    /\ own = {}
    /\ asked = 0

Next == \/ \E n \in Units : malloc(n)
        \/ \E b \in live : free(b)
        \/ \E n \in Steps : grow(n)

-----------------------------------------------------------------------------
FreeBlocks == FreeIn(Mem)

Cells(a, n) == a..a + n - 1

(* Every header of the heap is in one free block, in one block given out,  *)
(* or the program's own, however malloc cuts blocks and free joins them:   *)
(* nothing is given out twice and nothing is lost.                         *)
EveryCellOnce ==
    LET free_cells == UNION {Cells(a, size[a]) : a \in FreeBlocks}
        live_cells == UNION {Cells(b[1], b[2]) : b \in live}
    IN  /\ free_cells \union live_cells \union own = 1..brk - 1
        /\ MapThenSumSet(LAMBDA a : size[a], FreeBlocks)
             + MapThenSumSet(LAMBDA b : b[2], live) + Cardinality(own) = brk - 1
        /\ \A b \in live : size[b[1]] = b[2]

(* The list free searches is one circle through base in address order, and *)
(* two free blocks are never neighbours, the join at the place where the   *)
(* list wraps around included.                                             *)
JoinedInOrder ==
    freep # None =>
        \A a \in FreeBlocks \union {base} :
            LET above == {b \in FreeBlocks : b > a}
            IN  /\ ptr[a] = IF above = {} THEN base ELSE Min(above)
                /\ a # base => a + size[a] # ptr[a]

(* malloc returns 0 only when no free block is large enough and the system *)
(* has no memory left, wherever in the circle the search began.            *)
FailsOnlyWhenFull ==
    asked # 0 => /\ \A a \in FreeBlocks : size[a] < asked
                 /\ ~sbrk(Mem, Max({asked, MinCore}))
=============================================================================
