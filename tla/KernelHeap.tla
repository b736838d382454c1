----------------------------- MODULE KernelHeap -----------------------------
(***************************************************************************)
(* Imalloc and Ifree (libstr.c): a list of blocks in the order of their    *)
(* addresses, searched first-fit, and a pointer behind the last of them.   *)
(* Sizes are in units of the 16-byte alignment.                            *)
(***************************************************************************)
EXTENDS FiniteSetsExt, SequencesExt

CONSTANTS PoolSize,   \* sizeof(s_heap_pool)
          Header,     \* sizeof(HeapBlock)
          Sizes       \* requested sizes

ASSUME HeapAssumption == PoolSize \in Nat /\ Header \in Nat \ {0} /\ Sizes \subseteq Nat \ {0}

VARIABLES blocks,         \* the list: [adr, size, free], adr that of the header
          s_heap_offset

heap == <<blocks, s_heap_offset>>

HeapInit == blocks = <<>> /\ s_heap_offset = 0

block(adr, size, free) == [adr |-> adr, size |-> size, free |-> free]

\* The first free block that is large enough, 0 if there is none.
first_fit(size) == SelectInSeq(blocks, LAMBDA b : b.free /\ b.size >= size)

\* A block keeps a rest that holds a header and one unit more for itself.
split(i, size) ==
    LET b == blocks[i] IN
    IF b.size >= size + Header + 1
      THEN <<block(b.adr, size, FALSE), block(b.adr + Header + size, b.size - size - Header, TRUE)>>
      ELSE <<block(b.adr, b.size, FALSE)>>

Imalloc(size) ==
    LET i == first_fit(size) IN
    IF i # 0
      THEN /\ blocks' = SubSeq(blocks, 1, i - 1) \o split(i, size) \o SubSeq(blocks, i + 1, Len(blocks))
           /\ UNCHANGED s_heap_offset
      ELSE /\ s_heap_offset + Header + size <= PoolSize
           /\ blocks' = Append(blocks, block(s_heap_offset, size, FALSE))
           /\ s_heap_offset' = s_heap_offset + Header + size

-----------------------------------------------------------------------------
merged(a, b) == block(a.adr, a.size + Header + b.size, TRUE)

\* Mutant: a block is not joined with a free one before it.
join_backward_never(bs, i) == [bs |-> bs, i |-> i]

join_forward(bs, i) ==
    IF i < Len(bs) /\ bs[i + 1].free
      THEN SubSeq(bs, 1, i - 1) \o <<merged(bs[i], bs[i + 1])>> \o SubSeq(bs, i + 2, Len(bs))
      ELSE bs
join_backward(bs, i) ==
    IF i > 1 /\ bs[i - 1].free
      THEN [bs |-> SubSeq(bs, 1, i - 2) \o <<merged(bs[i - 1], bs[i])>> \o SubSeq(bs, i + 1, Len(bs)), i |-> i - 1]
      ELSE [bs |-> bs, i |-> i]

\* Ifree of a block that is allocated: join with the neighbours, then give the end of the list back.
Ifree(i) ==
    LET freed == [blocks EXCEPT ![i].free = TRUE]
        j == join_backward(join_forward(freed, i), i)
    IN  /\ ~blocks[i].free
        /\ IF j.i = Len(j.bs)
             THEN blocks' = Front(j.bs) /\ s_heap_offset' = Last(j.bs).adr
             ELSE blocks' = j.bs /\ UNCHANGED s_heap_offset

HeapNext == (\E size \in Sizes : Imalloc(size)) \/ (\E i \in DOMAIN blocks : Ifree(i))

-----------------------------------------------------------------------------
\* The blocks fill the pool up to s_heap_offset without gap or overlap, and two
\* free ones never lie side by side or at the end: what was freed can be had
\* again as one piece (the splitting of Imalloc, the coalescing of Ifree).
HeapTiled ==
    /\ \A i \in DOMAIN blocks :
         LET next == IF i = Len(blocks) THEN s_heap_offset ELSE blocks[i + 1].adr
         IN  /\ blocks[i].size > 0 /\ blocks[i].adr + Header + blocks[i].size = next
             /\ blocks[i].free => i < Len(blocks) /\ ~blocks[i + 1].free
    /\ blocks # <<>> => blocks[1].adr = 0
    /\ blocks = <<>> => s_heap_offset = 0

=============================================================================
