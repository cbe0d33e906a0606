----------------------------- MODULE SlabCache ------------------------------
(***************************************************************************)
(* One cache of k/memory.c at the level of its pointers.  Each slab has a  *)
(* freelist threaded through its free objects, and the slabs after the     *)
(* root hang on the root's `caches' list.  An allocated object is the      *)
(* client's: what it writes there overwrites the pointers the object had   *)
(* while it was free.  Module KernelMemory counts the same objects.        *)
(***************************************************************************)
EXTENDS Integers, Sequences, FiniteSets, SequencesExt

CONSTANTS Root,      \* base address of the slab cache_new is called with
          Bases,     \* where memory_reserve may place a further slab
          Nmemb,     \* objects of a slab
          Bsize,     \* size of an object
          MaxSlabs   \* bound on the slabs of the cache

ASSUME SlabsAssumption ==
    /\ {Nmemb, Bsize, MaxSlabs} \subseteq Nat \ {0}
    /\ Root \in Nat /\ Bases \subseteq Nat

Size == Nmemb * Bsize
Addresses(b) == {b + i * Bsize : i \in 0 .. Nmemb - 1}
SlabIds == 1 .. MaxSlabs
Objects == {<<"object", a>> : a \in UNION {Addresses(b) : b \in Bases \cup {Root}}}
Node == {<<"freelist", s>> : s \in SlabIds} \cup {<<"caches", s>> : s \in SlabIds}
            \cup Objects
Nil == <<"nil", 0>>
L == INSTANCE List

freelist(s) == <<"freelist", s>>
caches(s) == <<"caches", s>>
object(a) == <<"object", a>>

VARIABLES heap,     \* the next and prev pointers of every node
          base,     \* base[s]: address of slab s; slab 1 is the root
          holders   \* history: how often an object is held by a client

vars == <<heap, base, holders>>

allocated == {o \in Objects : holders[o] > 0}

-----------------------------------------------------------------------------
(* cache_initialize: both lists empty, then the objects inserted one by    *)
(* one at the tail of the freelist.                                        *)
CacheInitialize(h, s, b) ==
    LET filled[i \in 0 .. Nmemb] ==
          IF i = 0 THEN L!list_init(L!list_init(h, freelist(s)), caches(s))
          ELSE LET l == object(b + (i - 1) * Bsize)
                   g == L!list_init(filled[i - 1], l)
               IN  L!list_insert(g, g.prev[freelist(s)], l)
    IN  filled[Nmemb]

(* The slabs in the order __cache_alloc and cache_free visit them.         *)
Bound == MaxSlabs * (Nmemb + 1)
SlabOrder(h) ==
    LET rest == L!Walk(h.next, caches(1), Bound)
    IN  <<1>> \o [i \in 1 .. Len(rest) |-> rest[i][2]]
FirstIn(seq, Test(_)) ==
    seq[CHOOSE i \in DOMAIN seq :
            Test(seq[i]) /\ \A j \in 1 .. i - 1 : ~Test(seq[j])]
HasObject(h, s) == ~L!list_empty(h, freelist(s))

Init ==
    /\ base = <<Root>>
    /\ heap = CacheInitialize([next |-> [n \in Node |-> Nil],
                               prev |-> [n \in Node |-> Nil]], 1, Root)
    /\ holders = [o \in Objects |-> 0]

\* Fault: the object is given out and stays on its freelist.
PopKeepsLink(h, s) ==
    LET l == h.next[freelist(s)]
    IN  /\ heap' = h
        /\ holders' = [holders EXCEPT ![l] = @ + 1]

(* The head of the freelist of slab s goes to the client.                  *)
Pop(h, s) ==
    LET l == h.next[freelist(s)]
    IN  /\ heap' = L!list_remove(h, l)
        /\ holders' = [holders EXCEPT ![l] = @ + 1]

AllocHit ==
    /\ \E s \in DOMAIN base : HasObject(heap, s)
    /\ LET Test(s) == HasObject(heap, s)
       IN  Pop(heap, FirstIn(SlabOrder(heap), Test))
    /\ UNCHANGED base

(* cache_extend: a slab as large as the root, inserted at the tail of      *)
(* root->caches; the allocation is then tried again and finds it.          *)
Grown(b) ==
    LET s == Len(base) + 1
        h == CacheInitialize(heap, s, b)
    IN  L!list_insert(h, h.prev[caches(1)], caches(s))
AllocGrow(b) ==
    /\ \A s \in DOMAIN base : ~HasObject(heap, s)
    /\ Len(base) < MaxSlabs
    /\ \A s \in DOMAIN base : b + Size <= base[s] \/ base[s] + Size <= b
    /\ Pop(Grown(b), Len(base) + 1)
    /\ base' = Append(base, b)

\* Fault: the test for the end of the slab is off by one.
LiesUpToEnd(ptr, s) == base[s] <= ptr[2] /\ ptr[2] <= base[s] + Size

(* cache_try_free, on the first slab the pointer lies in.                  *)
Lies(ptr, s) == base[s] <= ptr[2] /\ ptr[2] < base[s] + Size
TryFree(ptr, s) ==
    heap' = L!list_insert(L!list_init(heap, ptr), freelist(s), ptr)
Free(ptr) ==
    /\ LET Test(s) == Lies(ptr, s) IN TryFree(ptr, FirstIn(SlabOrder(heap), Test))
    /\ holders' = [holders EXCEPT ![ptr] = @ - 1]
    /\ UNCHANGED base

(* A client writes to its object, over the two pointers.                   *)
Write(ptr) ==
    /\ \E n, p \in {Nil, freelist(1)} :
          heap' = [heap EXCEPT !.next[ptr] = n, !.prev[ptr] = p]
    /\ UNCHANGED <<base, holders>>

Next ==
    \/ AllocHit
    \/ \E b \in Bases : AllocGrow(b)
    \/ \E ptr \in allocated : Free(ptr)
    \/ \E ptr \in allocated : Write(ptr)

Spec == Init /\ [][Next]_vars

(* freelist_size counts one too many on a list that is not empty.          *)
\* Fault: without the one too many the manager's tests are too eager.
FreelistSizeExact(s) == Len(L!Walk(heap.next, freelist(s), Bound))
FreelistSize(s) ==
    IF L!list_empty(heap, freelist(s)) THEN 0
    ELSE 1 + Len(L!Walk(heap.next, freelist(s), Bound))
CacheRemaining ==
    LET order == SlabOrder(heap)
        len[i \in 0 .. Len(order)] ==
          IF i = 0 THEN 0 ELSE FreelistSize(order[i]) + len[i - 1]
    IN  len[Len(order)]

-----------------------------------------------------------------------------
SlabObjects(s) == {object(a) : a \in Addresses(base[s])}

(* No pointer leaves the cache's nodes, and no object is ever given to two *)
(* holders, or freed by more than had it: cache_alloc and cache_free, with *)
(* the objects' own memory as their list nodes.                            *)
TypeOK ==
    /\ heap \in L!Heap
    /\ base \in Seq(Nat) /\ Len(base) \in SlabIds
    /\ holders \in [Objects -> {0, 1}]

(* Each freelist, read in either direction, is exactly the free objects of *)
(* its own slab, each once, whatever clients wrote into the others.        *)
FreelistsExact ==
    \A s \in DOMAIN base :
        LET fwd == L!Walk(heap.next, freelist(s), Bound)
            bwd == L!Walk(heap.prev, freelist(s), Bound)
        IN  /\ fwd = Reverse(bwd)
            /\ ToSet(fwd) = SlabObjects(s) \ allocated
            /\ Len(fwd) = Cardinality(SlabObjects(s) \ allocated)

(* The test below, which decides when memory_map_cache and metadata_cache  *)
(* are extended, means: at most one object is left.                        *)
RemainingTest ==
    CacheRemaining <= 2 <=>
        Cardinality((UNION {SlabObjects(s) : s \in DOMAIN base}) \ allocated) <= 1

(* The pointers implement a pool of objects.                               *)
Pool == INSTANCE ObjectPool
ImplementsPool == Pool!Spec
=============================================================================
