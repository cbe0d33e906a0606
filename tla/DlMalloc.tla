------------------------------- MODULE DlMalloc -------------------------------
(***************************************************************************)
(* libs/libk/malloc.c as libk builds it (malloc-k.h): no mmap, no locks,   *)
(* one global malloc_state gm, memory from sbrk.  A call is a step; each   *)
(* function of the source is an operator from a malloc_state to the next   *)
(* one, or to the set of possible ones where it calls sbrk.                *)
(*                                                                         *)
(* Addresses and sizes are bytes.  A header is kept while it describes a   *)
(* chunk, a prev_foot while the chunk before it is free: the code reads no *)
(* other.  A small bin is the sequence of its chunks from fd on; the tree  *)
(* bins are one sequence in order of insertion: TreeBin shows that what    *)
(* the tries find is the oldest chunk of the least sufficient size.        *)
(***************************************************************************)
EXTENDS Integers, Sequences, FiniteSets, SequencesExt

CONSTANTS
    Word,           \* 2^32: size_t is Nat modulo Word
    SqrtWord,       \* 2^16, calloc's bound of a product that cannot overflow
    Granularity,    \* page size
    MinLarge,       \* MIN_LARGE_SIZE
    TrimThreshold,  \* DEFAULT_TRIM_THRESHOLD
    BrkStart,       \* the break before the first call
    MaxBrk,         \* bound: the break the system never passes
    Requests, Products, Alignments, Pads, Limits, Arrays, \* the clients' arguments
    MaxHeld,        \* bound: blocks held
    Moves           \* how far other callers of sbrk move the break

ASSUME MallocAssumption ==
    /\ {Word, SqrtWord, Granularity, MinLarge, TrimThreshold, BrkStart, MaxBrk}
          \subseteq Nat \ {0}
    /\ MinLarge % 8 = 0 /\ Granularity % 8 = 0 /\ Word % Granularity = 0
    /\ MaxBrk < Word \div 2

VARIABLES gm,          \* the malloc_state, with the system's break
          held,        \* what clients hold: address -> bytes asked for
          unexplained  \* history: the last call failed although memory was to be had

vars == <<gm, held, unexplained>>

NULL == 0
CMFAIL == 0
MAX_SIZE_T == Word - 1
HALF_MAX_SIZE_T == Word \div 2
MALLOC_ALIGNMENT == 8
CHUNK_OVERHEAD == 4
MIN_CHUNK_SIZE == 16
MAX_REQUEST == Word - 4 * MIN_CHUNK_SIZE
TOP_FOOT_SIZE == 24 + MIN_CHUNK_SIZE
SYS_ALLOC_PADDING_bare == TOP_FOOT_SIZE   \* mutant: none for alignment
SYS_ALLOC_PADDING == TOP_FOOT_SIZE + MALLOC_ALIGNMENT

RoundUp(n, unit) == ((n + unit - 1) \div unit) * unit
align_as_chunk(a) == RoundUp(a, MALLOC_ALIGNMENT)
granularity_align(s) == RoundUp(s % Word, Granularity) % Word
chunk2mem(p) == p + 8
mem2chunk(mem) == mem - 8

pad_request_bare(req) == RoundUp(req, MALLOC_ALIGNMENT)   \* mutant: no room for the head
pad_request(req) == RoundUp(req + CHUNK_OVERHEAD, MALLOC_ALIGNMENT)
request2size(req) ==
    IF req < MIN_CHUNK_SIZE - CHUNK_OVERHEAD - 1 THEN MIN_CHUNK_SIZE ELSE pad_request(req)

is_small(s) == s < MinLarge
SmallSizes == {s \in MIN_CHUNK_SIZE .. MinLarge - 1 : s % MALLOC_ALIGNMENT = 0}
MAX_SMALL_REQUEST == MinLarge - MALLOC_ALIGNMENT - CHUNK_OVERHEAD

Init ==
    /\ gm = [head |-> [a \in {} |-> 0], foot |-> [a \in {} |-> 0],
             smallbins |-> [s \in SmallSizes |-> <<>>], tree |-> <<>>,
             dv |-> NULL, dvsize |-> 0, top |-> NULL, topsize |-> 0,
             seg |-> <<>>, footprint |-> 0, footprint_limit |-> 0,
             noncontiguous |-> FALSE, trim_check |-> TrimThreshold,
             brk |-> BrkStart, refused |-> FALSE]
    /\ held = [a \in {} |-> 0]
    /\ unexplained = FALSE

-----------------------------------------------------------------------------
(* Heads and feet of chunks.  What lies inside a chunk is no header any    *)
(* more.                                                                   *)
Inside(p, s) == p + 1 .. p + s - 1

SetHead(m, p, s, p_bit, c_bit) ==
    [m EXCEPT
        !.head = [a \in (DOMAIN m.head \ Inside(p, s)) \cup {p} |->
                     IF a = p THEN [size |-> s, pinuse |-> p_bit, cinuse |-> c_bit]
                              ELSE m.head[a]],
        !.foot = Restrict(m.foot, DOMAIN m.foot \ (Inside(p, s) \cup
                                                   IF p_bit THEN {p} ELSE {}))]

set_foot(m, p, s) == [m EXCEPT !.foot = (p + s :> s) @@ @]

set_pinuse(m, n) ==
    IF n \in DOMAIN m.head
      THEN [m EXCEPT !.head[n].pinuse = TRUE, !.foot = Restrict(@, DOMAIN @ \ {n})]
      ELSE SetHead(m, n, 0, TRUE, FALSE)

clear_pinuse_never(m, n) == m   \* mutant
clear_pinuse(m, n) == [m EXCEPT !.head[n].pinuse = FALSE]

set_size_and_pinuse_of_free_chunk(m, p, s) == set_foot(SetHead(m, p, s, TRUE, FALSE), p, s)
set_free_with_pinuse(m, p, s, n) == set_size_and_pinuse_of_free_chunk(clear_pinuse(m, n), p, s)
\* (Of a chunk cut from a used one the old bit is arbitrary; set_inuse of the chunk
\* before it sets the bit.)
set_inuse(m, p, s) ==
    set_pinuse(SetHead(m, p, s, p \in DOMAIN m.head /\ m.head[p].pinuse, TRUE), p + s)
set_inuse_and_pinuse(m, p, s) == set_pinuse(SetHead(m, p, s, TRUE, TRUE), p + s)
set_size_and_pinuse_of_inuse_chunk(m, p, s) == SetHead(m, p, s, TRUE, TRUE)

\* (The third bit of top's head can be set.)
chunksize(m, p) == (m.head[p].size \div 8) * 8
is_inuse(m, p) == m.head[p].cinuse \/ ~m.head[p].pinuse

-----------------------------------------------------------------------------
(* Bins.                                                                   *)
insert_chunk(m, p, s) ==
    IF is_small(s) THEN [m EXCEPT !.smallbins[s] = <<p>> \o @]
                   ELSE [m EXCEPT !.tree = Append(@, p)]

unlink_chunk(m, p, s) ==
    IF is_small(s) THEN [m EXCEPT !.smallbins[s] = Remove(@, p)]
                   ELSE [m EXCEPT !.tree = Remove(@, p)]

NonEmpty(m, sizes) == {s \in sizes \cap SmallSizes : m.smallbins[s] # <<>>}

set_dv(m, p, s) == [m EXCEPT !.dv = p, !.dvsize = s]

replace_dv(m, p, s) ==
    set_dv(IF m.dvsize = 0 THEN m ELSE insert_chunk(m, m.dv, m.dvsize), p, s)

\* The chunk the tries yield for nb: the least size that fits, the oldest of that size.
BestFit(m, nb) ==
    LET fits == {i \in DOMAIN m.tree : chunksize(m, m.tree[i]) >= nb}
        best == {i \in fits : \A j \in fits :
                    chunksize(m, m.tree[i]) <= chunksize(m, m.tree[j])}
    IN  IF fits = {} THEN NULL ELSE m.tree[Min(best)]

Found(m, p) == [m |-> m, mem |-> chunk2mem(p)]
Fail(m) == [m |-> m, mem |-> NULL]

\* A chunk v out of its bin serves nb; keep(m, r, s) takes a remainder worth keeping.
Split(m, v, nb, keep(_, _, _)) ==
    LET size  == chunksize(m, v)
        out   == unlink_chunk(m, v, size)
        rsize == size - nb
    IN  Found(IF rsize < MIN_CHUNK_SIZE
                THEN set_inuse_and_pinuse(out, v, size)
                ELSE keep(set_size_and_pinuse_of_free_chunk(
                             set_size_and_pinuse_of_inuse_chunk(out, v, nb), v + nb, rsize),
                          v + nb, rsize),
              v)

tmalloc_small(m, nb) == Split(m, BestFit(m, nb), nb, replace_dv)

tmalloc_large(m, nb) ==
    LET v == BestFit(m, nb)
    IN  IF v # NULL /\ chunksize(m, v) - nb < (m.dvsize - nb) % Word
          THEN Split(m, v, nb, insert_chunk)
          ELSE Fail(m)

-----------------------------------------------------------------------------
(* The system.  sbrk fails or moves the break; sbrk(0), which tells where  *)
(* the break is, does not fail.                                            *)
Sbrk(m, n) ==
    {[m |-> [m EXCEPT !.refused = TRUE], at |-> CMFAIL]} \cup
    IF m.brk + n <= MaxBrk THEN {[m |-> [m EXCEPT !.brk = @ + n], at |-> m.brk]} ELSE {}

init_top(m, p, psize) ==
    LET q == align_as_chunk(p)
        s == psize - (q - p)
    IN  [SetHead(SetHead(m, q, s, TRUE, FALSE), q + s, TOP_FOOT_SIZE, FALSE, FALSE)
            EXCEPT !.top = q, !.topsize = s, !.trim_check = TrimThreshold]

segment_holds(s, a) == a >= s.base /\ a < s.base + s.size

\* The first segment is the one that holds top: segments are only added in front.
add_segment(m, tbase, tsize) ==
    LET old_top == m.top
        old_end == m.seg[1].base + m.seg[1].size
        ssize   == pad_request(16)
        asp     == align_as_chunk(old_end - (ssize + 16 + 7))
        sp      == IF asp < old_top + MIN_CHUNK_SIZE THEN old_top ELSE asp
        fences  == {p \in sp + ssize .. old_end - 5 : (p - sp) % 4 = 0}
        psize   == sp - old_top
        linked  == [set_size_and_pinuse_of_inuse_chunk(
                       init_top(m, tbase, tsize - TOP_FOOT_SIZE), sp, ssize)
                       EXCEPT !.seg = <<[base |-> tbase, size |-> tsize]>> \o @]
        fenced  == [linked EXCEPT !.head = [p \in fences |->
                       [size |-> 4, pinuse |-> TRUE, cinuse |-> TRUE]] @@ @]
    IN  IF sp = old_top THEN fenced
        ELSE insert_chunk(set_free_with_pinuse(fenced, old_top, psize, sp), old_top, psize)

SplitTop(m, nb) ==
    LET rsize == m.topsize - nb
        p     == m.top
        moved == SetHead([m EXCEPT !.top = p + nb, !.topsize = rsize],
                         p + nb, rsize, TRUE, FALSE)
    IN  Found(set_size_and_pinuse_of_inuse_chunk(moved, p, nb), p)

LimitRefusesLate(m, n) == m.footprint_limit # 0 /\ m.footprint > m.footprint_limit   \* mutant
LimitRefuses(m, n) ==
    /\ m.footprint_limit # 0
    /\ LET fp == (m.footprint + n) % Word IN fp <= m.footprint \/ fp > m.footprint_limit

\* What MORECORE gave: where, and how many bytes.
Got(m, at, n) == [m |-> m, tbase |-> at, tsize |-> n]

\* Contiguous growth, the first time: up to the end of a page.
FirstSpace(m, nb, asize) ==
    LET ssize == asize + RoundUp(m.brk, Granularity) - m.brk
    IN  IF ssize > nb /\ ssize < HALF_MAX_SIZE_T /\ ~LimitRefuses(m, ssize)
          THEN {Got(r.m, r.at, ssize) : r \in Sbrk(m, ssize)}
          ELSE {Got(m, CMFAIL, 0)}

\* ... and later: what top lacks.  Space that does not follow top is made large enough,
\* or given back.
MoreSpace(m, nb) ==
    LET need   == (nb + SYS_ALLOC_PADDING) % Word
        ssize  == granularity_align(need + Word - m.topsize)
        esize  == granularity_align(need - ssize)
        end    == m.seg[1].base + m.seg[1].size
        Extend(r) == UNION {IF e.at # CMFAIL THEN {Got(e.m, r.at, ssize + esize)}
                            ELSE {Got([e.m EXCEPT !.brk = b], CMFAIL, 0) :
                                     b \in {r.at, r.m.brk}} : e \in Sbrk(r.m, esize)}
    IN  IF ssize >= HALF_MAX_SIZE_T THEN {Got(m, CMFAIL, 0)}
        ELSE UNION {IF r.at \notin {CMFAIL, end} /\ ssize < need THEN Extend(r)
                    ELSE {Got(r.m, r.at, ssize)} : r \in Sbrk(m, ssize)}

\* A failure ends contiguous growth for good.
Contiguous(m, nb, asize) ==
    IF m.noncontiguous THEN {Got(m, CMFAIL, 0)}
    ELSE {IF g.tbase # CMFAIL THEN g ELSE [g EXCEPT !.m.noncontiguous = TRUE] :
             g \in IF m.top = NULL THEN FirstSpace(m, nb, asize) ELSE MoreSpace(m, nb)}

NonContiguous(m, nb, asize) ==
    IF asize >= HALF_MAX_SIZE_T THEN {Got(m, CMFAIL, 0)}
    ELSE {IF br.at # CMFAIL /\ br.m.brk - br.at > nb + TOP_FOOT_SIZE
            THEN Got(br.m, br.at, br.m.brk - br.at)
            ELSE Got(br.m, CMFAIL, 0) : br \in Sbrk(m, asize)}

\* New space becomes the first segment, more of top, or a segment of its own; nb is cut
\* off top.  (No break lies below an old segment: prepend_alloc has no caller here.)
UseSpace(g, nb) ==
    LET m       == [g.m EXCEPT !.footprint = @ + g.tsize]
        grown   == IF m.top = NULL
                     THEN init_top([m EXCEPT !.seg = <<[base |-> g.tbase, size |-> g.tsize]>>],
                                   g.tbase, g.tsize - TOP_FOOT_SIZE)
                   ELSE IF g.tbase = m.seg[1].base + m.seg[1].size
                     THEN init_top([m EXCEPT !.seg[1].size = @ + g.tsize],
                                   m.top, m.topsize + g.tsize)
                   ELSE add_segment(m, g.tbase, g.tsize)
    IN  IF nb < grown.topsize THEN SplitTop(grown, nb) ELSE Fail(grown)

sys_alloc(m, nb) ==
    LET asize == granularity_align(nb + SYS_ALLOC_PADDING)
        spaces == UNION {IF c.tbase # CMFAIL THEN {c} ELSE NonContiguous(c.m, nb, asize) :
                            c \in Contiguous(m, nb, asize)}
    IN  IF asize <= nb \/ LimitRefuses(m, asize) THEN {Fail([m EXCEPT !.refused = TRUE])}
        ELSE {IF g.tbase = CMFAIL THEN Fail(g.m) ELSE UseSpace(g, nb) : g \in spaces}

\* Pages of top beyond pad go back to the system, if it takes them and they are its last.
sys_trim(m, pad) ==
    LET keep    == pad + TOP_FOOT_SIZE
        extra   == ((m.topsize - keep + Granularity - 1) \div Granularity - 1) * Granularity
        end     == m.seg[1].base + m.seg[1].size
        shrunk  == [m EXCEPT !.brk = @ - extra, !.seg[1].size = @ - extra,
                             !.footprint = @ - extra,
                             !.head = Restrict(@, DOMAIN @ \ (end - extra .. end))]
        kept    == IF m.topsize > m.trim_check THEN [m EXCEPT !.trim_check = MAX_SIZE_T] ELSE m
    IN  IF pad >= MAX_REQUEST \/ m.top = NULL THEN {m}
        ELSE {kept} \cup
             IF m.topsize > keep /\ extra > 0 /\ m.brk = end
               THEN {init_top(shrunk, m.top, m.topsize - extra)} ELSE {}

-----------------------------------------------------------------------------
(* free.                                                                   *)
MergeTop(m, p, psize) ==
    LET t == SetHead([m EXCEPT !.top = p, !.topsize = @ + psize],
                     p, m.topsize + psize, TRUE, FALSE)
    IN  IF p = m.dv THEN set_dv(t, NULL, 0) ELSE t

MergeForward(m, p, psize, next) ==
    LET nsize == chunksize(m, next)
        free  == set_size_and_pinuse_of_free_chunk(unlink_chunk(m, next, nsize), p, psize + nsize)
    IN  IF p = m.dv THEN set_dv(free, p, psize + nsize)
                    ELSE insert_chunk(free, p, psize + nsize)

dispose_chunk(m, q, qsize) ==
    LET next  == q + qsize
        alone == m.head[q].pinuse
        p     == IF alone THEN q ELSE q - m.foot[q]
        psize == q + qsize - p
        back  == IF alone \/ p = m.dv THEN m ELSE unlink_chunk(m, p, m.foot[q])
        free  == set_free_with_pinuse(back, p, psize, next)
    IN  IF m.head[next].cinuse
          THEN IF p = m.dv THEN set_dv(free, p, psize) ELSE insert_chunk(free, p, psize)
        ELSE IF next = m.top THEN MergeTop(back, p, psize)
        ELSE IF next = m.dv
          THEN set_dv(set_size_and_pinuse_of_free_chunk(back, p, psize + m.dvsize),
                      p, psize + m.dvsize)
        ELSE MergeForward(back, p, psize, next)

dlfree(m, mem) ==
    LET p == mem2chunk(mem)
        d == dispose_chunk(m, p, chunksize(m, p))
    IN  IF d.topsize > m.topsize /\ d.topsize > d.trim_check THEN sys_trim(d, 0) ELSE {d}

-----------------------------------------------------------------------------
(* malloc: the bins, dv, top and the system, in the order that bytes and   *)
(* the bins decide.                                                        *)
SplitDv(m, nb) ==
    LET rsize == m.dvsize - nb
        p     == m.dv
    IN  Found(IF rsize >= MIN_CHUNK_SIZE
                THEN set_size_and_pinuse_of_inuse_chunk(
                        set_size_and_pinuse_of_free_chunk(set_dv(m, p + nb, rsize), p + nb, rsize),
                        p, nb)
                ELSE set_inuse_and_pinuse(set_dv(m, NULL, 0), p, m.dvsize),
              p)

FromDvOrTop(m, nb) ==
    IF nb <= m.dvsize THEN {SplitDv(m, nb)}
    ELSE IF nb < m.topsize THEN {SplitTop(m, nb)}
    ELSE sys_alloc(m, nb)

SmallMalloc(m, nb) ==
    LET exact  == NonEmpty(m, {nb, nb + 8})
        bigger == NonEmpty(m, nb .. MinLarge)
        p(sizes) == Head(m.smallbins[Min(sizes)])
    IN  IF exact # {}
          THEN {Found(set_inuse_and_pinuse(unlink_chunk(m, p(exact), Min(exact)),
                                           p(exact), Min(exact)), p(exact))}
        ELSE IF nb <= m.dvsize THEN FromDvOrTop(m, nb)
        ELSE IF bigger # {} THEN {Split(m, p(bigger), nb, replace_dv)}
        ELSE IF m.tree # <<>> THEN {tmalloc_small(m, nb)}
        ELSE FromDvOrTop(m, nb)

LargeMalloc(m, nb) ==
    LET t == tmalloc_large(m, nb) IN IF t.mem # NULL THEN {t} ELSE FromDvOrTop(m, nb)

dlmalloc(m, bytes) ==
    IF bytes <= MAX_SMALL_REQUEST THEN SmallMalloc(m, request2size(bytes))
    ELSE IF bytes >= MAX_REQUEST THEN FromDvOrTop(m, MAX_SIZE_T)
    ELSE LargeMalloc(m, pad_request(bytes))

CallocRequestUnchecked(n, e) == (n * e) % Word   \* mutant

\* The size calloc asks malloc for: a product that overflows becomes one that fails.
CallocRequest(n, e) ==
    LET req == (n * e) % Word
    IN  IF n = 0 THEN 0
        ELSE IF (n >= SqrtWord \/ e >= SqrtWord) /\ req \div n # e THEN MAX_SIZE_T
        ELSE req

-----------------------------------------------------------------------------
(* realloc, in place if what follows the chunk allows it.                  *)
CutTail(m, p, nb, rsize) ==
    IF rsize < MIN_CHUNK_SIZE THEN set_inuse(m, p, nb + rsize)
    ELSE dispose_chunk(set_inuse(set_inuse(m, p, nb), p + nb, rsize), p + nb, rsize)

GrowIntoTop(m, p, nb, size) ==
    SetHead([set_inuse(m, p, nb) EXCEPT !.top = p + nb, !.topsize = size - nb],
            p + nb, size - nb, TRUE, FALSE)

GrowIntoDv(m, p, nb, size) ==
    LET dsize == size - nb
        r     == p + nb
    IN  IF dsize >= MIN_CHUNK_SIZE
          THEN set_dv(clear_pinuse(set_size_and_pinuse_of_free_chunk(set_inuse(m, p, nb), r, dsize),
                                   r + dsize), r, dsize)
          ELSE set_dv(set_inuse(m, p, size), NULL, 0)

try_realloc_chunk(m, p, nb) ==
    LET oldsize == chunksize(m, p)
        next    == p + oldsize
        nsize   == chunksize(m, next)
    IN  IF oldsize >= nb
          THEN Found(IF oldsize - nb >= MIN_CHUNK_SIZE THEN CutTail(m, p, nb, oldsize - nb)
                                                       ELSE m, p)
        ELSE IF next = m.top
          THEN IF oldsize + m.topsize > nb
                 THEN Found(GrowIntoTop(m, p, nb, oldsize + m.topsize), p) ELSE Fail(m)
        ELSE IF next = m.dv
          THEN IF oldsize + m.dvsize >= nb
                 THEN Found(GrowIntoDv(m, p, nb, oldsize + m.dvsize), p) ELSE Fail(m)
        ELSE IF ~m.head[next].cinuse /\ oldsize + nsize >= nb
          THEN Found(CutTail(unlink_chunk(m, next, nsize), p, nb, oldsize + nsize - nb), p)
        ELSE Fail(m)

\* Moved when that fails: a new block, the contents copied, the old block freed.
dlrealloc(m, mem, bytes) ==
    LET t == try_realloc_chunk(m, mem2chunk(mem), request2size(bytes))
    IN  IF bytes >= MAX_REQUEST THEN {Fail([m EXCEPT !.refused = TRUE])}
        ELSE IF t.mem # NULL THEN {t}
        ELSE UNION {IF n.mem = NULL THEN {n}
                    ELSE {[m |-> f, mem |-> n.mem] : f \in dlfree(n.m, mem)} :
                       n \in dlmalloc(m, bytes)}

-----------------------------------------------------------------------------
(* memalign: a block large enough to contain an aligned one, of which the  *)
(* lead and the tail are given back.                                       *)
PowerOf2(n) == CHOOSE a \in {2 ^ k : k \in 0 .. 30} : a >= n /\ a < 2 * n

\* The first aligned chunk that leaves no lead or one that is a chunk.
aligned_chunk_near(p, mem, alignment) ==   \* mutant: any chunk after the lead
    LET br == mem2chunk(RoundUp(mem, alignment))
    IN  IF br = p \/ br - p >= MIN_CHUNK_SIZE THEN br ELSE p + MIN_CHUNK_SIZE

aligned_chunk(p, mem, alignment) ==
    LET br == mem2chunk(RoundUp(mem, alignment))
    IN  IF br = p \/ br - p >= MIN_CHUNK_SIZE THEN br ELSE br + alignment

internal_memalign(m, align, bytes) ==
    LET alignment == PowerOf2(IF align < MIN_CHUNK_SIZE THEN MIN_CHUNK_SIZE ELSE align)
        nb  == request2size(bytes)
        Aligned(o) ==
            LET p    == mem2chunk(o.mem)
                pos  == aligned_chunk(p, o.mem, alignment)
                lead == pos - p
                led  == IF pos = p THEN o.m
                        ELSE dispose_chunk(
                                set_inuse(set_inuse(o.m, pos, chunksize(o.m, p) - lead), p, lead),
                                p, lead)
                size == chunksize(led, pos)
            IN  Found(IF size > nb + MIN_CHUNK_SIZE THEN CutTail(led, pos, nb, size - nb) ELSE led,
                      pos)
    IN  IF bytes >= MAX_REQUEST - alignment THEN {Fail([m EXCEPT !.refused = TRUE])}
        ELSE {IF o.mem = NULL THEN o ELSE Aligned(o) :
                 o \in dlmalloc(m, nb + alignment + MIN_CHUNK_SIZE - CHUNK_OVERHEAD)}


-----------------------------------------------------------------------------
(* independent_calloc, independent_comalloc: one chunk is cut into the     *)
(* elements and, behind them, the array of their addresses.                *)
ElementOffset(sizes, i) == MapThenSumSet(LAMBDA j : request2size(sizes[j]), 1 .. i - 1)

Elements(mem, sizes) == [i \in 1 .. Len(sizes) + 1 |-> mem + ElementOffset(sizes, i)]

CutElements(o, sizes) ==
    LET n    == Len(sizes)
        mems == Elements(o.mem, sizes)
        rest == chunksize(o.m, mem2chunk(o.mem)) - ElementOffset(sizes, n + 1)
        Cut(m, i) == set_size_and_pinuse_of_inuse_chunk(m, mem2chunk(mems[i]),
                        IF i <= n THEN request2size(sizes[i]) ELSE rest)
    IN  [o EXCEPT !.m = FoldLeft(Cut, @, [k \in 1 .. n + 1 |-> n + 2 - k])]

ialloc(m, sizes) ==
    LET n    == Len(sizes)
        size == (ElementOffset(sizes, n + 1) + request2size(4 * n)) % Word
    IN  IF n = 0 THEN dlmalloc(m, 0)
        ELSE {IF o.mem = NULL THEN o ELSE CutElements(o, sizes) :
                 o \in dlmalloc(m, size - CHUNK_OVERHEAD)}

\* bulk_free: a block whose successor is next in the array is joined to it first.
bulk_free(m, array) ==
    LET Step(acc, i) ==
            LET p     == IF acc.joined # NULL THEN acc.joined ELSE mem2chunk(array[i])
                psize == chunksize(acc.m, p)
                next  == p + psize
            IN  IF i < Len(array) /\ array[i + 1] = chunk2mem(next)
                  THEN [m |-> set_inuse(acc.m, p, psize + chunksize(acc.m, next)), joined |-> p]
                  ELSE [m |-> dispose_chunk(acc.m, p, psize), joined |-> NULL]
        freed == FoldLeft(Step, [m |-> m, joined |-> NULL], [i \in 1 .. Len(array) |-> i]).m
    IN  IF freed.topsize > freed.trim_check THEN sys_trim(freed, 0) ELSE {freed}

-----------------------------------------------------------------------------
(* The calls of a client.                                                  *)
Return(o) ==
    /\ gm' = [o.m EXCEPT !.refused = FALSE]
    /\ unexplained' = (o.mem = NULL /\ ~o.m.refused)

\* What a call that allocates returns is held; NULL changes nothing.
Allocate(outcomes, size) == \E o \in outcomes :
    /\ Return(o)
    /\ held' = IF o.mem = NULL THEN held ELSE (o.mem :> size) @@ held

Room == Cardinality(DOMAIN held) < MaxHeld

Malloc == Room /\ \E n \in Requests : Allocate(dlmalloc(gm, n), n)

Calloc == Room /\ \E p \in Products :
    Allocate(dlmalloc(gm, CallocRequest(p[1], p[2])), p[1] * p[2])

Memalign == Room /\ \E a \in Alignments, n \in Requests :
    Allocate(IF a <= MALLOC_ALIGNMENT THEN dlmalloc(gm, n) ELSE internal_memalign(gm, a, n), n)

Drop(mems) == Restrict(held, DOMAIN held \ mems)

Free == \E mem \in DOMAIN held, m \in {gm} : \E f \in dlfree(m, mem) :
    /\ Return([m |-> f, mem |-> mem])
    /\ held' = Drop({mem})

Realloc == \E mem \in DOMAIN held, n \in Requests : \E o \in dlrealloc(gm, mem, n) :
    /\ Return(o)
    /\ held' = IF o.mem = NULL THEN held ELSE (o.mem :> n) @@ Drop({mem})

ReallocInPlace == \E mem \in DOMAIN held, n \in Requests :
    LET o == IF n >= MAX_REQUEST THEN Fail(gm)
             ELSE try_realloc_chunk(gm, mem2chunk(mem), request2size(n))
    IN  /\ gm' = o.m
        /\ held' = IF o.mem = NULL THEN held ELSE [held EXCEPT ![mem] = n]
        /\ unexplained' = FALSE

IndependentAlloc == Cardinality(DOMAIN held) + 2 < MaxHeld /\ \E sizes \in Arrays :
    \E o \in ialloc(gm, sizes) :
        /\ Return(o)
        /\ held' = IF o.mem = NULL THEN held
                   ELSE LET mems == Elements(o.mem, sizes)
                            n    == Len(sizes)
                        IN  [a \in Range(mems) |-> LET i == CHOOSE i \in 1 .. n + 1 : mems[i] = a
                                                   IN  IF i <= n THEN sizes[i] ELSE 4 * n] @@ held

BulkFree == \E a, b \in DOMAIN held :
    /\ a # b
    /\ \E f \in bulk_free(gm, <<a, b>>) : Return([m |-> f, mem |-> a])
    /\ held' = Drop({a, b})

Trim == \E pad \in Pads : \E f \in sys_trim(gm, pad) :
    /\ gm' = f
    /\ unexplained' = FALSE
    /\ UNCHANGED held

\* The limit as a request of that many bytes; 0 is meant to be the least limit, but the
\* second test of the code overwrites it.
FootprintLimit(bytes) == IF bytes = MAX_SIZE_T THEN 0 ELSE granularity_align(bytes)

SetFootprintLimit == \E bytes \in Limits :
    /\ gm' = [gm EXCEPT !.footprint_limit = FootprintLimit(bytes)]
    /\ unexplained' = FALSE
    /\ UNCHANGED held

\* Another caller of sbrk in the same program.
MoveBreak == \E n \in Moves :
    /\ gm.brk + n <= MaxBrk
    /\ gm' = [gm EXCEPT !.brk = @ + n]
    /\ unexplained' = FALSE
    /\ UNCHANGED held

Next == \/ Malloc \/ Calloc \/ Memalign \/ Free \/ Realloc \/ ReallocInPlace
        \/ IndependentAlloc \/ BulkFree \/ Trim \/ SetFootprintLimit \/ MoveBreak

Spec == Init /\ [][Next]_vars

-----------------------------------------------------------------------------
(* The assertions of the DEBUG build, do_check_malloc_state.               *)
Fencepost(m, p) == m.head[p].size = 4 /\ m.head[p].cinuse

\* The chunks a traversal of segment s meets: not top, nor what lies behind it.
ChunksOf(m, s) == {p \in DOMAIN m.head : /\ segment_holds(s, p) /\ ~Fencepost(m, p)
                                         /\ p \notin {m.top, m.top + m.topsize}}
Chunks(m) == UNION {ChunksOf(m, m.seg[i]) : i \in DOMAIN m.seg}

bin_find(m, p) ==
    \/ \E s \in SmallSizes \cap {chunksize(m, p)} : p \in Range(m.smallbins[s])
    \/ ~is_small(chunksize(m, p)) /\ p \in Range(m.tree)

do_check_inuse_chunk(m, p) ==
    /\ is_inuse(m, p) /\ ~bin_find(m, p)
    /\ m.head[p + chunksize(m, p)].pinuse
    /\ ~m.head[p].pinuse => p - m.foot[p] \in Chunks(m) /\ chunksize(m, p - m.foot[p]) = m.foot[p]

do_check_free_chunk(m, p) ==
    LET size == chunksize(m, p)
        next == p + size
    IN  /\ m.head[p].pinuse /\ ~m.head[next].pinuse
        /\ p = m.dv \/ bin_find(m, p)
        /\ size % MALLOC_ALIGNMENT = 0 /\ size >= MIN_CHUNK_SIZE
        /\ m.foot[next] = size
        /\ next = m.top \/ is_inuse(m, next)

do_check_top_chunk(m, p) ==
    /\ segment_holds(m.seg[1], p)
    /\ m.head[p].size = m.topsize /\ m.topsize > 0
    /\ m.topsize = m.seg[1].base + m.seg[1].size - p - TOP_FOOT_SIZE
    /\ m.head[p].pinuse /\ ~m.head[p + m.topsize].pinuse
    /\ ~bin_find(m, p)

do_check_bins(m) ==
    /\ \A s \in SmallSizes : \A p \in Range(m.smallbins[s]) :
          p \in Chunks(m) /\ ~is_inuse(m, p) /\ chunksize(m, p) = s /\ p # m.dv
    /\ \A p \in Range(m.tree) :
          p \in Chunks(m) /\ ~is_inuse(m, p) /\ ~is_small(chunksize(m, p)) /\ p # m.dv
    /\ IsInjective(m.tree) /\ \A s \in SmallSizes : IsInjective(m.smallbins[s])

\* The traversal: each chunk of a segment is followed by one, down to top or the fenceposts.
traverse_and_check(m) ==
    /\ \A i \in DOMAIN m.seg : LET s == m.seg[i] first == align_as_chunk(s.base) IN
          /\ first \in ChunksOf(m, s) \cup {m.top} /\ m.head[first].pinuse
          /\ \A p \in ChunksOf(m, s) : p + chunksize(m, p) \in DOMAIN m.head
    /\ \A p \in Chunks(m) : IF is_inuse(m, p) THEN do_check_inuse_chunk(m, p)
                                              ELSE do_check_free_chunk(m, p)
    /\ MapThenSumSet(LAMBDA p : chunksize(m, p), Chunks(m)) + m.topsize + TOP_FOOT_SIZE
          <= m.footprint

do_check_malloced_chunk(m, mem, nb) ==
    LET p == mem2chunk(mem)
    IN  /\ p \in Chunks(m) /\ do_check_inuse_chunk(m, p)
        /\ chunksize(m, p) >= nb /\ chunksize(m, p) < nb + MIN_CHUNK_SIZE

-----------------------------------------------------------------------------
(* Properties.                                                             *)

\* Every assertion of do_check_malloc_state holds between two calls: the chunks tile the
\* segments, no two free ones touch, each free one is in its bin or is dv, bits and feet
\* agree with the neighbours (malloc.c:3418-3477, compiled out of libk).
CheckMallocState == gm.top # NULL =>
    /\ do_check_bins(gm)
    /\ gm.dvsize # 0 => /\ gm.dv \in Chunks(gm) /\ ~bin_find(gm, gm.dv)
                        /\ gm.dvsize = chunksize(gm, gm.dv) /\ gm.dvsize >= MIN_CHUNK_SIZE
    /\ do_check_top_chunk(gm, gm.top)
    /\ traverse_and_check(gm)

Overlap(a, n, b, k) == a < b + k /\ b < a + n

\* No word malloc.c keeps for itself lies in a client's block: neither a size, nor a foot,
\* nor the links of a binned chunk; and the block is memory the system gave and has not
\* been given back.
BlocksApart == \A mem \in DOMAIN held :
    /\ \A p \in DOMAIN gm.head : ~Overlap(mem, held[mem], p + 4, 4)
    /\ \A p \in DOMAIN gm.foot : ~Overlap(mem, held[mem], p, 4)
    /\ \A s \in SmallSizes : \A p \in Range(gm.smallbins[s]) : ~Overlap(mem, held[mem], p + 8, 8)
    /\ \A p \in Range(gm.tree) : ~Overlap(mem, held[mem], p + 8, 24)
    /\ \E i \in DOMAIN gm.seg : LET s == gm.seg[i] IN
          mem >= s.base /\ mem + held[mem] <= s.base + s.size /\ s.base + s.size <= gm.brk

\* Whatever the state of the bins, a request is served by a chunk that is large enough and
\* less than a chunk too large, and memalign's block is aligned as asked.
CheckMalloced == \A n \in Requests :
    /\ \A o \in dlmalloc(gm, n) :
          o.mem # NULL => do_check_malloced_chunk(o.m, o.mem, request2size(n))
    /\ \A a \in Alignments : \A o \in internal_memalign(gm, a, n) :
          o.mem # NULL => o.mem % a = 0

\* A call fails only if the system or the footprint limit refuses: the padding asked for
\* is enough for alignment, fenceposts and the record of a segment.
FailsOnlyWhenRefused == ~unexplained

\* The footprint never grows beyond the limit that is set, on any of the ways to the system.
LimitRespected == [][gm'.footprint > gm.footprint =>
    gm.footprint_limit = 0 \/ gm'.footprint <= gm.footprint_limit]_vars

\* The heap implements what stdlib.h promises: aligned blocks that share no byte.
A == INSTANCE Allocator WITH Alignment <- MALLOC_ALIGNMENT
ImplementsAllocator == A!Spec
=============================================================================
