------------------------------- MODULE TreeBin -------------------------------
(***************************************************************************)
(* The bins of large chunks in libs/libk/malloc.c: bitwise tries of sizes, *)
(* chunks of one size on a ring behind the node that stands for them.      *)
(* DlMalloc takes the tries for one sequence of chunks in order of         *)
(* insertion; here they are, pointer by pointer, and that they yield the   *)
(* chunk the sequence does.                                                *)
(***************************************************************************)
EXTENDS Integers, Sequences, FiniteSets, SequencesExt

CONSTANTS
    Chunk,          \* places for free chunks
    NULL,
    TREEBIN_SHIFT, NTREEBINS, SIZE_T_BITSIZE,
    Sizes           \* bound: the sizes chunks have and requests ask for

\* What the constants have to be; the module that gives them values assumes it of them.
TreeShape ==
    /\ NULL \notin Chunk
    /\ TREEBIN_SHIFT \in Nat \ {0} /\ NTREEBINS % 2 = 0 /\ SIZE_T_BITSIZE \in Nat
    /\ Sizes \subseteq 2 ^ TREEBIN_SHIFT .. 2 ^ SIZE_T_BITSIZE - 1

VARIABLES
    node,    \* free chunk -> its size, index, child, parent, fd and bk
    bins,    \* treebins: index -> root, or NULL
    treemap, \* the marked indices
    order    \* history: the free chunks, the oldest first

vars == <<node, bins, treemap, order>>

SIZE_T_WORD == 2 ^ SIZE_T_BITSIZE
Index == 0 .. NTREEBINS - 1
\* The parent field of a root: the address of its bin.
Bin(i) == -1 - i

Shifted(s, k) == s \div 2 ^ k
LeftBits(s, k) == (s * 2 ^ k) % SIZE_T_WORD
SignBit(bits) == Shifted(bits, SIZE_T_BITSIZE - 1)

compute_tree_index(s) ==
    LET x == Shifted(s, TREEBIN_SHIFT)
        k == CHOOSE k \in 0 .. SIZE_T_BITSIZE : 2 ^ k <= x /\ x < 2 ^ (k + 1)
    IN  IF x = 0 THEN 0
        ELSE IF x > 2 ^ (NTREEBINS \div 2) - 1 THEN NTREEBINS - 1
        ELSE 2 * k + (Shifted(s, k + TREEBIN_SHIFT - 1) % 2)

leftshift_for_tree_index(i) ==
    IF i = NTREEBINS - 1 THEN 0
    ELSE SIZE_T_BITSIZE - 1 - (i \div 2 + TREEBIN_SHIFT - 2)

minsize_for_tree_index(i) ==
    2 ^ (i \div 2 + TREEBIN_SHIFT) + (i % 2) * 2 ^ (i \div 2 + TREEBIN_SHIFT - 1)

SizeBits(s) == LeftBits(s, leftshift_for_tree_index(compute_tree_index(s)))

Init ==
    /\ node = [x \in {} |-> 0]
    /\ bins = [i \in Index |-> NULL]
    /\ treemap = {}
    /\ order = <<>>

Free == DOMAIN node
chunksize(x) == node[x].size

-----------------------------------------------------------------------------
(* insert_large_chunk.                                                     *)

\* Where the descent for size s from t ends: on a node of that size, or at the empty
\* child, on side b, of the last node on the way.
RECURSIVE Descend(_, _, _)
Descend(t, s, bits) ==
    LET b == SignBit(bits)
        c == node[t].child[b]
    IN  IF chunksize(t) = s THEN [at |-> t, side |-> NULL, found |-> TRUE]
        ELSE IF c = NULL THEN [at |-> t, side |-> b, found |-> FALSE]
        ELSE Descend(c, s, LeftBits(bits, 1))

Fresh(x, s, i, parent, fd, bk) ==
    x :> [size |-> s, index |-> i, child |-> [b \in {0, 1} |-> NULL],
          parent |-> parent, fd |-> fd, bk |-> bk]

InsertFirst(x, s, i) ==
    /\ i \notin treemap
    /\ treemap' = treemap \cup {i}
    /\ bins' = [bins EXCEPT ![i] = x]
    /\ node' = Fresh(x, s, i, Bin(i), x, x) @@ node

InsertLeaf(x, s, i, d) ==
    /\ ~d.found
    /\ node' = Fresh(x, s, i, d.at, x, x) @@ [node EXCEPT ![d.at].child[d.side] = x]
    /\ UNCHANGED <<bins, treemap>>

\* On the ring, right behind the node.
InsertOnRing(x, s, i, d) ==
    LET f == node[d.at].fd
    IN  /\ d.found
        /\ node' = Fresh(x, s, i, NULL, f, d.at)
                      @@ [node EXCEPT ![d.at].fd = x, ![f].bk = x]
        /\ UNCHANGED <<bins, treemap>>

insert_large_chunk(x, s) ==
    LET i == compute_tree_index(s)
    IN  \/ InsertFirst(x, s, i)
        \/ /\ i \in treemap
           /\ LET d == Descend(bins[i], s, SizeBits(s))
              IN  InsertLeaf(x, s, i, d) \/ InsertOnRing(x, s, i, d)

-----------------------------------------------------------------------------
(* unlink_large_chunk.                                                     *)

Rightmost(t) == IF node[t].child[1] # NULL THEN node[t].child[1] ELSE node[t].child[0]

RECURSIVE Leaf(_)
Leaf(t) == IF Rightmost(t) = NULL THEN t ELSE Leaf(Rightmost(t))

ReplacementChild(x) ==   \* mutant: a child, with its own children, instead of a leaf
    IF node[x].bk # x THEN node[x].bk ELSE Rightmost(x)
\* What takes x's place: the chunk behind it on the ring, or else a leaf below it.
Replacement(x) ==
    IF node[x].bk # x THEN node[x].bk
    ELSE IF Rightmost(x) = NULL THEN NULL ELSE Leaf(x)

\* The replacement r leaves the place it had ...
DetachRing(n, x) ==
    [n EXCEPT ![n[x].fd].bk = n[x].bk, ![n[x].bk].fd = n[x].fd]

DetachLeaf(n, r) ==
    LET p == n[r].parent
    IN  [n EXCEPT ![p].child = [b \in {0, 1} |-> IF @[b] = r THEN NULL ELSE @[b]]]

\* ... and gets x's parent and children.
OwnChild(n, x, r, b) == n[r].child[b]   \* mutant: those of x are lost
KeptChild(n, x, r, b) == IF n[x].child[b] # NULL THEN n[x].child[b] ELSE n[r].child[b]

Adopt(n, x, r) ==
    LET below == {n[x].child[b] : b \in {0, 1}} \ {NULL}
        up    == n[x].parent
    IN  [y \in DOMAIN n |->
            IF y = r THEN [n[r] EXCEPT !.parent = up, 
                                            !.child = [b \in {0, 1} |-> KeptChild(n, x, r, b)]]
            ELSE IF y \in below THEN [n[y] EXCEPT !.parent = r]
            ELSE IF y = up THEN [n[y] EXCEPT !.child =
                                    [b \in {0, 1} |-> IF @[b] = x THEN r ELSE @[b]]]
            ELSE n[y]]

unlink_large_chunk(x) ==
    LET r    == Replacement(x)
        i    == node[x].index
        root == bins[i] = x
        n    == IF node[x].bk # x THEN DetachRing(node, x)
                ELSE IF r # NULL THEN DetachLeaf(node, r) ELSE node
        out  == IF node[x].parent = NULL THEN n ELSE Adopt(n, x, r)
    IN  /\ node' = Restrict(out, Free \ {x})
        /\ bins' = IF root THEN [bins EXCEPT ![i] = r] ELSE bins
        /\ treemap' = IF root /\ r = NULL THEN treemap \ {i} ELSE treemap

-----------------------------------------------------------------------------
(* The searches of tmalloc_large and tmalloc_small.                        *)

leftmost_child(t) == IF node[t].child[0] # NULL THEN node[t].child[0] ELSE node[t].child[1]

trem(t, nb) == (chunksize(t) + SIZE_T_WORD - nb) % SIZE_T_WORD
Better(v, rsize, t, nb) ==
    IF trem(t, nb) < rsize THEN [v |-> t, rsize |-> trem(t, nb)] ELSE [v |-> v, rsize |-> rsize]

RECURSIVE Leftmost(_, _, _, _)
Leftmost(t, v, rsize, nb) ==
    LET best == Better(v, rsize, t, nb)
    IN  IF t = NULL THEN v ELSE Leftmost(leftmost_child(t), best.v, best.rsize, nb)

\* Down the bin of nb; rst is the deepest right subtree not taken.
RECURSIVE Along(_, _, _, _, _, _)
Along(t, v, rsize, rst, bits, nb) ==
    LET best == Better(v, rsize, t, nb)
        rt   == node[t].child[1]
        next == node[t].child[SignBit(bits)]
        left == IF rt # NULL /\ rt # next THEN rt ELSE rst
    IN  IF best.rsize = 0 THEN [t |-> NULL, v |-> best.v, rsize |-> 0]
        ELSE IF next = NULL THEN [t |-> left, v |-> best.v, rsize |-> best.rsize]
        ELSE Along(next, best.v, best.rsize, left, LeftBits(bits, 1), nb)

NextBin(i) ==
    LET later == {j \in treemap : j > i}
    IN  IF later = {} THEN NULL ELSE bins[Min(later)]

ResumeNoRight(a, i) == IF a.v = NULL THEN NextBin(i) ELSE NULL   \* mutant: rst forgotten
Resume(a, i) == IF a.t = NULL /\ a.v = NULL THEN NextBin(i) ELSE a.t

BestLarge(nb) ==
    LET i == compute_tree_index(nb)
        a == IF bins[i] = NULL THEN [t |-> NULL, v |-> NULL, rsize |-> SIZE_T_WORD - nb]
             ELSE Along(bins[i], NULL, SIZE_T_WORD - nb, NULL, SizeBits(nb), nb)
    IN  Leftmost(Resume(a, i), a.v, a.rsize, nb)

\* A small request: less than any size in the tries.
BestSmall(nb) ==
    LET root == bins[Min(treemap)]
    IN  Leftmost(leftmost_child(root), root, trem(root, nb), nb)

-----------------------------------------------------------------------------
\* Chunks become free; a neighbour takes them, or a request does that they suit best.
Insert == \E x \in Chunk \ Free, s \in Sizes :
    /\ insert_large_chunk(x, s)
    /\ order' = Append(order, x)

Unlink(x) == unlink_large_chunk(x) /\ order' = Remove(order, x)

Coalesce == \E x \in Free : Unlink(x)

TakeLarge == \E nb \in Sizes : BestLarge(nb) # NULL /\ Unlink(BestLarge(nb))

TakeSmall == treemap # {} /\ Unlink(BestSmall(1))

Next == Insert \/ Coalesce \/ TakeLarge \/ TakeSmall

Spec == Init /\ [][Next]_vars

-----------------------------------------------------------------------------
(* Properties.                                                             *)

RECURSIVE Below(_)
Below(t) == IF t = NULL THEN {} ELSE {t} \cup Below(node[t].child[0]) \cup Below(node[t].child[1])

Ring(t) == {x \in Free : x = t \/ (node[x].parent = NULL /\ chunksize(x) = chunksize(t))}

do_check_tree(i, t) ==
    /\ \A x \in Ring(t) : /\ node[x].index = i /\ compute_tree_index(chunksize(x)) = i
                          /\ node[node[x].fd].bk = x /\ node[node[x].bk].fd = x
                          /\ x # t => node[x].child = [b \in {0, 1} |-> NULL]
    /\ chunksize(t) >= minsize_for_tree_index(i)
    /\ i # NTREEBINS - 1 => chunksize(t) < minsize_for_tree_index(i + 1)
    /\ \A b \in {0, 1} : node[t].child[b] # NULL => node[node[t].child[b]].parent = t
    /\ NULL \notin {node[t].child[0], node[t].child[1]} =>
          chunksize(node[t].child[0]) < chunksize(node[t].child[1])

\* Between two operations each trie passes the checks of the debug build, an index is
\* marked exactly while its trie has a root, and every free chunk is in one
\* (malloc.c:3296-3356, compiled out of libk).
TreesChecked ==
    /\ \A i \in Index : i \in treemap <=> bins[i] # NULL
    /\ \A i \in treemap : /\ node[bins[i]].parent = Bin(i)
                          /\ \A t \in Below(bins[i]) : do_check_tree(i, t)
    /\ Free = UNION {UNION {Ring(t) : t \in Below(bins[i])} : i \in treemap}

\* The chunk of the least size that suffices, the oldest of that size.
BestFit(nb) ==
    LET fits == {k \in DOMAIN order : chunksize(order[k]) >= nb}
        best == {k \in fits : \A j \in fits : chunksize(order[k]) <= chunksize(order[j])}
    IN  IF fits = {} THEN NULL ELSE order[Min(best)]

\* Both searches find the best fit, whatever was inserted and removed before: no subtree
\* with a better one is passed by.
SearchFinds ==
    /\ \A nb \in Sizes : BestLarge(nb) = BestFit(nb)
    /\ treemap # {} => BestSmall(1) = BestFit(1)

\* The descent for a chunk's own size ends at the node whose ring holds it: a replacement
\* taken from elsewhere would hide the chunks below it (bin_find, malloc.c:3396-3413).
BinFind == \A x \in Free :
    LET d == Descend(bins[node[x].index], chunksize(x), SizeBits(chunksize(x)))
    IN  d.found /\ x \in Ring(d.at)
=============================================================================
