-------------------------------- MODULE List --------------------------------
(***************************************************************************)
(* The intrusive doubly linked list of k/list.c.  A node lives inside the  *)
(* structure it links, so a list is nothing but the `next' and `prev'      *)
(* pointers of a set of nodes: a heap, here a record of two functions.     *)
(* A list is named by its head, and is circular through it.                *)
(***************************************************************************)
EXTENDS Integers, Sequences, SequencesExt

CONSTANTS Node,  \* every struct list there is: heads and elements
          Nil    \* NULL, no node

Heap == [next : [Node -> Node \cup {Nil}], prev : [Node -> Node \cup {Nil}]]

list_init(h, l) ==
    [h EXCEPT !.prev[l] = l, !.next[l] = l]

(* elm becomes the successor of l: first of the list when l is its head,   *)
(* last when l is the head's prev.                                         *)
list_insert(h, l, elm) ==
    [h EXCEPT !.prev[elm] = l, !.prev[h.next[l]] = elm,
              !.next[elm] = h.next[l], !.next[l] = elm]

list_remove(h, elm) ==
    [h EXCEPT !.next[h.prev[elm]] = h.next[elm],
              !.prev[h.next[elm]] = h.prev[elm],
              !.next[elm] = Nil, !.prev[elm] = Nil]

list_empty(h, l) == h.next[l] = l

(* The list a head names, read along a pointer function: forwards, as      *)
(* list_for_each does, along `next', backwards along `prev'.  Reading      *)
(* stops after `bound' nodes should a damaged list never come round.       *)
Walk(p, l, bound) ==
    LET walk[i \in 0 .. bound] ==
          IF i = 0 THEN <<>>
          ELSE LET seq == walk[i - 1]
                   x   == p[IF seq = <<>> THEN l ELSE Last(seq)]
               IN  IF x \in {l, Nil} THEN seq ELSE Append(seq, x)
    IN  walk[bound]
=============================================================================
