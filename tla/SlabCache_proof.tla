--------------------------- MODULE SlabCache_proof ---------------------------
(***************************************************************************)
(* The freelists of a slab cache, as rings of pointers, for any number and *)
(* size of objects, any number of slabs and any place they are given.      *)
(***************************************************************************)
EXTENDS SlabCache, FiniteSetTheorems, SequenceTheorems, WellFoundedInduction, TLAPS

-----------------------------------------------------------------------------
(* Three writes to the pointers, node by node                              *)

LEMMA HeapFields ==
    ASSUME NEW h \in L!Heap
    PROVE  /\ h.next \in [Node -> Node \cup {Nil}] /\ h.prev \in [Node -> Node \cup {Nil}]
           /\ h = [next |-> h.next, prev |-> h.prev]
           /\ DOMAIN h = {"next", "prev"}
BY DEF L!Heap

LEMMA InitPointers ==
    ASSUME NEW h \in L!Heap, NEW l \in Node
    PROVE  /\ L!list_init(h, l) \in L!Heap
           /\ \A x \in Node :
                /\ L!list_init(h, l).next[x] = IF x = l THEN l ELSE h.next[x]
                /\ L!list_init(h, l).prev[x] = IF x = l THEN l ELSE h.prev[x]
<1> DEFINE g == L!list_init(h, l)
<1>1. g = [h EXCEPT !.prev[l] = l, !.next[l] = l]
  BY DEF L!list_init
<1>2. /\ g.next = [h.next EXCEPT ![l] = l] /\ g.prev = [h.prev EXCEPT ![l] = l]
      /\ DOMAIN g = {"next", "prev"}
  BY <1>1, HeapFields
<1>3. g = [next |-> g.next, prev |-> g.prev]
  BY <1>1, HeapFields
<1> HIDE DEF g
<1>4. g.next \in [Node -> Node \cup {Nil}] /\ g.prev \in [Node -> Node \cup {Nil}]
  BY <1>2, HeapFields
<1>5. g \in L!Heap
  BY <1>3, <1>4 DEF L!Heap
<1> QED
  BY <1>2, <1>5, HeapFields DEF g

LEMMA InsertPointers ==
    ASSUME NEW h \in L!Heap, NEW l \in Node, NEW elm \in Node, h.next[l] \in Node
    PROVE  /\ L!list_insert(h, l, elm) \in L!Heap
           /\ \A x \in Node :
                /\ L!list_insert(h, l, elm).next[x] =
                     IF x = l THEN elm ELSE IF x = elm THEN h.next[l] ELSE h.next[x]
                /\ L!list_insert(h, l, elm).prev[x] =
                     IF x = h.next[l] THEN elm ELSE IF x = elm THEN l ELSE h.prev[x]
<1> DEFINE g == L!list_insert(h, l, elm)
           m == h.next[l]
<1>1. g = [h EXCEPT !.prev[elm] = l, !.prev[m] = elm, !.next[elm] = m, !.next[l] = elm]
  BY DEF L!list_insert
<1> DEFINE next == [[h.next EXCEPT ![elm] = m] EXCEPT ![l] = elm]
           prev == [[h.prev EXCEPT ![elm] = l] EXCEPT ![m] = elm]
<1>2. g = [next |-> next, prev |-> prev]
  BY <1>1, HeapFields
<1>3. next \in [Node -> Node \cup {Nil}] /\ prev \in [Node -> Node \cup {Nil}]
  BY HeapFields
<1>4. \A x \in Node :
        /\ next[x] = IF x = l THEN elm ELSE IF x = elm THEN m ELSE h.next[x]
        /\ prev[x] = IF x = m THEN elm ELSE IF x = elm THEN l ELSE h.prev[x]
  BY HeapFields
<1> HIDE DEF g, next, prev
<1>5. g.next = next /\ g.prev = prev
  BY <1>2
<1>6. g \in L!Heap
  BY <1>2, <1>3 DEF L!Heap
<1> QED
  BY <1>4, <1>5, <1>6 DEF g

LEMMA RemovePointers ==
    ASSUME NEW h \in L!Heap, NEW elm \in Node, h.next[elm] \in Node, h.prev[elm] \in Node
    PROVE  /\ L!list_remove(h, elm) \in L!Heap
           /\ \A x \in Node :
                /\ L!list_remove(h, elm).next[x] =
                     IF x = elm THEN Nil ELSE IF x = h.prev[elm] THEN h.next[elm] ELSE h.next[x]
                /\ L!list_remove(h, elm).prev[x] =
                     IF x = elm THEN Nil ELSE IF x = h.next[elm] THEN h.prev[elm] ELSE h.prev[x]
<1> DEFINE g == L!list_remove(h, elm)
           m == h.next[elm]
           p == h.prev[elm]
           next == [[h.next EXCEPT ![p] = m] EXCEPT ![elm] = Nil]
           prev == [[h.prev EXCEPT ![m] = p] EXCEPT ![elm] = Nil]
<1>1. g = [h EXCEPT !.next[p] = m, !.prev[m] = p, !.next[elm] = Nil, !.prev[elm] = Nil]
  BY DEF L!list_remove
<1>2. g = [next |-> next, prev |-> prev]
  BY <1>1, HeapFields
<1>3. next \in [Node -> Node \cup {Nil}] /\ prev \in [Node -> Node \cup {Nil}]
  BY HeapFields
<1>4. \A x \in Node :
        /\ next[x] = IF x = elm THEN Nil ELSE IF x = p THEN m ELSE h.next[x]
        /\ prev[x] = IF x = elm THEN Nil ELSE IF x = m THEN p ELSE h.prev[x]
  BY HeapFields
<1> HIDE DEF g, next, prev
<1>5. g.next = next /\ g.prev = prev
  BY <1>2
<1>6. g \in L!Heap
  BY <1>2, <1>3 DEF L!Heap
<1> QED
  BY <1>4, <1>5, <1>6 DEF g

-----------------------------------------------------------------------------
(* What the recursive definitions compute                                  *)

(* A non-empty set of numbers has a least member.                          *)
LEMMA LeastExists ==
    ASSUME NEW S \in SUBSET Nat, S # {}
    PROVE  \E k \in S : \A j \in S : k <= j
<1> DEFINE T == {0 .. x : x \in S}
<1>1. IsWellFoundedOn(StrictSubsetOrdering(Nat), FiniteSubsetsOf(Nat))
  BY FS_StrictSubsetOrderingWellFounded
<1>2. T \subseteq FiniteSubsetsOf(Nat)
  <2>1. ASSUME NEW x \in S  PROVE IsFiniteSet(0 .. x) /\ 0 .. x \subseteq Nat
    BY FS_Interval
  <2> QED
    BY <2>1 DEF FiniteSubsetsOf
<1>3. PICK I \in T : \A J \in T : ~(<<J, I>> \in StrictSubsetOrdering(Nat))
  <2>1. T # {}
    OBVIOUS
  <2> QED
    BY <1>1, <1>2, <2>1, WFMin
<1>4. PICK i \in S : I = 0 .. i
  OBVIOUS
<1>5. ASSUME NEW j \in S, j < i  PROVE FALSE
  <2>1. 0 .. j \in T /\ 0 .. j \subseteq I /\ 0 .. j # I /\ 0 .. j \subseteq Nat
    BY <1>4, <1>5
  <2>2. <<0 .. j, I>> \in StrictSubsetOrdering(Nat)
    BY <1>4, <2>1 DEF StrictSubsetOrdering
  <2> QED
    BY <1>3, <2>1, <2>2
<1> QED
  BY <1>5

(* Two functions that begin alike and continue alike end alike.            *)
LEMMA SameFromStart ==
    ASSUME NEW N \in Nat, NEW f, NEW g, f[0] = g[0],
           \A i \in 1 .. N : f[i - 1] = g[i - 1] => f[i] = g[i]
    PROVE  f[N] = g[N]
<1> DEFINE Bad == {i \in 0 .. N : f[i] # g[i]}
<1>1. ASSUME Bad # {}  PROVE FALSE
  <2>1. Bad \in SUBSET Nat
    OBVIOUS
  <2> HIDE DEF Bad
  <2>2. PICK k \in Bad : \A j \in Bad : k <= j
    BY <1>1, <2>1, LeastExists
  <2>3. k \in 0 .. N /\ f[k] # g[k]
    BY DEF Bad
  <2>4. k \in 1 .. N /\ k - 1 \in 0 .. N /\ ~(k <= k - 1)
    BY <2>3
  <2>5. f[k - 1] = g[k - 1]
    BY <2>2, <2>4 DEF Bad
  <2> QED
    BY <2>3, <2>4, <2>5
<1> QED
  BY <1>1

Prefix(n, r) == [i \in 1 .. n |-> r[i]]

(* Reading the pointers p from l, when they pass through r[1], .., r[n]    *)
(* and come back to l, gives these nodes in this order.                    *)
LEMMA WalkReads ==
    ASSUME NEW p \in [Node -> Node \cup {Nil}], NEW n \in Nat, NEW l \in Node,
           NEW r \in [0 .. n + 1 -> Node], r[0] = l, r[n + 1] = l,
           \A i \in 1 .. n : r[i] # l,
           \A i \in 0 .. n : p[r[i]] = r[i + 1],
           Nil \notin Node,
           NEW bound \in Nat, n <= bound
    PROVE  L!Walk(p, l, bound) = Prefix(n, r)
<1> DEFINE Read(seq) == LET x == p[IF seq = <<>> THEN l ELSE Last(seq)]
                        IN  IF x \in {l, Nil} THEN seq ELSE Append(seq, x)
           upto(i) == [j \in 1 .. i |-> r[j]]
           f == [i \in 0 .. bound |-> IF i <= n THEN upto(i) ELSE upto(n)]
           Step(g, i) == IF i = 0 THEN <<>> ELSE Read(g[i - 1])
           Walked(g) == g = [i \in 0 .. bound |-> Step(g, i)]
           w == CHOOSE g : Walked(g)
<1>1. L!Walk(p, l, bound) = w[bound]
  BY DEF L!Walk, Last, L!Last
<1>2. ASSUME NEW i \in 0 .. n  PROVE upto(i) \in Seq(Node) /\ Len(upto(i)) = i
  BY <1>2
<1>3. \A i \in 0 .. n : /\ i = 0 => upto(i) = <<>>
                        /\ i > 0 => upto(i) # <<>> /\ Last(upto(i)) = r[i]
  BY <1>2 DEF Last
<1>4. ASSUME NEW i \in 0 .. n
      PROVE  Read(upto(i)) = IF i < n THEN upto(i + 1) ELSE upto(i)
  <2> DEFINE x == p[IF upto(i) = <<>> THEN l ELSE Last(upto(i))]
  <2>1. x = r[i + 1]
    <3>1. (IF upto(i) = <<>> THEN l ELSE Last(upto(i))) = r[i]
      <4>1. CASE i = 0
        BY <1>3, <4>1
      <4>2. CASE i > 0
        BY <1>3, <4>2
      <4> QED
        BY <4>1, <4>2
    <3> QED
      BY <3>1
  <2> HIDE DEF upto
  <2>2. CASE i = n
    BY <2>1, <2>2
  <2>3. CASE i < n
    <3>1. i + 1 \in 1 .. n /\ i + 1 \in 0 .. n
      BY <2>3
    <3>2. r[i + 1] # l /\ r[i + 1] # Nil
      BY <3>1
    <3>3. Append(upto(i), r[i + 1]) = upto(i + 1)
      <4> USE DEF upto
      <4>1. upto(i) \in Seq(Node) /\ upto(i + 1) \in Seq(Node) /\ r[i + 1] \in Node
        BY <1>2, <3>1
      <4>2. Len(upto(i + 1)) = Len(upto(i)) + 1
        BY <1>2, <3>1
      <4> QED
        BY <4>1, <4>2, <1>2, <3>1
    <3> QED
      BY <2>1, <2>3, <3>2, <3>3
  <2> QED
    BY <2>2, <2>3
<1>5. Walked(f)
  <2>1. ASSUME NEW i \in 0 .. bound  PROVE f[i] = Step(f, i)
    <3>1. CASE i = 0
      BY <1>3, <3>1
    <3>2. CASE i > 0
      <4>1. i - 1 \in 0 .. bound
        BY <3>2
      <4>2. CASE i <= n
        <5>1. i - 1 \in 0 .. n /\ i - 1 < n /\ (i - 1) + 1 = i
          BY <3>2, <4>2
        <5> HIDE DEF Read, upto
        <5>2. f[i - 1] = upto(i - 1) /\ f[i] = upto(i)
          BY <4>1, <4>2, <5>1
        <5> QED
          BY <1>4, <3>2, <5>1, <5>2
      <4>3. CASE i > n
        <5> HIDE DEF Read, upto
        <5>1. f[i - 1] = upto(n) /\ f[i] = upto(n)
          <6>1. i - 1 <= n => i - 1 = n
            BY <4>3
          <6> QED
            BY <4>1, <4>3, <6>1
        <5>2. Read(upto(n)) = upto(n)
          BY <1>4
        <5> QED
          BY <3>2, <5>1, <5>2
      <4> HIDE DEF f, Step
      <4> QED
        BY <4>2, <4>3
    <3> HIDE DEF f, Step
    <3> QED
      BY <3>1, <3>2
  <2> HIDE DEF Step
  <2> QED
    BY <2>1
<1>6. Walked(w)
  BY <1>5
<1> HIDE DEF w, f, Read
<1>7. w[bound] = f[bound]
  <2>1. w[0] = f[0]
    BY <1>5, <1>6
  <2>2. ASSUME NEW i \in 1 .. bound, w[i - 1] = f[i - 1]  PROVE w[i] = f[i]
    <3>1. i \in 0 .. bound /\ i # 0
      OBVIOUS
    <3>2. w[i] = Read(w[i - 1]) /\ f[i] = Read(f[i - 1])
      BY <1>5, <1>6, <3>1
    <3> QED
      BY <2>2, <3>2
  <2> HIDE DEF Walked
  <2>3. \A i \in 1 .. bound : w[i - 1] = f[i - 1] => w[i] = f[i]
    BY <2>2
  <2> QED
    BY <2>1, <2>3, SameFromStart
<1>8. f[bound] = upto(n)
  BY DEF f
<1> QED
  BY <1>1, <1>7, <1>8 DEF Prefix

-----------------------------------------------------------------------------
(* Rings: circular lists through their head                                *)

(* The list of head l has the n elements r[1], .., r[n]; r[0] and r[n + 1] *)
(* are the head itself.                                                    *)
Ring(h, l, n, r) ==
    /\ n \in Nat /\ r \in [0 .. n + 1 -> Node]
    /\ r[0] = l /\ r[n + 1] = l
    /\ \A i, j \in 0 .. n : r[i] = r[j] => i = j
    /\ \A i \in 0 .. n : h.next[r[i]] = r[i + 1]
    /\ \A i \in 0 .. n : h.prev[r[i + 1]] = r[i]

Elements(n, r) == {r[i] : i \in 1 .. n}

Same(g, h, x) == g.next[x] = h.next[x] /\ g.prev[x] = h.prev[x]

(* A list is what it was when no pointer of its nodes was written.         *)
LEMMA RingFrame ==
    ASSUME NEW h, NEW g, NEW l, NEW n, NEW r, Ring(h, l, n, r),
           Same(g, h, l), \A x \in Elements(n, r) : Same(g, h, x)
    PROVE  Ring(g, l, n, r)
<1>1. \A i \in 0 .. n : Same(g, h, r[i])
  <2>1. \A i \in 0 .. n : i = 0 \/ i \in 1 .. n
    BY DEF Ring
  <2> QED
    BY <2>1 DEF Ring, Elements
<1>2. \A i \in 0 .. n : h.prev[r[i + 1]] = g.prev[r[i + 1]]
  <2>1. \A i \in 0 .. n : i + 1 \in 0 .. n \/ i = n
    BY DEF Ring
  <2>2. Same(g, h, r[n + 1])
    BY DEF Ring
  <2> QED
    BY <1>1, <2>1, <2>2 DEF Same
<1> QED
  BY <1>1, <1>2 DEF Ring, Same

(* The head is empty exactly when the ring has no element.                 *)
LEMMA RingEmpty ==
    ASSUME NEW h, NEW l, NEW n, NEW r, Ring(h, l, n, r)
    PROVE  /\ l \in Node /\ h.next[l] \in Node /\ h.prev[l] \in Node
           /\ h.next[l] = r[1] /\ h.prev[l] = r[n]
           /\ n = 0 => L!list_empty(h, l)
           /\ n > 0 => ~L!list_empty(h, l) /\ r[1] \in Elements(n, r)
<1>1. n \in Nat /\ 0 \in 0 .. n /\ n \in 0 .. n /\ n + 1 \in 0 .. n + 1 /\ 1 \in 0 .. n + 1
  BY DEF Ring
<1>2. /\ h.next[r[0]] = r[0 + 1] /\ h.prev[r[n + 1]] = r[n]
      /\ r[0] = l /\ r[n + 1] = l /\ r[0] \in Node /\ r[1] \in Node /\ r[n] \in Node
  BY <1>1 DEF Ring
<1>3. CASE n = 0
  BY <1>1, <1>2, <1>3 DEF L!list_empty
<1>4. CASE n > 0
  <2>1. 1 \in 0 .. n /\ 1 \in 1 .. n
    BY <1>1, <1>4
  <2>2. r[1] # r[0]
    BY <1>1, <2>1 DEF Ring
  <2> QED
    BY <1>1, <1>2, <1>4, <2>1, <2>2 DEF L!list_empty, Elements
<1> QED
  BY <1>1, <1>2, <1>3, <1>4

(* Removing the first element, and nothing but its neighbours is written.  *)
LEMMA RingRemove ==
    ASSUME NEW h \in L!Heap, NEW l, NEW n, NEW r, Ring(h, l, n, r), n > 0
    PROVE  LET g == L!list_remove(h, r[1])
               q == [i \in 0 .. n |-> IF i = 0 THEN l ELSE r[i + 1]]
           IN  /\ g \in L!Heap
               /\ Ring(g, l, n - 1, q)
               /\ Elements(n - 1, q) = Elements(n, r) \ {r[1]}
               /\ \A x \in Node \ (Elements(n, r) \cup {l}) : Same(g, h, x)
<1> DEFINE g == L!list_remove(h, r[1])
           q == [i \in 0 .. n |-> IF i = 0 THEN l ELSE r[i + 1]]
<1>1. /\ n \in Nat /\ r \in [0 .. n + 1 -> Node] /\ r[0] = l /\ r[n + 1] = l
      /\ \A i, j \in 0 .. n : r[i] = r[j] => i = j
      /\ \A i \in 0 .. n : h.next[r[i]] = r[i + 1]
      /\ \A i \in 0 .. n : h.prev[r[i + 1]] = r[i]
  BY DEF Ring
<1>2. /\ 0 \in 0 .. n /\ 1 \in 0 .. n /\ 2 \in 0 .. n + 1
      /\ h.next[r[1]] = r[2] /\ h.prev[r[1]] = l
      /\ r[1] \in Node /\ r[2] \in Node /\ l \in Node /\ r[1] # l
  <2>1. 0 \in 0 .. n /\ 1 \in 0 .. n /\ 2 \in 0 .. n + 1 /\ 1 \in 0 .. n + 1 /\ 0 \in 0 .. n + 1
    BY <1>1
  <2>2. h.next[r[1]] = r[1 + 1] /\ h.prev[r[0 + 1]] = r[0]
    BY <1>1, <2>1
  <2> QED
    BY <1>1, <2>1, <2>2
<1>3. /\ g \in L!Heap
      /\ \A x \in Node :
           /\ g.next[x] = IF x = r[1] THEN Nil ELSE IF x = l THEN r[2] ELSE h.next[x]
           /\ g.prev[x] = IF x = r[1] THEN Nil ELSE IF x = r[2] THEN l ELSE h.prev[x]
  BY <1>2, RemovePointers
<1> HIDE DEF g
<1>4. r[1] # r[2]
  <2>1. CASE n = 1
    BY <1>1, <1>2, <2>1
  <2>2. CASE n > 1
    BY <1>1, <2>2
  <2> QED
    BY <1>1, <2>1, <2>2
<1>5. q \in [0 .. (n - 1) + 1 -> Node] /\ q[0] = l /\ q[(n - 1) + 1] = l
  BY <1>1, <1>2
<1>6. \A i \in 1 .. n : q[i] = r[i + 1] /\ i + 1 \in 0 .. n + 1
  BY <1>1
<1> HIDE DEF q
<1>7. ASSUME NEW i \in 0 .. n - 1, NEW j \in 0 .. n - 1, q[i] = q[j]  PROVE i = j
  <2>1. \A k \in 1 .. n - 1 : k + 1 \in 0 .. n /\ k \in 1 .. n /\ q[k] # l
    BY <1>1, <1>6
  <2>2. (i = 0 \/ i \in 1 .. n - 1) /\ (j = 0 \/ j \in 1 .. n - 1)
    BY <1>1
  <2> QED
    BY <1>1, <1>5, <1>6, <1>7, <2>1, <2>2
<1>8. ASSUME NEW i \in 0 .. n - 1
      PROVE  g.next[q[i]] = q[i + 1] /\ g.prev[q[i + 1]] = q[i]
  <2>1. i + 1 \in 1 .. n /\ q[i + 1] = r[i + 2]
    BY <1>1, <1>6
  <2>2. CASE i = 0
    BY <1>2, <1>3, <1>4, <1>5, <2>1, <2>2
  <2>3. CASE i > 0
    <3>1. i + 1 \in 0 .. n /\ i \in 1 .. n /\ i + 2 \in 0 .. n + 1 /\ (i + 1) + 1 = i + 2
      BY <1>1, <2>3
    <3>2. q[i] = r[i + 1] /\ r[i + 1] # r[1] /\ r[i + 1] # l
      BY <1>1, <1>2, <1>6, <2>3, <3>1
    <3>3. r[i + 2] # r[1] /\ r[i + 2] # r[2]
      <4>1. CASE i + 2 = n + 1
        <5>1. 2 \in 0 .. n
          BY <1>1, <2>3, <3>1
        <5> QED
          BY <1>1, <1>2, <4>1, <5>1
      <4>2. CASE i + 2 # n + 1
        <5>1. i + 2 \in 0 .. n /\ 2 \in 0 .. n
          BY <1>1, <3>1, <4>2
        <5>2. i + 2 # 1 /\ i + 2 # 2
          BY <2>3
        <5> QED
          BY <1>1, <1>2, <5>1, <5>2
      <4> QED
        BY <4>1, <4>2
    <3>4. h.next[r[i + 1]] = r[i + 2] /\ h.prev[r[i + 2]] = r[i + 1]
      BY <1>1, <3>1
    <3>5. r[i + 1] \in Node /\ r[i + 2] \in Node
      BY <1>1, <3>1
    <3> QED
      BY <1>3, <2>1, <3>2, <3>3, <3>4, <3>5
  <2> QED
    BY <2>2, <2>3
<1>9. Ring(g, l, n - 1, q)
  <2>1. n - 1 \in Nat
    BY <1>1
  <2> QED
    BY <2>1, <1>5, <1>7, <1>8 DEF Ring
<1>10. Elements(n - 1, q) = Elements(n, r) \ {r[1]}
  <2>1. ASSUME NEW i \in 1 .. n - 1
        PROVE  q[i] \in Elements(n, r) /\ q[i] # r[1]
    <3>1. i + 1 \in 1 .. n /\ i + 1 \in 0 .. n /\ i \in 1 .. n /\ i + 1 # 1
      BY <1>1
    <3> QED
      BY <1>1, <1>2, <1>6, <3>1 DEF Elements
  <2>2. ASSUME NEW i \in 1 .. n, r[i] # r[1]
        PROVE  r[i] \in Elements(n - 1, q)
    <3>1. i - 1 \in 1 .. n - 1 /\ i - 1 \in 1 .. n /\ (i - 1) + 1 = i
      BY <1>1, <2>2
    <3> QED
      BY <1>6, <3>1 DEF Elements
  <2> QED
    BY <2>1, <2>2 DEF Elements
<1>11. \A x \in Node \ (Elements(n, r) \cup {l}) : Same(g, h, x)
  <2>1. r[1] \in Elements(n, r)
    BY <1>1, <1>2 DEF Elements
  <2>2. r[2] \in Elements(n, r) \cup {l}
    <3>1. CASE n = 1
      BY <1>1, <3>1
    <3>2. CASE n > 1
      BY <1>1, <3>2 DEF Elements
    <3> QED
      BY <1>1, <3>1, <3>2
  <2> QED
    BY <1>3, <2>1, <2>2 DEF Same
<1> QED
  BY <1>3, <1>9, <1>10, <1>11 DEF g, q

(* Inserting a node that is not on the list behind r[k]: at the head when  *)
(* k = 0, at the tail when k = n.                                          *)
LEMMA RingInsert ==
    ASSUME NEW h \in L!Heap, NEW l, NEW n, NEW r, Ring(h, l, n, r),
           NEW k \in 0 .. n, NEW elm \in Node,
           elm # l, elm \notin Elements(n, r)
    PROVE  LET g == L!list_insert(h, r[k], elm)
               q == [i \in 0 .. n + 2 |->
                        IF i <= k THEN r[i] ELSE IF i = k + 1 THEN elm ELSE r[i - 1]]
           IN  /\ g \in L!Heap
               /\ Ring(g, l, n + 1, q)
               /\ Elements(n + 1, q) = Elements(n, r) \cup {elm}
               /\ \A x \in Node \ (Elements(n, r) \cup {l, elm}) : Same(g, h, x)
<1> DEFINE g == L!list_insert(h, r[k], elm)
           q == [i \in 0 .. n + 2 |->
                    IF i <= k THEN r[i] ELSE IF i = k + 1 THEN elm ELSE r[i - 1]]
<1>1. /\ n \in Nat /\ r \in [0 .. n + 1 -> Node] /\ r[0] = l /\ r[n + 1] = l
      /\ \A i, j \in 0 .. n : r[i] = r[j] => i = j
      /\ \A i \in 0 .. n : h.next[r[i]] = r[i + 1]
      /\ \A i \in 0 .. n : h.prev[r[i + 1]] = r[i]
  BY DEF Ring
<1>2. \A i \in 0 .. n + 1 : r[i] # elm /\ r[i] \in Node /\ r[i] \in Elements(n, r) \cup {l}
  <2>1. \A i \in 0 .. n + 1 : i = 0 \/ i = n + 1 \/ i \in 1 .. n
    BY <1>1
  <2> QED
    BY <1>1, <2>1 DEF Elements
<1>3. /\ k \in Nat /\ k + 1 \in 0 .. n + 1 /\ k \in 0 .. n + 1
      /\ h.next[r[k]] = r[k + 1]
  BY <1>1
<1>4. /\ g \in L!Heap
      /\ \A x \in Node :
           /\ g.next[x] = IF x = r[k] THEN elm ELSE IF x = elm THEN r[k + 1] ELSE h.next[x]
           /\ g.prev[x] = IF x = r[k + 1] THEN elm ELSE IF x = elm THEN r[k] ELSE h.prev[x]
  BY <1>2, <1>3, InsertPointers
<1> HIDE DEF g
<1>5. /\ \A i \in 0 .. k : q[i] = r[i] /\ i \in 0 .. n
      /\ q[k + 1] = elm
      /\ \A i \in k + 2 .. n + 2 : q[i] = r[i - 1] /\ i - 1 \in 0 .. n + 1
  BY <1>1, <1>3
<1>6. q \in [0 .. (n + 1) + 1 -> Node]
  BY <1>1, <1>2
<1>7. \A i \in 0 .. n + 2 : i \in 0 .. k \/ i = k + 1 \/ i \in k + 2 .. n + 2
  BY <1>1, <1>3
<1>8. q[0] = l /\ q[(n + 1) + 1] = l
  BY <1>1, <1>3
<1> HIDE DEF q
<1>9. ASSUME NEW i \in 0 .. n + 1, NEW j \in 0 .. n + 1, q[i] = q[j]  PROVE i = j
  <2>1. (i \in 0 .. k \/ i = k + 1 \/ i \in k + 2 .. n + 2)
        /\ (j \in 0 .. k \/ j = k + 1 \/ j \in k + 2 .. n + 2)
    BY <1>1, <1>7
  <2>2. ASSUME NEW m \in k + 2 .. n + 2, m \in 0 .. n + 1
        PROVE  m - 1 \in 0 .. n /\ q[m] = r[m - 1] /\ m - 1 > k /\ m \in Nat
    BY <1>1, <1>3, <1>5, <2>2
  <2>3. CASE i \in 0 .. k
    <3>1. CASE j \in 0 .. k
      BY <1>1, <1>5, <1>9, <2>3, <3>1
    <3>2. CASE j = k + 1
      BY <1>1, <1>2, <1>3, <1>5, <1>9, <2>3, <3>2
    <3>3. CASE j \in k + 2 .. n + 2
      <4>1. i = j - 1
        BY <1>1, <1>5, <1>9, <2>2, <2>3, <3>3
      <4> QED
        BY <2>2, <2>3, <3>3, <4>1
    <3> QED
      BY <2>1, <3>1, <3>2, <3>3
  <2>4. CASE i = k + 1
    <3>1. CASE j \in 0 .. k
      BY <1>1, <1>2, <1>3, <1>5, <1>9, <2>4, <3>1
    <3>2. CASE j \in k + 2 .. n + 2
      BY <1>1, <1>2, <1>3, <1>5, <1>9, <2>4, <3>2
    <3> QED
      BY <2>1, <2>4, <3>1, <3>2
  <2>5. CASE i \in k + 2 .. n + 2
    <3>1. CASE j \in 0 .. k
      <4>1. j = i - 1
        BY <1>1, <1>5, <1>9, <2>2, <2>5, <3>1
      <4> QED
        BY <2>2, <2>5, <3>1, <4>1
    <3>2. CASE j = k + 1
      BY <1>1, <1>2, <1>3, <1>5, <1>9, <2>5, <3>2
    <3>3. CASE j \in k + 2 .. n + 2
      <4>1. i - 1 \in 0 .. n /\ j - 1 \in 0 .. n /\ r[i - 1] = r[j - 1]
        BY <1>9, <2>2, <2>5, <3>3
      <4>2. i - 1 = j - 1
        BY <1>1, <4>1
      <4> QED
        BY <2>2, <2>5, <3>3, <4>2
    <3> QED
      BY <2>1, <3>1, <3>2, <3>3
  <2> QED
    BY <2>1, <2>3, <2>4, <2>5
<1>10. ASSUME NEW i \in 0 .. n + 1
       PROVE  g.next[q[i]] = q[i + 1] /\ g.prev[q[i + 1]] = q[i]
  <2>0. r[k + 1] # elm /\ r[k] # elm /\ r[k] \in Node /\ r[k + 1] \in Node
    BY <1>2, <1>3
  <2>1. CASE i \in 0 .. k - 1
    <3>1. i \in 0 .. k /\ i + 1 \in 0 .. k /\ i \in 0 .. n /\ i + 1 \in 0 .. n /\ i # k
      BY <1>1, <1>3, <2>1
    <3>2. q[i] = r[i] /\ q[i + 1] = r[i + 1] /\ r[i] # r[k]
      BY <1>1, <1>5, <3>1
    <3>3. r[i + 1] # r[k + 1]
      <4>1. CASE k = n
        BY <1>1, <3>1, <4>1
      <4>2. CASE k # n
        <5>1. k + 1 \in 0 .. n /\ i + 1 # k + 1
          BY <1>1, <3>1, <4>2
        <5> QED
          BY <1>1, <3>1, <5>1
      <4> QED
        BY <4>1, <4>2
    <3>4. /\ r[i] \in Node /\ r[i + 1] \in Node /\ r[i] # elm /\ r[i + 1] # elm
          /\ h.next[r[i]] = r[i + 1] /\ h.prev[r[i + 1]] = r[i]
      <4>1. i \in 0 .. n + 1 /\ i + 1 \in 0 .. n + 1
        BY <1>1, <3>1
      <4> QED
        BY <1>1, <1>2, <3>1, <4>1
    <3> QED
      BY <1>4, <3>2, <3>3, <3>4
  <2>2. CASE i = k
    <3>1. q[i] = r[k] /\ q[i + 1] = elm
      BY <1>3, <1>5, <2>2
    <3> QED
      BY <1>4, <2>0, <3>1
  <2>3. CASE i = k + 1
    <3>1. q[i] = elm /\ i + 1 \in k + 2 .. n + 2 /\ (i + 1) - 1 = k + 1
      BY <1>1, <1>3, <1>5, <2>3
    <3>2. q[i + 1] = r[k + 1]
      BY <1>5, <3>1
    <3> QED
      BY <1>4, <2>0, <3>1, <3>2
  <2>4. CASE i \in k + 2 .. n + 1
    <3>1. /\ i \in k + 2 .. n + 2 /\ i + 1 \in k + 2 .. n + 2 /\ (i + 1) - 1 = i
          /\ i - 1 \in 0 .. n /\ i - 1 # k /\ i \in 0 .. n + 1 /\ i - 1 \in 0 .. n + 1
          /\ (i - 1) + 1 = i
      BY <1>1, <1>3, <2>4
    <3>2. q[i] = r[i - 1] /\ q[i + 1] = r[i] /\ r[i - 1] # r[k]
      BY <1>1, <1>5, <3>1
    <3>3. r[i] # r[k + 1]
      <4>1. k + 1 \in 0 .. n /\ k + 1 # 0
        BY <1>1, <1>3, <2>4
      <4>2. CASE i = n + 1
        BY <1>1, <4>1, <4>2
      <4>3. CASE i # n + 1
        <5>1. i \in 0 .. n /\ i # k + 1
          BY <1>1, <1>3, <2>4, <4>3
        <5> QED
          BY <1>1, <4>1, <5>1
      <4> QED
        BY <4>2, <4>3
    <3>4. /\ r[i - 1] \in Node /\ r[i] \in Node /\ r[i - 1] # elm /\ r[i] # elm
          /\ h.next[r[i - 1]] = r[i] /\ h.prev[r[i]] = r[i - 1]
      BY <1>1, <1>2, <3>1
    <3> QED
      BY <1>4, <3>2, <3>3, <3>4
  <2> QED
    BY <1>1, <1>3, <2>1, <2>2, <2>3, <2>4
<1>11. Ring(g, l, n + 1, q)
  BY <1>1, <1>6, <1>8, <1>9, <1>10 DEF Ring
<1>12. Elements(n + 1, q) = Elements(n, r) \cup {elm}
  <2>1. ASSUME NEW i \in 1 .. n + 1  PROVE q[i] \in Elements(n, r) \cup {elm}
    <3>1. CASE i \in 0 .. k
      BY <1>5, <3>1 DEF Elements
    <3>2. CASE i \in k + 2 .. n + 2
      <4>1. i - 1 \in 1 .. n
        BY <1>1, <1>3, <3>2
      <4> QED
        BY <1>5, <3>2, <4>1 DEF Elements
    <3>3. i \in 0 .. k \/ i = k + 1 \/ i \in k + 2 .. n + 2
      BY <1>1, <1>7
    <3> QED
      BY <1>5, <3>1, <3>2, <3>3
  <2>2. ASSUME NEW i \in 1 .. n  PROVE r[i] \in Elements(n + 1, q)
    <3>1. CASE i <= k
      <4>1. i \in 0 .. k /\ i \in 1 .. n + 1
        BY <1>1, <1>3, <3>1
      <4> QED
        BY <1>5, <4>1 DEF Elements
    <3>2. CASE i > k
      <4>1. i + 1 \in k + 2 .. n + 2 /\ i + 1 \in 1 .. n + 1 /\ (i + 1) - 1 = i
        BY <1>1, <1>3, <3>2
      <4> QED
        BY <1>5, <4>1 DEF Elements
    <3> QED
      BY <1>3, <3>1, <3>2
  <2>3. elm \in Elements(n + 1, q)
    BY <1>1, <1>3, <1>5 DEF Elements
  <2> QED
    BY <2>1, <2>2, <2>3 DEF Elements
<1>13. \A x \in Node \ (Elements(n, r) \cup {l, elm}) : Same(g, h, x)
  <2>1. r[k] \in Elements(n, r) \cup {l} /\ r[k + 1] \in Elements(n, r) \cup {l}
    BY <1>2, <1>3
  <2> QED
    BY <1>4, <2>1 DEF Same
<1> QED
  BY <1>4, <1>11, <1>12, <1>13 DEF g, q

(* A ring has as many elements as it says, all of them different.          *)
LEMMA RingSize ==
    ASSUME NEW h, NEW l, NEW n, NEW r, Ring(h, l, n, r)
    PROVE  Cardinality(Elements(n, r)) = n /\ IsFiniteSet(Elements(n, r))
<1>1. n \in Nat /\ \A i, j \in 0 .. n : r[i] = r[j] => i = j
  BY DEF Ring
<1>2. IsFiniteSet(1 .. n) /\ Cardinality(1 .. n) = n
  <2>1. 1 \in Int /\ n \in Int
    BY <1>1
  <2>2. Cardinality(1 .. n) = IF 1 > n THEN 0 ELSE n - 1 + 1
    BY <2>1, FS_Interval
  <2>3. IsFiniteSet(1 .. n)
    BY <2>1, FS_Interval
  <2> QED
    BY <1>1, <2>2, <2>3
<1> DEFINE f == [i \in 1 .. n |-> r[i]]
<1>3. f \in Bijection(1 .. n, Elements(n, r))
  <2>1. f \in [1 .. n -> Elements(n, r)]
    BY DEF Elements
  <2>2. \A i, j \in 1 .. n : f[i] = f[j] => i = j
    <3>1. \A i \in 1 .. n : i \in 0 .. n
      BY <1>1
    <3> QED
      BY <1>1, <3>1
  <2>3. \A x \in Elements(n, r) : \E i \in 1 .. n : f[i] = x
    BY DEF Elements
  <2> QED
    BY <2>1, <2>2, <2>3 DEF Bijection, Injection, Surjection, IsInjective
<1> QED
  BY <1>2, <1>3, FS_Bijection DEF ExistsBijection

(* The loops over a ring, in both directions, and its size.                *)
LEMMA RingReads ==
    ASSUME NEW h \in L!Heap, NEW l, NEW n, NEW r, Ring(h, l, n, r), Nil \notin Node,
           NEW bound \in Nat, n <= bound
    PROVE  LET fwd == L!Walk(h.next, l, bound)
               bwd == L!Walk(h.prev, l, bound)
           IN  /\ fwd = Prefix(n, r)
               /\ fwd = Reverse(bwd)
               /\ ToSet(fwd) = Elements(n, r)
               /\ Len(fwd) = n
               /\ Cardinality(Elements(n, r)) = n /\ IsFiniteSet(Elements(n, r))
<1> DEFINE fwd == L!Walk(h.next, l, bound)
           bwd == L!Walk(h.prev, l, bound)
           q == [i \in 0 .. n + 1 |-> r[n + 1 - i]]
<1>1. /\ n \in Nat /\ r \in [0 .. n + 1 -> Node] /\ r[0] = l /\ r[n + 1] = l
      /\ \A i, j \in 0 .. n : r[i] = r[j] => i = j
      /\ \A i \in 0 .. n : h.next[r[i]] = r[i + 1]
      /\ \A i \in 0 .. n : h.prev[r[i + 1]] = r[i]
  BY DEF Ring
<1>2. l \in Node /\ \A i \in 1 .. n : r[i] # l
  <2>1. \A i \in 1 .. n : i \in 0 .. n /\ 0 \in 0 .. n /\ i # 0
    BY <1>1
  <2>2. 0 \in 0 .. n + 1
    BY <1>1
  <2> QED
    BY <1>1, <2>1, <2>2
<1>3. fwd = [i \in 1 .. n |-> r[i]]
  <2>1. h.next \in [Node -> Node \cup {Nil}]
    BY HeapFields
  <2>2. PICK p : p = h.next
    OBVIOUS
  <2>3. L!Walk(p, l, bound) = Prefix(n, r)
    <3>1. /\ p \in [Node -> Node \cup {Nil}] /\ n \in Nat /\ l \in Node
          /\ r \in [0 .. n + 1 -> Node] /\ r[0] = l /\ r[n + 1] = l
          /\ \A i \in 1 .. n : r[i] # l
          /\ \A i \in 0 .. n : p[r[i]] = r[i + 1]
      BY <1>1, <1>2, <2>1, <2>2
    <3> QED
      BY <3>1, WalkReads
  <2> QED
    BY <2>2, <2>3 DEF Prefix
<1>4. /\ q \in [0 .. n + 1 -> Node] /\ q[0] = l /\ q[n + 1] = l
      /\ \A i \in 1 .. n : q[i] # l
      /\ \A i \in 0 .. n : h.prev[q[i]] = q[i + 1]
  <2>1. \A i \in 0 .. n + 1 : n + 1 - i \in 0 .. n + 1
    BY <1>1
  <2>2. ASSUME NEW i \in 1 .. n  PROVE q[i] # l
    <3>1. n + 1 - i \in 1 .. n /\ i \in 0 .. n + 1
      BY <1>1
    <3> QED
      BY <1>2, <3>1
  <2>3. ASSUME NEW i \in 0 .. n  PROVE h.prev[q[i]] = q[i + 1]
    <3>1. /\ i \in 0 .. n + 1 /\ i + 1 \in 0 .. n + 1 /\ n - i \in 0 .. n
          /\ (n - i) + 1 = n + 1 - i /\ n + 1 - (i + 1) = n - i
      BY <1>1
    <3>2. h.prev[r[(n - i) + 1]] = r[n - i]
      BY <1>1, <3>1
    <3> QED
      BY <3>1, <3>2
  <2>4. q \in [0 .. n + 1 -> Node]
    BY <1>1, <2>1
  <2>5. /\ 0 \in 0 .. n + 1 /\ n + 1 \in 0 .. n + 1
        /\ n + 1 - 0 = n + 1 /\ n + 1 - (n + 1) = 0
    BY <1>1
  <2>6. q[0] = l /\ q[n + 1] = l
    BY <1>1, <2>5
  <2> HIDE DEF q
  <2> QED
    BY <2>2, <2>3, <2>4, <2>6
<1>5. bwd = [i \in 1 .. n |-> q[i]]
  <2>1. h.prev \in [Node -> Node \cup {Nil}]
    BY HeapFields
  <2>2. PICK p : p = h.prev
    OBVIOUS
  <2>3. PICK u : u = q
    OBVIOUS
  <2> HIDE DEF q
  <2>4. L!Walk(p, l, bound) = Prefix(n, u)
    <3>1. /\ p \in [Node -> Node \cup {Nil}] /\ n \in Nat /\ l \in Node
          /\ u \in [0 .. n + 1 -> Node] /\ u[0] = l /\ u[n + 1] = l
          /\ \A i \in 1 .. n : u[i] # l
          /\ \A i \in 0 .. n : p[u[i]] = u[i + 1]
      BY <1>1, <1>2, <1>4, <2>1, <2>2, <2>3
    <3> QED
      BY <3>1, WalkReads
  <2> QED
    BY <2>2, <2>3, <2>4 DEF Prefix
<1> HIDE DEF fwd, bwd
<1>6. Len(fwd) = n /\ Len(bwd) = n /\ bwd \in Seq(Node)
  <2>1. \A i \in 1 .. n : i \in 0 .. n + 1
    BY <1>1
  <2> HIDE DEF q
  <2> QED
    <3>1. \A i \in 1 .. n : q[i] \in Node
      BY <1>4, <2>1
    <3>2. Len(fwd) = n
      BY <1>1, <1>3
    <3>3. bwd \in Seq(Node) /\ Len(bwd) = n
      BY <1>1, <1>5, <3>1
    <3> QED
      BY <3>2, <3>3
<1>7. fwd = Reverse(bwd)
  <2>1. \A i \in 1 .. n : /\ (n - i) + 1 \in 1 .. n /\ (n - i) + 1 \in 0 .. n + 1
                          /\ n + 1 - ((n - i) + 1) = i
    BY <1>1
  <2>2. \A i \in 1 .. n : bwd[(n - i) + 1] = r[i]
    BY <1>5, <2>1
  <2>3. Reverse(bwd) = [i \in 1 .. n |-> bwd[(n - i) + 1]]
    BY <1>6 DEF Reverse
  <2> QED
    BY <1>3, <2>2, <2>3
<1>8. ToSet(fwd) = Elements(n, r)
  <2>1. DOMAIN fwd = 1 .. n /\ \A i \in 1 .. n : fwd[i] = r[i]
    BY <1>3
  <2>2. ToSet(fwd) = {fwd[i] : i \in 1 .. n}
    BY <2>1 DEF ToSet
  <2> QED
    BY <2>1, <2>2 DEF Elements
<1>9. Cardinality(Elements(n, r)) = n /\ IsFiniteSet(Elements(n, r))
  BY RingSize
<1> QED
  BY <1>3, <1>6, <1>7, <1>8, <1>9 DEF fwd, bwd, Prefix

-----------------------------------------------------------------------------
(* The nodes and the addresses of a slab                                   *)

LEMMA NodeKinds ==
    /\ Nil \notin Node /\ Objects \subseteq Node
    /\ \A s \in SlabIds : /\ freelist(s) \in Node \ Objects
                          /\ caches(s) \in Node \ Objects
    /\ \A s, t : /\ freelist(s) # caches(t)
                 /\ freelist(s) = freelist(t) => s = t
                 /\ caches(s) = caches(t) => s = t
    /\ \A s : caches(s)[2] = s
    /\ \A a, c : object(a)[2] = a /\ (object(a) = object(c) => a = c)
BY DEF Node, Nil, Objects, freelist, caches, object

(* Objects lie apart, and within their slab.                               *)
LEMMA Offsets ==
    /\ Nmemb \in Nat \ {0} /\ Bsize \in Nat \ {0} /\ MaxSlabs \in Nat \ {0}
    /\ Size \in Nat \ {0}
    /\ \A i \in 0 .. Nmemb - 1 : i * Bsize \in Nat /\ i * Bsize < Size
    /\ \A i, j \in 0 .. Nmemb - 1 : i * Bsize = j * Bsize => i = j
    /\ Bound \in Nat /\ Nmemb <= Bound /\ MaxSlabs <= Bound
<1>1. Nmemb \in Nat \ {0} /\ Bsize \in Nat \ {0} /\ MaxSlabs \in Nat \ {0}
  BY SlabsAssumption
<1>2. Size \in Nat \ {0}
  BY <1>1 DEF Size
<1>3. ASSUME NEW i \in Nat, NEW j \in Nat, i < j
      PROVE  i * Bsize \in Nat /\ i * Bsize < j * Bsize
  BY <1>1, <1>3
<1>4. \A i \in 0 .. Nmemb - 1 : i * Bsize \in Nat /\ i * Bsize < Size
  <2>1. \A i \in 0 .. Nmemb - 1 : i \in Nat /\ i < Nmemb
    BY <1>1
  <2> QED
    BY <1>1, <1>3, <2>1 DEF Size
<1>5. \A i, j \in 0 .. Nmemb - 1 : i * Bsize = j * Bsize => i = j
  <2>1. \A i \in 0 .. Nmemb - 1 : i \in Nat
    BY <1>1
  <2>2. ASSUME NEW i \in 0 .. Nmemb - 1, NEW j \in 0 .. Nmemb - 1,
               i * Bsize = j * Bsize, i # j
        PROVE  FALSE
    <3>1. i < j \/ j < i
      BY <2>1, <2>2
    <3>2. i * Bsize < j * Bsize \/ j * Bsize < i * Bsize
      BY <1>3, <2>1, <3>1
    <3>3. i * Bsize \in Nat /\ j * Bsize \in Nat
      BY <1>1, <2>1
    <3> QED
      BY <2>2, <3>2, <3>3
  <2> QED
    BY <2>2
<1>6. Bound \in Nat /\ Nmemb <= Bound /\ MaxSlabs <= Bound
  BY <1>1 DEF Bound
<1> QED
  BY <1>1, <1>2, <1>4, <1>5, <1>6

-----------------------------------------------------------------------------
(* The slab that cache_initialize lays out                                 *)

(* Stepping n times from v by F.                                           *)
Goes(g, V, v, F, n) == /\ g \in [0 .. n -> V] /\ g[0] = v
                       /\ \A i \in 1 .. n : g[i] = F[<<i, g[i - 1]>>]

LEMMA Iterates ==
    ASSUME NEW V, NEW v \in V, NEW F \in [Nat \X V -> V], NEW N \in Nat
    PROVE  \E g : Goes(g, V, v, F, N)
<1> DEFINE To(g, n) == Goes(g, V, v, F, n)
           Bad == {n \in Nat : ~\E g : To(g, n)}
<1>1. ASSUME Bad # {}  PROVE FALSE
  <2>1. Bad \in SUBSET Nat
    OBVIOUS
  <2> HIDE DEF Bad
  <2>2. PICK k \in Bad : \A j \in Bad : k <= j
    BY <1>1, <2>1, LeastExists
  <2>3. k \in Nat /\ ~\E g : To(g, k)
    BY DEF Bad
  <2>4. To([i \in 0 .. 0 |-> v], 0)
    BY DEF Goes
  <2>5. k # 0
    BY <2>3, <2>4
  <2>6. k - 1 \in Nat /\ ~(k <= k - 1) /\ k \in 1 .. k
    BY <2>3, <2>5
  <2>7. PICK g : To(g, k - 1)
    BY <2>2, <2>6 DEF Bad
  <2> DEFINE h == [i \in 0 .. k |-> IF i < k THEN g[i] ELSE F[<<k, g[k - 1]>>]]
  <2>8. g[k - 1] \in V /\ k - 1 \in 0 .. k - 1
    BY <2>6, <2>7 DEF Goes
  <2>9. F[<<k, g[k - 1]>>] \in V
    BY <2>3, <2>8
  <2>10. h \in [0 .. k -> V] /\ h[0] = v
    <3>1. \A i \in 0 .. k : i < k => i \in 0 .. k - 1
      BY <2>3
    <3>2. 0 \in 0 .. k /\ 0 < k
      BY <2>3, <2>5
    <3> QED
      BY <2>7, <2>9, <3>1, <3>2 DEF Goes
  <2>11. ASSUME NEW i \in 1 .. k  PROVE h[i] = F[<<i, h[i - 1]>>]
    <3>1. i \in 0 .. k /\ i - 1 \in 0 .. k /\ i - 1 < k
      BY <2>3
    <3>2. h[i - 1] = g[i - 1]
      BY <3>1
    <3>3. CASE i = k
      BY <3>1, <3>2, <3>3
    <3>4. CASE i # k
      <4>1. i \in 1 .. k - 1 /\ i < k
        BY <2>3, <3>4
      <4> QED
        BY <2>7, <3>1, <3>2, <4>1 DEF Goes
    <3> QED
      BY <3>3, <3>4
  <2>12. To(h, k)
    BY <2>10, <2>11 DEF Goes
  <2> QED
    BY <2>3, <2>12
<1> QED
  BY <1>1

Nth(b, j) == object(b + (j - 1) * Bsize)
Layout(b, s, i) ==
    [j \in 0 .. i + 1 |-> IF j \in {0, i + 1} THEN freelist(s) ELSE Nth(b, j)]
Own(b, s, i) == Elements(i, Layout(b, s, i)) \cup {freelist(s), caches(s)}

(* g is h but for the first i objects of the slab at b, on its freelist.   *)
Built(g, h, s, b, i) ==
    /\ g \in L!Heap
    /\ Ring(g, freelist(s), i, Layout(b, s, i))
    /\ g.next[caches(s)] = caches(s) /\ g.prev[caches(s)] = caches(s)
    /\ \A x \in Node \ Own(b, s, i) : Same(g, h, x)

LEMMA NthApart ==
    ASSUME NEW b \in Bases \cup {Root}
    PROVE  /\ \A i \in 1 .. Nmemb : Nth(b, i) \in Objects
           /\ \A i, j \in 1 .. Nmemb : Nth(b, i) = Nth(b, j) => i = j
           /\ {Nth(b, i) : i \in 1 .. Nmemb} = {object(a) : a \in Addresses(b)}
<1>1. b \in Nat /\ Nmemb \in Nat
  BY SlabsAssumption
<1>2. \A i \in 1 .. Nmemb : i - 1 \in 0 .. Nmemb - 1
  BY <1>1
<1>3. \A a \in Addresses(b) : object(a) \in Objects
  BY DEF Objects, object
<1>4. \A i \in 1 .. Nmemb : b + (i - 1) * Bsize \in Addresses(b)
  BY <1>2 DEF Addresses
<1>5. ASSUME NEW i \in 1 .. Nmemb, NEW j \in 1 .. Nmemb, Nth(b, i) = Nth(b, j)
      PROVE  i = j
  <2>1. i - 1 \in 0 .. Nmemb - 1 /\ j - 1 \in 0 .. Nmemb - 1
    BY <1>1
  <2>2. (i - 1) * Bsize \in Nat /\ (j - 1) * Bsize \in Nat
    BY <2>1, Offsets
  <2>3. b + (i - 1) * Bsize = b + (j - 1) * Bsize
    BY <1>5, NodeKinds DEF Nth
  <2>4. (i - 1) * Bsize = (j - 1) * Bsize
    BY <1>1, <2>2, <2>3
  <2> QED
    BY <2>1, <2>4, Offsets
<1>6. ASSUME NEW a \in Addresses(b)  PROVE \E i \in 1 .. Nmemb : object(a) = Nth(b, i)
  <2>1. PICK k \in 0 .. Nmemb - 1 : a = b + k * Bsize
    BY DEF Addresses
  <2>2. k + 1 \in 1 .. Nmemb /\ (k + 1) - 1 = k
    BY <1>1
  <2>3. Nth(b, k + 1) = object(a)
    BY <2>1, <2>2 DEF Nth
  <2> QED
    BY <2>2, <2>3
<1>7. \A i \in 1 .. Nmemb : \E a \in Addresses(b) : Nth(b, i) = object(a)
  BY <1>4 DEF Nth
<1> QED
  BY <1>3, <1>5, <1>6, <1>7

LEMMA LayoutNodes ==
    ASSUME NEW b, NEW s, NEW n \in Nat
    PROVE  /\ \A j \in 1 .. n : Layout(b, s, n)[j] = Nth(b, j)
           /\ Elements(n, Layout(b, s, n)) = {Nth(b, j) : j \in 1 .. n}
<1>1. \A j \in 1 .. n : j \in 0 .. n + 1 /\ j # 0 /\ j # n + 1
  OBVIOUS
<1>2. \A j \in 1 .. n : Layout(b, s, n)[j] = Nth(b, j)
  BY <1>1 DEF Layout
<1> QED
  BY <1>2 DEF Elements

LEMMA BuiltFirst ==
    ASSUME NEW h \in L!Heap, NEW s \in SlabIds, NEW b \in Bases \cup {Root}
    PROVE  Built(L!list_init(L!list_init(h, freelist(s)), caches(s)), h, s, b, 0)
<1> DEFINE g == L!list_init(h, freelist(s))
           k == L!list_init(g, caches(s))
<1>1. /\ freelist(s) \in Node /\ caches(s) \in Node /\ freelist(s) # caches(s)
      /\ freelist(s) \in Own(b, s, 0) /\ caches(s) \in Own(b, s, 0)
  BY NodeKinds DEF Own
<1>2. /\ g \in L!Heap
      /\ \A x \in Node :
           /\ g.next[x] = IF x = freelist(s) THEN freelist(s) ELSE h.next[x]
           /\ g.prev[x] = IF x = freelist(s) THEN freelist(s) ELSE h.prev[x]
  BY <1>1, InitPointers
<1> HIDE DEF g
<1>3. /\ k \in L!Heap
      /\ \A x \in Node :
           /\ k.next[x] = IF x = caches(s) THEN caches(s) ELSE g.next[x]
           /\ k.prev[x] = IF x = caches(s) THEN caches(s) ELSE g.prev[x]
  BY <1>1, <1>2, InitPointers
<1> HIDE DEF k
<1>4. Ring(k, freelist(s), 0, Layout(b, s, 0))
  <2> DEFINE r == Layout(b, s, 0)
  <2>1. r \in [0 .. 0 + 1 -> Node] /\ r[0] = freelist(s) /\ r[0 + 1] = freelist(s)
    BY <1>1 DEF Layout
  <2>2. \A i \in 0 .. 0 : i = 0
    OBVIOUS
  <2>3. k.next[freelist(s)] = freelist(s) /\ k.prev[freelist(s)] = freelist(s)
    BY <1>1, <1>2, <1>3
  <2> HIDE DEF r
  <2>4. Ring(k, freelist(s), 0, r)
    BY <2>1, <2>2, <2>3 DEF Ring
  <2> QED
    BY <2>4 DEF r
<1>5. \A x \in Node \ Own(b, s, 0) : Same(k, h, x)
  BY <1>1, <1>2, <1>3 DEF Same
<1>6. k.next[caches(s)] = caches(s) /\ k.prev[caches(s)] = caches(s)
  BY <1>1, <1>3
<1>7. Built(k, h, s, b, 0)
  BY <1>3, <1>4, <1>5, <1>6 DEF Built
<1> QED
  BY <1>7 DEF k, g

LEMMA BuiltNext ==
    ASSUME NEW h \in L!Heap, NEW s \in SlabIds, NEW b \in Bases \cup {Root},
           NEW i \in 1 .. Nmemb, NEW g, Built(g, h, s, b, i - 1)
    PROVE  LET l == object(b + (i - 1) * Bsize)
               k == L!list_init(g, l)
           IN  Built(L!list_insert(k, k.prev[freelist(s)], l), h, s, b, i)
<1> DEFINE l == Nth(b, i)
           k == L!list_init(g, l)
           w == L!list_insert(k, k.prev[freelist(s)], l)
           n == i - 1
           r == Layout(b, s, n)
           q == [j \in 0 .. n + 2 |->
                    IF j <= n THEN r[j] ELSE IF j = n + 1 THEN l ELSE r[j - 1]]
<1>1. n \in 0 .. Nmemb /\ i \in 0 .. Nmemb /\ n + 1 = i /\ n \in Nat /\ i \in 1 .. i
  BY Offsets
<1>2. /\ g \in L!Heap /\ Ring(g, freelist(s), n, r)
      /\ g.next[caches(s)] = caches(s) /\ g.prev[caches(s)] = caches(s)
      /\ \A x \in Node \ Own(b, s, n) : Same(g, h, x)
  BY DEF Built
<1>3. /\ freelist(s) \in Node /\ caches(s) \in Node /\ freelist(s) # caches(s)
      /\ freelist(s) \notin Objects /\ caches(s) \notin Objects
  BY NodeKinds
<1>4. /\ Elements(n, r) \subseteq Objects
      /\ l \in Objects /\ l \in Node
      /\ l \notin Elements(n, r)
      /\ Elements(i, Layout(b, s, i)) = Elements(n, r) \cup {l}
  <2>1. /\ Elements(n, r) = {Nth(b, j) : j \in 1 .. n}
        /\ Elements(i, Layout(b, s, i)) = {Nth(b, j) : j \in 1 .. i}
    <3>1. n \in Nat /\ i \in Nat
      BY <1>1
    <3> QED
      BY <3>1, LayoutNodes
  <2>2. /\ \A j : j \in 1 .. i <=> j \in 1 .. n \/ j = i
        /\ \A j \in 1 .. n : j \in 1 .. Nmemb /\ j # i
    <3>1. Nmemb \in Nat /\ i \in Nat /\ i <= Nmemb
      BY Offsets
    <3> QED
      BY <1>1, <3>1
  <2>3. /\ \A j \in 1 .. Nmemb : Nth(b, j) \in Objects
        /\ \A j \in 1 .. Nmemb : Nth(b, j) = Nth(b, i) => j = i
    BY NthApart
  <2>4. Objects \subseteq Node
    BY NodeKinds
  <2> HIDE DEF n, r
  <2> QED
    BY <2>1, <2>2, <2>3, <2>4
<1>5. /\ k \in L!Heap
      /\ \A x \in Node \ {l} : Same(k, g, x)
  BY <1>2, <1>4, InitPointers DEF Same
<1> HIDE DEF k, l
<1>6. Ring(k, freelist(s), n, r)
  <2>1. Elements(n, r) \subseteq Node \ {l} /\ freelist(s) \in Node \ {l}
    BY <1>3, <1>4, NodeKinds
  <2> HIDE DEF r, n
  <2> QED
    BY <1>2, <1>5, <2>1, RingFrame
<1>7. k.prev[freelist(s)] = r[n]
  <2> HIDE DEF r, n
  <2> QED
    BY <1>6, RingEmpty
<1>8. /\ w \in L!Heap
      /\ Ring(w, freelist(s), n + 1, q)
      /\ \A x \in Node \ (Elements(n, r) \cup {freelist(s), l}) : Same(w, k, x)
  <2>1. n \in 0 .. n /\ l # freelist(s)
    BY <1>1, <1>3, <1>4
  <2> HIDE DEF r, n
  <2> QED
    BY <1>4, <1>5, <1>6, <1>7, <2>1, RingInsert
<1> HIDE DEF w
<1>9. q = Layout(b, s, i)
  <2>1. q = [j \in 0 .. i + 1 |-> Layout(b, s, i)[j]]
    <3>1. n + 2 = i + 1
      BY <1>1
    <3>2. ASSUME NEW j \in 0 .. i + 1  PROVE q[j] = Layout(b, s, i)[j]
      <4>1. CASE j = 0
        BY <1>1, <4>1 DEF Layout
      <4>2. CASE j = i + 1
        <5>1. j = n + 2 /\ ~(j <= n) /\ j # n + 1 /\ j - 1 = n + 1 /\ n + 1 \in 0 .. n + 1
          BY <1>1, <4>2
        <5>2. q[j] = r[n + 1] /\ r[n + 1] = freelist(s)
          BY <5>1 DEF Layout
        <5> QED
          BY <4>2, <5>2 DEF Layout
      <4>3. CASE j = i
        <5>1. ~(j <= n) /\ j = n + 1 /\ j \in 0 .. n + 2
          BY <1>1, <4>3
        <5>2. q[j] = l
          BY <5>1
        <5>3. Layout(b, s, i)[i] = l
          BY <1>1, LayoutNodes DEF l
        <5> QED
          BY <4>3, <5>2, <5>3
      <4>4. CASE j \in 1 .. n
        <5>1. j <= n /\ j \in 0 .. n + 2 /\ j \in 1 .. i
          BY <1>1, <4>4
        <5>2. q[j] = r[j]
          BY <5>1
        <5>3. /\ r[j] = Nth(b, j)
              /\ Layout(b, s, i)[j] = Nth(b, j)
          <6>1. n \in Nat /\ i \in Nat
            BY <1>1
          <6>2. \A m \in 1 .. n : r[m] = Nth(b, m)
            BY <6>1, LayoutNodes
          <6>3. \A m \in 1 .. i : Layout(b, s, i)[m] = Nth(b, m)
            BY <6>1, LayoutNodes
          <6> HIDE DEF n, r
          <6> QED
            BY <4>4, <5>1, <6>2, <6>3
        <5> QED
          BY <5>2, <5>3
      <4> QED
        BY <1>1, <4>1, <4>2, <4>3, <4>4
    <3> HIDE DEF r
    <3> QED
      BY <3>1, <3>2
  <2>2. Layout(b, s, i) = [j \in 0 .. i + 1 |-> Layout(b, s, i)[j]]
    BY DEF Layout
  <2> QED
    BY <2>1, <2>2
<1> HIDE DEF q
<1>10. \A x \in Node \ Own(b, s, i) : Same(w, h, x)
  <2>1. Own(b, s, i) = Own(b, s, n) \cup {l}
    BY <1>4 DEF Own
  <2>2. Elements(n, r) \cup {freelist(s)} \subseteq Own(b, s, n)
    BY DEF Own
  <2> HIDE DEF n, r
  <2> QED
    BY <1>2, <1>5, <1>8, <2>1, <2>2 DEF Same
<1>11. w.next[caches(s)] = caches(s) /\ w.prev[caches(s)] = caches(s)
  <2>1. caches(s) \in Node \ (Elements(n, r) \cup {freelist(s), l})
    BY <1>3, <1>4
  <2> HIDE DEF n, r
  <2> QED
    BY <1>2, <1>4, <1>5, <1>8, <2>1 DEF Same
<1>12. Built(w, h, s, b, i)
  BY <1>1, <1>8, <1>9, <1>10, <1>11 DEF Built
<1> QED
  BY <1>12 DEF w, k, l, Nth

(* cache_initialize lists every object of the slab once, in their order,   *)
(* and leaves the pointers of all other nodes as they were.                *)
LEMMA Initialized ==
    ASSUME NEW h \in L!Heap, NEW s \in SlabIds, NEW b \in Bases \cup {Root}
    PROVE  /\ Built(CacheInitialize(h, s, b), h, s, b, Nmemb)
           /\ Elements(Nmemb, Layout(b, s, Nmemb)) = {object(a) : a \in Addresses(b)}
<1> DEFINE St(i, g) == LET l == object(b + (i - 1) * Bsize)
                           k == L!list_init(g, l)
                       IN  L!list_insert(k, k.prev[freelist(s)], l)
           v == L!list_init(L!list_init(h, freelist(s)), caches(s))
           N == Nmemb
           V == L!Heap
           Is(f) == f = [i \in 0 .. N |-> IF i = 0 THEN v ELSE St(i, f[i - 1])]
           filled == CHOOSE f : Is(f)
           F == [x \in Nat \X V |-> IF St(x[1], x[2]) \in V THEN St(x[1], x[2]) ELSE x[2]]
           B(g, i) == Built(g, h, s, b, i)
<1>1. CacheInitialize(h, s, b) = filled[N]
  <2>1. \A i, f : (LET l == object(b + (i - 1) * Bsize)
                       g == L!list_init(f[i - 1], l)
                   IN  L!list_insert(g, g.prev[freelist(s)], l)) = St(i, f[i - 1])
    OBVIOUS
  <2> QED
    BY DEF CacheInitialize
<1>2. N \in Nat
  BY Offsets
<1>3. B(v, 0) /\ \A i \in 1 .. N : \A g : B(g, i - 1) => B(St(i, g), i)
  BY BuiltFirst, BuiltNext
<1>4. \A g, i : B(g, i) => g \in V
  BY DEF Built
<1>5. F \in [Nat \X V -> V]
  <2> HIDE DEF St, V
  <2> QED
    OBVIOUS
<1>6. \A i \in Nat : \A g \in V : St(i, g) \in V => F[<<i, g>>] = St(i, g)
  <2> HIDE DEF St, V
  <2> QED
    OBVIOUS
<1> HIDE DEF F, St, v, B, V, N
<1>7. PICK g \in [0 .. N -> V] :
         g[0] = v /\ \A i \in 1 .. N : g[i] = F[<<i, g[i - 1]>>]
  <2>1. v \in V
    BY <1>3, <1>4
  <2> QED
    <3>1. \E g : Goes(g, V, v, F, N)
      BY <1>2, <1>5, <2>1, Iterates
    <3> QED
      BY <3>1 DEF Goes
<1>8. ASSUME NEW i \in 1 .. N, B(g[i - 1], i - 1)
      PROVE  g[i] = St(i, g[i - 1]) /\ B(g[i], i)
  <2>1. B(St(i, g[i - 1]), i) /\ g[i - 1] \in V
    BY <1>3, <1>4, <1>8
  <2>2. i \in Nat /\ St(i, g[i - 1]) \in V
    BY <1>2, <1>4, <2>1
  <2> QED
    BY <1>6, <1>7, <2>1, <2>2
<1>9. \A i \in 0 .. N : B(g[i], i)
  <2> DEFINE Bad == {i \in 0 .. N : ~B(g[i], i)}
  <2>1. ASSUME Bad # {}  PROVE FALSE
    <3>1. Bad \in SUBSET Nat
      OBVIOUS
    <3> HIDE DEF Bad
    <3>2. PICK k \in Bad : \A j \in Bad : k <= j
      BY <2>1, <3>1, LeastExists
    <3>3. k \in 0 .. N /\ ~B(g[k], k)
      BY DEF Bad
    <3>4. k # 0
      BY <1>3, <1>7, <3>3
    <3>5. k \in 1 .. N /\ k - 1 \in 0 .. N /\ ~(k <= k - 1)
      BY <1>2, <3>3, <3>4
    <3>6. B(g[k - 1], k - 1)
      BY <3>2, <3>5 DEF Bad
    <3> QED
      BY <1>8, <3>3, <3>5, <3>6
  <2> QED
    BY <2>1
<1>10. \A i \in 1 .. N : g[i] = St(i, g[i - 1])
  <2>1. \A i \in 1 .. N : i - 1 \in 0 .. N
    BY <1>2
  <2> QED
    BY <1>8, <1>9, <2>1
<1>11. Is(g)
  <2>1. \A i \in 0 .. N : i # 0 => i \in 1 .. N
    BY <1>2
  <2> QED
    BY <1>7, <1>10, <2>1
<1>12. filled[N] = g[N]
  <2>1. Is(filled)
    BY <1>11
  <2> HIDE DEF filled
  <2>2. 0 \in 0 .. N /\ \A i \in 1 .. N : i \in 0 .. N /\ i # 0
    BY <1>2
  <2>3. filled[0] = g[0] /\ \A i \in 1 .. N : filled[i] = St(i, filled[i - 1])
    BY <1>7, <2>1, <2>2
  <2>4. \A i \in 1 .. N : filled[i - 1] = g[i - 1] => filled[i] = g[i]
    BY <1>10, <2>3
  <2> HIDE DEF Is
  <2> QED
    BY <1>2, <2>3, <2>4, SameFromStart
<1>13. B(CacheInitialize(h, s, b), N)
  BY <1>1, <1>2, <1>9, <1>12
<1>14. Elements(N, Layout(b, s, N)) = {Nth(b, j) : j \in 1 .. N}
  BY <1>2, LayoutNodes
<1>15. {Nth(b, j) : j \in 1 .. N} = {object(a) : a \in Addresses(b)}
  BY NthApart DEF N
<1> QED
  BY <1>13, <1>14, <1>15 DEF B, N

-----------------------------------------------------------------------------
(* The invariant                                                           *)

ObjectsOf(b) == {object(a) : a \in Addresses(b)}

(* The slabs lie apart.                                                    *)
Placed(bs) ==
    /\ bs \in Seq(Bases \cup {Root}) /\ Len(bs) \in SlabIds
    /\ \A s, t \in 1 .. Len(bs) :
          s # t => bs[s] + Size <= bs[t] \/ bs[t] + Size <= bs[s]

(* Each freelist is a ring through the objects of its slab nobody took,    *)
(* and the caches list one through the slabs in the order they were added. *)
IsFreelist(h, s, b, taken) ==
    \E n, r : Ring(h, freelist(s), n, r) /\ Elements(n, r) = ObjectsOf(b) \ taken
Freelists(h, bs, taken) ==
    \A s \in 1 .. Len(bs) : IsFreelist(h, s, bs[s], taken)
Order(m) == [i \in 0 .. m |-> IF i = m THEN caches(1) ELSE caches(i + 1)]
Linked(h, m) == Ring(h, caches(1), m - 1, Order(m))

(* What was taken was taken from a slab.                                   *)
Given(bs, taken) == \A o \in taken : \E s \in 1 .. Len(bs) : o \in ObjectsOf(bs[s])

HeapInv(h, bs, taken) ==
    /\ h \in L!Heap
    /\ Placed(bs)
    /\ Freelists(h, bs, taken)
    /\ Linked(h, Len(bs))
    /\ Given(bs, taken)

SlabInv ==
    /\ HeapInv(heap, base, allocated)
    /\ holders \in [Objects -> {0, 1}]

LEMMA WithinSlab ==
    ASSUME NEW b \in Bases \cup {Root}
    PROVE  /\ b \in Nat /\ ObjectsOf(b) \subseteq Objects
           /\ \A o \in ObjectsOf(b) : o[2] \in Nat /\ b <= o[2] /\ o[2] < b + Size
           /\ IsFiniteSet(ObjectsOf(b)) /\ Cardinality(ObjectsOf(b)) = Nmemb
<1>1. b \in Nat
  BY SlabsAssumption
<1>2. ObjectsOf(b) \subseteq Objects
  BY DEF ObjectsOf, Objects, object
<1>3. ASSUME NEW a \in Addresses(b)  PROVE a \in Nat /\ b <= a /\ a < b + Size
  <2>1. PICK i \in 0 .. Nmemb - 1 : a = b + i * Bsize
    BY DEF Addresses
  <2>2. i * Bsize \in Nat /\ i * Bsize < Size /\ Size \in Nat
    BY Offsets
  <2> QED
    BY <1>1, <2>1, <2>2
<1>4. \A o \in ObjectsOf(b) : o[2] \in Nat /\ b <= o[2] /\ o[2] < b + Size
  BY <1>3, NodeKinds DEF ObjectsOf
<1>5. IsFiniteSet(ObjectsOf(b)) /\ Cardinality(ObjectsOf(b)) = Nmemb
  <2> DEFINE f == [i \in 1 .. Nmemb |-> Nth(b, i)]
  <2>1. f \in Bijection(1 .. Nmemb, ObjectsOf(b))
    <3>1. /\ \A i, j \in 1 .. Nmemb : Nth(b, i) = Nth(b, j) => i = j
          /\ {Nth(b, i) : i \in 1 .. Nmemb} = ObjectsOf(b)
      BY NthApart DEF ObjectsOf
    <3> QED
      BY <3>1 DEF Bijection, Injection, Surjection, IsInjective
  <2>2. Nmemb \in Nat /\ 1 \in Int /\ Nmemb \in Int /\ ~(1 > Nmemb)
    BY Offsets
  <2>3. IsFiniteSet(1 .. Nmemb) /\ Cardinality(1 .. Nmemb) = Nmemb
    BY <2>2, FS_Interval
  <2> QED
    BY <2>1, <2>3, FS_Bijection DEF ExistsBijection
<1> QED
  BY <1>1, <1>2, <1>4, <1>5

LEMMA PlacedTypes ==
    ASSUME NEW bs, Placed(bs)
    PROVE  /\ Len(bs) \in SlabIds /\ Len(bs) \in Nat /\ 1 \in 1 .. Len(bs)
           /\ \A t \in 1 .. Len(bs) : t \in SlabIds /\ bs[t] \in Bases \cup {Root}
<1>1. bs \in Seq(Bases \cup {Root}) /\ Len(bs) \in 1 .. MaxSlabs /\ MaxSlabs \in Nat
  BY Offsets DEF Placed, SlabIds
<1>2. \A t \in 1 .. Len(bs) : t \in 1 .. MaxSlabs
  BY <1>1
<1>3. \A t \in 1 .. Len(bs) : bs[t] \in Bases \cup {Root}
  BY <1>1
<1> QED
  BY <1>1, <1>2, <1>3 DEF SlabIds

(* An address lies in one slab at most.                                    *)
LEMMA OneSlab ==
    ASSUME NEW bs, Placed(bs), NEW s \in 1 .. Len(bs), NEW o \in ObjectsOf(bs[s]),
           NEW t \in 1 .. Len(bs), bs[t] <= o[2] /\ o[2] < bs[t] + Size
    PROVE  s = t
<1>1. bs[s] \in Bases \cup {Root} /\ bs[t] \in Bases \cup {Root}
  BY DEF Placed
<1>2. /\ bs[s] \in Nat /\ bs[t] \in Nat /\ o[2] \in Nat /\ Size \in Nat
      /\ bs[s] <= o[2] /\ o[2] < bs[s] + Size
  BY <1>1, WithinSlab, Offsets
<1>3. s # t => bs[s] + Size <= bs[t] \/ bs[t] + Size <= bs[s]
  BY DEF Placed
<1> QED
  BY <1>2, <1>3

LEMMA SlabsShareNothing ==
    ASSUME NEW bs, Placed(bs), NEW s \in 1 .. Len(bs), NEW t \in 1 .. Len(bs), s # t
    PROVE  ObjectsOf(bs[s]) \cap ObjectsOf(bs[t]) = {}
<1>1. bs[t] \in Bases \cup {Root}
  BY DEF Placed
<1>2. \A o \in ObjectsOf(bs[t]) : bs[t] <= o[2] /\ o[2] < bs[t] + Size
  BY <1>1, WithinSlab
<1> QED
  BY <1>2, OneSlab

(* The slabs are visited in the order they were added.                     *)
LEMMA OrderIsAge ==
    ASSUME NEW h \in L!Heap, NEW m \in SlabIds, Linked(h, m)
    PROVE  SlabOrder(h) = [i \in 1 .. m |-> i]
<1> DEFINE rest == L!Walk(h.next, caches(1), Bound)
           r == Order(m)
<1>1. m \in Nat /\ m >= 1 /\ m - 1 \in Nat /\ m - 1 <= Bound /\ Bound \in Nat
  BY Offsets DEF SlabIds
<1>2. rest = [i \in 1 .. m - 1 |-> r[i]] /\ Len(rest) = m - 1
  <2> HIDE DEF r
  <2>1. Ring(h, caches(1), m - 1, r)
    BY DEF Linked, r
  <2>2. Nil \notin Node
    BY NodeKinds
  <2> QED
    BY <1>1, <2>1, <2>2, RingReads DEF Prefix
<1>3. \A i \in 1 .. m - 1 : rest[i][2] = i + 1
  <2>1. \A i \in 1 .. m - 1 : i \in 0 .. m /\ i # m
    BY <1>1
  <2>2. \A i \in 1 .. m - 1 : r[i] = caches(i + 1)
    BY <2>1 DEF Order
  <2> HIDE DEF r, rest
  <2> QED
    BY <1>2, <2>2, NodeKinds
<1> HIDE DEF rest
<1> DEFINE tail == [i \in 1 .. Len(rest) |-> rest[i][2]]
<1>4. tail = [i \in 1 .. m - 1 |-> i + 1]
  BY <1>2, <1>3
<1>5. SlabOrder(h) = <<1>> \o tail
  BY DEF SlabOrder, rest
<1>6. tail \in Seq(Nat) /\ Len(tail) = m - 1
  BY <1>1, <1>4
<1> HIDE DEF tail
<1>7. <<1>> \o tail \in Seq(Nat) /\ Len(<<1>> \o tail) = m
  BY <1>1, <1>6
<1>8. \A i \in 1 .. m : (<<1>> \o tail)[i] = i
  BY <1>1, <1>4, <1>6
<1> QED
  BY <1>5, <1>7, <1>8

LEMMA OrderNodes ==
    ASSUME NEW m \in SlabIds
    PROVE  Elements(m - 1, Order(m)) = {caches(i) : i \in 2 .. m}
<1>1. m \in Nat
  BY DEF SlabIds
<1>2. \A i \in 1 .. m - 1 : i \in 0 .. m /\ i # m /\ i + 1 \in 2 .. m
  BY <1>1
<1>3. \A i \in 1 .. m - 1 : Order(m)[i] = caches(i + 1)
  BY <1>2 DEF Order
<1>4. \A i \in 2 .. m : i - 1 \in 1 .. m - 1 /\ (i - 1) + 1 = i
  BY <1>1
<1>5. \A i \in 2 .. m : Order(m)[i - 1] = caches(i)
  BY <1>3, <1>4
<1> QED
  BY <1>2, <1>3, <1>4, <1>5 DEF Elements

(* A step that writes only to the nodes of slab s leaves the rings of the  *)
(* other slabs, and the order of the slabs, as they were.                  *)
LEMMA OtherRings ==
    ASSUME NEW h, NEW bs, NEW taken, HeapInv(h, bs, taken),
           NEW s \in 1 .. Len(bs), NEW g \in L!Heap, NEW got,
           \A x \in Node \ (ObjectsOf(bs[s]) \cup {freelist(s)}) : Same(g, h, x),
           \A o : o \notin ObjectsOf(bs[s]) => (o \in got <=> o \in taken),
           IsFreelist(g, s, bs[s], got), Given(bs, got)
    PROVE  HeapInv(g, bs, got)
<1>1. Placed(bs) /\ Linked(h, Len(bs)) /\ Freelists(h, bs, taken)
  BY DEF HeapInv
<1>2. Len(bs) \in SlabIds /\ \A t \in 1 .. Len(bs) : t \in SlabIds /\ bs[t] \in Bases \cup {Root}
  BY <1>1, PlacedTypes
<1>3. \A t \in 1 .. Len(bs) : ObjectsOf(bs[t]) \subseteq Objects
  BY <1>2, WithinSlab
<1>4. Linked(g, Len(bs))
  <2>1. \A i \in 2 .. Len(bs) : i \in 1 .. Len(bs)
    BY <1>2 DEF SlabIds
  <2>2. \A i \in 1 .. Len(bs) : caches(i) \in Node \ (ObjectsOf(bs[s]) \cup {freelist(s)})
    BY <1>2, <1>3, NodeKinds
  <2>3. \A x \in Elements(Len(bs) - 1, Order(Len(bs))) : Same(g, h, x)
    BY <1>2, <2>1, <2>2, OrderNodes
  <2>4. 1 \in 1 .. Len(bs)
    BY <1>2 DEF SlabIds
  <2>5. Same(g, h, caches(1))
    BY <2>2, <2>4
  <2> QED
    BY <1>1, <2>3, <2>5, RingFrame DEF Linked
<1>5. ASSUME NEW t \in 1 .. Len(bs), t # s  PROVE IsFreelist(g, t, bs[t], got)
  <2>1. PICK n, r : Ring(h, freelist(t), n, r) /\ Elements(n, r) = ObjectsOf(bs[t]) \ taken
    BY <1>1 DEF Freelists, IsFreelist
  <2>2. ObjectsOf(bs[t]) \cap ObjectsOf(bs[s]) = {}
    BY <1>1, <1>5, SlabsShareNothing
  <2>3. ObjectsOf(bs[t]) \ taken = ObjectsOf(bs[t]) \ got
    BY <2>2
  <2>4. /\ Elements(n, r) \subseteq Node \ (ObjectsOf(bs[s]) \cup {freelist(s)})
        /\ freelist(t) \in Node \ (ObjectsOf(bs[s]) \cup {freelist(s)})
    BY <1>2, <1>3, <1>5, <2>1, <2>2, NodeKinds
  <2>5. Ring(g, freelist(t), n, r)
    BY <2>1, <2>4, RingFrame
  <2> QED
    BY <2>1, <2>3, <2>5 DEF IsFreelist
<1> QED
  BY <1>1, <1>4, <1>5 DEF HeapInv, Freelists

LEMMA HasObjectMeans ==
    ASSUME NEW h, NEW bs, NEW taken, HeapInv(h, bs, taken), NEW s \in 1 .. Len(bs)
    PROVE  HasObject(h, s) <=> ObjectsOf(bs[s]) \ taken # {}
<1>1. PICK n, r : /\ Ring(h, freelist(s), n, r)
                  /\ Elements(n, r) = ObjectsOf(bs[s]) \ taken
  BY DEF HeapInv, Freelists, IsFreelist
<1>2. n \in Nat /\ (n = 0 => Elements(n, r) = {})
  BY <1>1 DEF Ring, Elements
<1> QED
  BY <1>1, <1>2, RingEmpty DEF HasObject

(* Taking the first object off the freelist of slab s.                     *)
LEMMA PopKeeps ==
    ASSUME NEW h, NEW bs, NEW taken, HeapInv(h, bs, taken),
           NEW s \in 1 .. Len(bs), HasObject(h, s)
    PROVE  LET l == h.next[freelist(s)]
           IN  /\ l \in ObjectsOf(bs[s]) \ taken /\ l \in Objects
               /\ HeapInv(L!list_remove(h, l), bs, taken \cup {l})
<1> DEFINE l == h.next[freelist(s)]
           g == L!list_remove(h, l)
<1>1. PICK n, r : /\ Ring(h, freelist(s), n, r)
                  /\ Elements(n, r) = ObjectsOf(bs[s]) \ taken
  BY DEF HeapInv, Freelists, IsFreelist
<1>2. /\ h \in L!Heap /\ n \in Nat /\ n > 0 /\ l = r[1]
      /\ l \in Elements(n, r)
  <2>1. h \in L!Heap /\ n \in Nat
    BY <1>1 DEF Ring, HeapInv
  <2>2. n # 0
    BY <1>1, RingEmpty DEF HasObject
  <2> QED
    BY <1>1, <2>1, <2>2, RingEmpty
<1>3. bs[s] \in Bases \cup {Root}
  BY DEF HeapInv, Placed
<1>4. l \in ObjectsOf(bs[s]) \ taken /\ l \in Objects
  BY <1>1, <1>2, <1>3, WithinSlab
<1> DEFINE q == [i \in 0 .. n |-> IF i = 0 THEN freelist(s) ELSE r[i + 1]]
<1>5. /\ g \in L!Heap /\ Ring(g, freelist(s), n - 1, q)
      /\ Elements(n - 1, q) = Elements(n, r) \ {l}
      /\ \A x \in Node \ (Elements(n, r) \cup {freelist(s)}) : Same(g, h, x)
  BY <1>1, <1>2, RingRemove
<1> HIDE DEF q, g, l
<1>6. IsFreelist(g, s, bs[s], taken \cup {l})
  <2>1. Elements(n - 1, q) = ObjectsOf(bs[s]) \ (taken \cup {l})
    BY <1>1, <1>5
  <2> QED
    BY <1>5, <2>1 DEF IsFreelist
<1>7. Given(bs, taken \cup {l})
  BY <1>4 DEF HeapInv, Given
<1>8. \A x \in Node \ (ObjectsOf(bs[s]) \cup {freelist(s)}) : Same(g, h, x)
  BY <1>1, <1>5
<1>9. HeapInv(g, bs, taken \cup {l})
  <2>1. PICK got : got = taken \cup {l}
    OBVIOUS
  <2>2. \A o : o \notin ObjectsOf(bs[s]) => (o \in got <=> o \in taken)
    BY <1>4, <2>1
  <2>3. IsFreelist(g, s, bs[s], got) /\ Given(bs, got)
    BY <1>6, <1>7, <2>1
  <2> QED
    BY <1>5, <1>8, <2>1, <2>2, <2>3, OtherRings
<1> QED
  BY <1>4, <1>9 DEF g, l

(* Putting a taken object back at the head of the freelist of its slab.    *)
LEMMA PutBackKeeps ==
    ASSUME NEW h, NEW bs, NEW taken, HeapInv(h, bs, taken),
           NEW s \in 1 .. Len(bs), NEW ptr \in taken, ptr \in ObjectsOf(bs[s])
    PROVE  HeapInv(L!list_insert(L!list_init(h, ptr), freelist(s), ptr), bs, taken \ {ptr})
<1> DEFINE k == L!list_init(h, ptr)
           g == L!list_insert(k, freelist(s), ptr)
<1>1. PICK n, r : /\ Ring(h, freelist(s), n, r)
                  /\ Elements(n, r) = ObjectsOf(bs[s]) \ taken
  BY DEF HeapInv, Freelists, IsFreelist
<1>2. h \in L!Heap /\ bs[s] \in Bases \cup {Root} /\ s \in SlabIds
  BY PlacedTypes DEF HeapInv
<1>3. /\ ptr \in Objects /\ ptr \in Node /\ ptr \notin Elements(n, r)
      /\ ptr # freelist(s) /\ freelist(s) \in Node
      /\ Elements(n, r) \subseteq Node
  BY <1>1, <1>2, WithinSlab, NodeKinds
<1>4. k \in L!Heap /\ \A x \in Node \ {ptr} : Same(k, h, x)
  BY <1>2, <1>3, InitPointers DEF Same
<1> HIDE DEF k
<1>5. Ring(k, freelist(s), n, r)
  <2>1. Same(k, h, freelist(s)) /\ \A x \in Elements(n, r) : Same(k, h, x)
    BY <1>3, <1>4
  <2> QED
    BY <1>1, <2>1, RingFrame
<1> DEFINE q == [i \in 0 .. n + 2 |->
                    IF i <= 0 THEN r[i] ELSE IF i = 0 + 1 THEN ptr ELSE r[i - 1]]
<1>6. /\ g \in L!Heap /\ Ring(g, freelist(s), n + 1, q)
      /\ Elements(n + 1, q) = Elements(n, r) \cup {ptr}
      /\ \A x \in Node \ (Elements(n, r) \cup {freelist(s), ptr}) : Same(g, k, x)
  <2>1. 0 \in 0 .. n /\ r[0] = freelist(s)
    BY <1>1 DEF Ring
  <2> QED
    BY <1>3, <1>4, <1>5, <2>1, RingInsert
<1> HIDE DEF q, g
<1>7. IsFreelist(g, s, bs[s], taken \ {ptr})
  <2>1. Elements(n + 1, q) = ObjectsOf(bs[s]) \ (taken \ {ptr})
    BY <1>1, <1>6
  <2> QED
    BY <1>6, <2>1 DEF IsFreelist
<1>8. \A x \in Node \ (ObjectsOf(bs[s]) \cup {freelist(s)}) : Same(g, h, x)
  BY <1>1, <1>4, <1>6 DEF Same
<1>9. HeapInv(g, bs, taken \ {ptr})
  <2>1. PICK got : got = taken \ {ptr}
    OBVIOUS
  <2>2. \A o : o \notin ObjectsOf(bs[s]) => (o \in got <=> o \in taken)
    BY <2>1
  <2>3. IsFreelist(g, s, bs[s], got) /\ Given(bs, got)
    BY <1>7, <2>1 DEF HeapInv, Given
  <2> QED
    BY <1>6, <1>8, <2>1, <2>2, <2>3, OtherRings
<1> QED
  BY <1>9 DEF g, k

(* A client writing to what it was given disturbs no list.                 *)
LEMMA WriteKeeps ==
    ASSUME NEW h, NEW bs, NEW taken, HeapInv(h, bs, taken), taken \subseteq Objects,
           NEW ptr \in taken,
           NEW n \in {Nil, freelist(1)}, NEW p \in {Nil, freelist(1)}
    PROVE  HeapInv([h EXCEPT !.next[ptr] = n, !.prev[ptr] = p], bs, taken)
<1> DEFINE g == [h EXCEPT !.next[ptr] = n, !.prev[ptr] = p]
<1>1. PICK s \in 1 .. Len(bs) : ptr \in ObjectsOf(bs[s])
  BY DEF HeapInv, Given
<1>2. h \in L!Heap /\ ptr \in Node /\ ptr \in Objects
  BY NodeKinds DEF HeapInv
<1>3. {n, p} \subseteq Node \cup {Nil}
  BY NodeKinds, Offsets DEF SlabIds
<1>4. g \in L!Heap /\ \A x \in Node \ {ptr} : Same(g, h, x)
  <2> DEFINE next == [h.next EXCEPT ![ptr] = n]
             prev == [h.prev EXCEPT ![ptr] = p]
  <2>1. g = [next |-> next, prev |-> prev]
    <3>1. g = [[h EXCEPT !.next = next] EXCEPT !.prev = prev]
      OBVIOUS
    <3>2. DOMAIN h = {"next", "prev"}
      BY <1>2, HeapFields
    <3> HIDE DEF next, prev, g
    <3>3. /\ DOMAIN [h EXCEPT !.next = next] = {"next", "prev"}
          /\ [h EXCEPT !.next = next].next = next
      BY <3>2
    <3>4. DOMAIN g = {"next", "prev"} /\ g.next = next /\ g.prev = prev
      BY <3>1, <3>3
    <3>5. g = [x \in {"next", "prev"} |-> g[x]]
      BY <3>1, <3>4
    <3> QED
      BY <3>4, <3>5
  <2>2. next \in [Node -> Node \cup {Nil}] /\ prev \in [Node -> Node \cup {Nil}]
    BY <1>2, <1>3, HeapFields
  <2>3. \A x \in Node \ {ptr} : next[x] = h.next[x] /\ prev[x] = h.prev[x]
    BY <1>2, HeapFields
  <2> HIDE DEF g, next, prev
  <2> QED
    BY <2>1, <2>2, <2>3 DEF L!Heap, Same
<1> HIDE DEF g
<1>5. PICK m, r : /\ Ring(h, freelist(s), m, r)
                  /\ Elements(m, r) = ObjectsOf(bs[s]) \ taken
  BY DEF HeapInv, Freelists, IsFreelist
<1>6. Ring(g, freelist(s), m, r)
  <2>1. bs[s] \in Bases \cup {Root} /\ s \in SlabIds
    BY PlacedTypes DEF HeapInv
  <2>2. Elements(m, r) \subseteq Node \ {ptr} /\ freelist(s) \in Node \ {ptr}
    BY <1>2, <1>5, <2>1, WithinSlab, NodeKinds
  <2>3. Same(g, h, freelist(s)) /\ \A x \in Elements(m, r) : Same(g, h, x)
    BY <1>4, <2>2
  <2> QED
    BY <1>5, <2>3, RingFrame
<1>7. IsFreelist(g, s, bs[s], taken) /\ Given(bs, taken)
  BY <1>5, <1>6 DEF IsFreelist, HeapInv
<1>8. \A x \in Node \ (ObjectsOf(bs[s]) \cup {freelist(s)}) : Same(g, h, x)
  BY <1>1, <1>4
<1>9. HeapInv(g, bs, taken)
  BY <1>4, <1>7, <1>8, OtherRings
<1> QED
  BY <1>9 DEF g

LEMMA OwnNodes ==
    ASSUME NEW h \in L!Heap, NEW s \in SlabIds, NEW b \in Bases \cup {Root}
    PROVE  LET g == CacheInitialize(h, s, b)
           IN  /\ g \in L!Heap
               /\ \E n, r : Ring(g, freelist(s), n, r) /\ Elements(n, r) = ObjectsOf(b)
               /\ g.next[caches(s)] = caches(s) /\ g.prev[caches(s)] = caches(s)
               /\ \A x \in Node \ (ObjectsOf(b) \cup {freelist(s), caches(s)}) : Same(g, h, x)
<1>1. Elements(Nmemb, Layout(b, s, Nmemb)) = ObjectsOf(b)
  BY Initialized DEF ObjectsOf
<1>2. Own(b, s, Nmemb) = ObjectsOf(b) \cup {freelist(s), caches(s)}
  BY <1>1 DEF Own
<1> QED
  BY <1>1, <1>2, Initialized DEF Built

(* cache_extend: the new slab's freelist is full, the slab is the last of  *)
(* the caches, and the lists of the others are as they were.               *)
LEMMA GrownKeeps ==
    ASSUME NEW taken, HeapInv(heap, base, taken), NEW b \in Bases, Len(base) < MaxSlabs,
           \A s \in DOMAIN base : b + Size <= base[s] \/ base[s] + Size <= b
    PROVE  /\ HeapInv(Grown(b), Append(base, b), taken)
           /\ HasObject(Grown(b), Len(base) + 1)
<1> DEFINE m == Len(base)
           s == m + 1
           bs == Append(base, b)
           h == CacheInitialize(heap, s, b)
           g == L!list_insert(h, h.prev[caches(1)], caches(s))
<1>1. /\ m \in SlabIds /\ m \in Nat /\ m >= 1 /\ base \in Seq(Bases \cup {Root})
      /\ heap \in L!Heap
      /\ Placed(base) /\ \A t \in 1 .. m : t \in SlabIds /\ base[t] \in Bases \cup {Root}
  <2>1. Placed(base) /\ heap \in L!Heap /\ base \in Seq(Bases \cup {Root})
    BY DEF HeapInv, Placed
  <2> QED
    BY <2>1, PlacedTypes
<1>2. s \in SlabIds /\ b \in Bases \cup {Root} /\ 1 \in SlabIds
  BY <1>1, Offsets DEF SlabIds
<1>3. /\ bs \in Seq(Bases \cup {Root}) /\ Len(bs) = s
      /\ bs[s] = b /\ \A t \in 1 .. m : bs[t] = base[t]
      /\ \A t \in 1 .. s : t \in 1 .. m \/ t = s
  BY <1>1
<1> HIDE DEF bs
<1>4. Placed(bs)
  <2>1. \A t \in 1 .. m : b + Size <= base[t] \/ base[t] + Size <= b
    BY <1>1
  <2>2. \A t, u \in 1 .. m : t # u => base[t] + Size <= base[u] \/ base[u] + Size <= base[t]
    BY <1>1 DEF Placed
  <2>3. ASSUME NEW t \in 1 .. s, NEW u \in 1 .. s, t # u
        PROVE  bs[t] + Size <= bs[u] \/ bs[u] + Size <= bs[t]
    <3>1. (t \in 1 .. m \/ t = s) /\ (u \in 1 .. m \/ u = s)
      BY <1>3
    <3> HIDE DEF m, s
    <3> QED
      BY <1>3, <2>1, <2>2, <2>3, <3>1
  <2> HIDE DEF m, s
  <2> QED
    BY <1>2, <1>3, <2>3 DEF Placed
<1>5. \A t \in 1 .. m : ObjectsOf(b) \cap ObjectsOf(base[t]) = {}
  <2>1. \A t \in 1 .. m : t \in 1 .. Len(bs) /\ s \in 1 .. Len(bs) /\ s # t
    BY <1>1, <1>3
  <2> HIDE DEF m, s
  <2> QED
    BY <1>3, <1>4, <2>1, SlabsShareNothing
<1>6. ObjectsOf(b) \cap taken = {}
  BY <1>5 DEF HeapInv, Given
<1>7. /\ ObjectsOf(b) \subseteq Objects
      /\ \A t \in 1 .. m : ObjectsOf(base[t]) \subseteq Objects
  BY <1>1, <1>2, WithinSlab
<1>8. /\ h \in L!Heap
      /\ \E n, r : Ring(h, freelist(s), n, r) /\ Elements(n, r) = ObjectsOf(b)
      /\ \A x \in Node \ (ObjectsOf(b) \cup {freelist(s), caches(s)}) : Same(h, heap, x)
  BY <1>1, <1>2, OwnNodes
<1>9. \A t \in 1 .. m : t # s /\ t \in SlabIds
  BY <1>1
<1> HIDE DEF h, s
<1>10. \A t \in 1 .. m : IsFreelist(h, t, base[t], taken)
  <2>1. SUFFICES ASSUME NEW t \in 1 .. m  PROVE IsFreelist(h, t, base[t], taken)
    OBVIOUS
  <2>2. PICK n, r : /\ Ring(heap, freelist(t), n, r)
                    /\ Elements(n, r) = ObjectsOf(base[t]) \ taken
    BY DEF HeapInv, Freelists, IsFreelist
  <2>3. /\ Elements(n, r) \subseteq Node \ (ObjectsOf(b) \cup {freelist(s), caches(s)})
        /\ freelist(t) \in Node \ (ObjectsOf(b) \cup {freelist(s), caches(s)})
    BY <1>2, <1>5, <1>7, <1>9, <2>2, NodeKinds
  <2>4. Ring(h, freelist(t), n, r)
    BY <1>8, <2>2, <2>3, RingFrame
  <2> QED
    BY <2>2, <2>4 DEF IsFreelist
<1>11. IsFreelist(h, s, b, taken)
  <2>1. ObjectsOf(b) = ObjectsOf(b) \ taken
    BY <1>6
  <2> QED
    BY <1>8, <2>1 DEF IsFreelist
<1>12. Elements(m - 1, Order(m)) = {caches(i) : i \in 2 .. m} /\ \A i \in 2 .. m : i \in 1 .. m
  BY <1>1, OrderNodes
<1>13. Linked(h, m)
  <2>1. \A t \in 1 .. m : caches(t) \in Node \ (ObjectsOf(b) \cup {freelist(s), caches(s)})
    BY <1>2, <1>7, <1>9, NodeKinds
  <2>2. Same(h, heap, caches(1)) /\ \A x \in Elements(m - 1, Order(m)) : Same(h, heap, x)
    <3>1. 1 \in 1 .. m
      BY <1>1
    <3> QED
      BY <1>8, <1>12, <2>1, <3>1
  <2>3. Linked(heap, m)
    BY DEF HeapInv
  <2> HIDE DEF m
  <2> QED
    BY <2>2, <2>3, RingFrame DEF Linked
<1> DEFINE r == Order(m)
           n == m - 1
           q == [i \in 0 .. n + 2 |->
                    IF i <= n THEN r[i] ELSE IF i = n + 1 THEN caches(s) ELSE r[i - 1]]
<1>14. /\ g \in L!Heap
       /\ Ring(g, caches(1), n + 1, q)
       /\ \A x \in Node \ (Elements(n, r) \cup {caches(1), caches(s)}) : Same(g, h, x)
  <2>1. Ring(h, caches(1), n, r)
    BY <1>13 DEF Linked
  <2>2. n \in 0 .. n
    BY <1>1
  <2>3. caches(s) \in Node /\ caches(s) # caches(1) /\ caches(s) \notin Elements(n, r)
    <3>1. 1 \in 1 .. m
      BY <1>1
    <3> QED
      BY <1>2, <1>9, <1>12, <3>1, NodeKinds
  <2> HIDE DEF n, r, m
  <2>4. h.prev[caches(1)] = r[n]
    BY <2>1, RingEmpty
  <2> QED
    BY <1>8, <2>1, <2>2, <2>3, <2>4, RingInsert
<1>15. q = Order(s)
  <2>1. n + 2 = s /\ s \in Nat
    BY <1>1 DEF s
  <2>2. ASSUME NEW i \in 0 .. s
        PROVE  q[i] = IF i = s THEN caches(1) ELSE caches(i + 1)
    <3>1. CASE i <= n
      <4>1. i \in 0 .. n + 2 /\ i \in 0 .. m /\ i # m /\ i # s
        BY <1>1, <2>1, <3>1
      <4>2. q[i] = r[i] /\ r[i] = caches(i + 1)
        BY <3>1, <4>1 DEF Order
      <4> QED
        BY <4>1, <4>2
    <3>2. CASE i = m
      <4>1. i \in 0 .. n + 2 /\ ~(i <= n) /\ i = n + 1 /\ i # s /\ i + 1 = s
        BY <1>1, <2>1, <3>2
      <4> QED
        BY <4>1
    <3>3. CASE i = s
      <4>1. i \in 0 .. n + 2 /\ ~(i <= n) /\ i # n + 1 /\ i - 1 = m /\ m \in 0 .. m
        BY <1>1, <2>1, <3>3
      <4>2. q[i] = r[m] /\ r[m] = caches(1)
        BY <4>1 DEF Order
      <4> QED
        BY <3>3, <4>2
    <3> QED
      BY <1>1, <2>1, <3>1, <3>2, <3>3
  <2>3. q = [i \in 0 .. s |-> q[i]]
    BY <2>1
  <2> HIDE DEF q
  <2> QED
    BY <2>2, <2>3 DEF Order
<1>16. Linked(g, s)
  <2>1. n + 1 = s - 1
    BY <1>1 DEF s
  <2> HIDE DEF n, q, g
  <2> QED
    BY <1>14, <1>15, <2>1 DEF Linked
<1>17. \A x \in Objects \cup {freelist(t) : t \in SlabIds} : Same(g, h, x)
  <2>1. Elements(n, r) = {caches(i) : i \in 2 .. m} /\ \A i \in 2 .. m : i \in SlabIds
    BY <1>1, <1>12
  <2> HIDE DEF g, n, r, m
  <2> QED
    BY <1>2, <1>14, <2>1, NodeKinds
<1> HIDE DEF g
<1>18. \A t \in 1 .. s : IsFreelist(h, t, bs[t], taken) /\ t \in SlabIds
                         /\ ObjectsOf(bs[t]) \subseteq Objects
  BY <1>2, <1>3, <1>7, <1>9, <1>10, <1>11
<1>19. \A t \in 1 .. s : IsFreelist(g, t, bs[t], taken)
  <2>1. SUFFICES ASSUME NEW t \in 1 .. s  PROVE IsFreelist(g, t, bs[t], taken)
    OBVIOUS
  <2>2. PICK k, p : /\ Ring(h, freelist(t), k, p)
                    /\ Elements(k, p) = ObjectsOf(bs[t]) \ taken
    BY <1>18 DEF IsFreelist
  <2>3. Same(g, h, freelist(t)) /\ \A x \in Elements(k, p) : Same(g, h, x)
    BY <1>17, <1>18, <2>2
  <2>4. Ring(g, freelist(t), k, p)
    BY <2>2, <2>3, RingFrame
  <2> QED
    BY <2>2, <2>4 DEF IsFreelist
<1>20. Given(bs, taken)
  <2>1. \A t \in 1 .. m : t \in 1 .. s
    BY <1>1 DEF s
  <2> HIDE DEF m
  <2>2. \A o \in taken : \E t \in 1 .. m : o \in ObjectsOf(base[t])
    BY DEF HeapInv, Given, m
  <2> QED
    BY <1>3, <2>1, <2>2 DEF Given
<1>21. HeapInv(g, bs, taken)
  <2> HIDE DEF m, n, r, q
  <2> QED
    BY <1>3, <1>4, <1>14, <1>16, <1>19, <1>20 DEF HeapInv, Freelists
<1>22. HasObject(g, s)
  <2>1. s \in 1 .. Len(bs)
    BY <1>1, <1>3 DEF s
  <2>2. ObjectsOf(b) # {}
    BY <1>2, WithinSlab, FS_EmptySet, Offsets
  <2>3. ObjectsOf(bs[s]) \ taken # {}
    BY <1>3, <1>6, <2>2
  <2> QED
    BY <1>21, <2>1, <2>3, HasObjectMeans
<1>23. Grown(b) = g
  BY DEF Grown, g, h, s
<1> QED
  BY <1>21, <1>22, <1>23 DEF bs, s

LEMMA InitHolds ==
    Init => SlabInv
<1> SUFFICES ASSUME Init  PROVE SlabInv
  OBVIOUS
<1> DEFINE z == [next |-> [n \in Node |-> Nil], prev |-> [n \in Node |-> Nil]]
           h == CacheInitialize(z, 1, Root)
<1>1. z \in L!Heap /\ 1 \in SlabIds /\ Root \in Bases \cup {Root}
  BY Offsets DEF L!Heap, SlabIds
<1> HIDE DEF z
<1>2. /\ h \in L!Heap
      /\ \E n, r : Ring(h, freelist(1), n, r) /\ Elements(n, r) = ObjectsOf(Root)
      /\ h.next[caches(1)] = caches(1) /\ h.prev[caches(1)] = caches(1)
  BY <1>1, OwnNodes
<1>3. heap = h /\ base = <<Root>> /\ holders = [o \in Objects |-> 0]
  BY DEF Init, h, z
<1>4. allocated = {} /\ holders \in [Objects -> {0, 1}]
  BY <1>3 DEF allocated
<1>5. /\ base \in Seq(Bases \cup {Root}) /\ Len(base) = 1 /\ base[1] = Root
      /\ \A t \in 1 .. Len(base) : t = 1
  BY <1>1, <1>3
<1>6. Placed(base)
  BY <1>1, <1>5 DEF Placed
<1>7. Freelists(heap, base, {})
  <2>1. ObjectsOf(Root) = ObjectsOf(Root) \ {}
    OBVIOUS
  <2> HIDE DEF h
  <2> QED
    BY <1>2, <1>3, <1>5, <2>1 DEF Freelists, IsFreelist
<1>8. Linked(heap, 1)
  <2> HIDE DEF h
  <2> DEFINE r == Order(1)
  <2>1. r \in [0 .. (1 - 1) + 1 -> Node] /\ r[0] = caches(1) /\ r[(1 - 1) + 1] = caches(1)
    <3>1. caches(1) \in Node
      BY <1>1, NodeKinds
    <3>2. \A i \in 0 .. 1 : i = 0 \/ i = 1
      OBVIOUS
    <3> QED
      BY <3>1, <3>2 DEF Order
  <2>2. \A i \in 0 .. (1 - 1) : i = 0
    OBVIOUS
  <2> HIDE DEF r
  <2>3. Ring(h, caches(1), 1 - 1, r)
    BY <1>2, <2>1, <2>2 DEF Ring
  <2> QED
    BY <1>3, <2>3 DEF Linked, r
<1>9. Given(base, {})
  BY DEF Given
<1> HIDE DEF h
<1> QED
  BY <1>2, <1>3, <1>4, <1>5, <1>6, <1>7, <1>8, <1>9 DEF SlabInv, HeapInv

-----------------------------------------------------------------------------
(* Every step keeps the invariant                                          *)

LEMMA Counts ==
    ASSUME holders \in [Objects -> {0, 1}]
    PROVE  /\ \A o \in Objects : o \in allocated <=> holders[o] = 1
           /\ \A o \in Objects : o \notin allocated <=> holders[o] = 0
           /\ allocated \subseteq Objects
BY DEF allocated

(* Giving an object out: what its holder count and the pool see of it.     *)
LEMMA GivesOut ==
    ASSUME holders \in [Objects -> {0, 1}], NEW l \in Objects, l \notin allocated,
           holders' = [holders EXCEPT ![l] = @ + 1]
    PROVE  /\ holders' \in [Objects -> {0, 1}]
           /\ allocated' = allocated \cup {l}
           /\ Pool!Alloc
<1>1. holders[l] = 0
  BY DEF allocated
<1>2. holders' = [holders EXCEPT ![l] = 1]
  BY <1>1
<1>3. holders' \in [Objects -> {0, 1}]
  BY <1>2
<1>4. allocated' = allocated \cup {l}
  <2>1. \A o \in Objects : holders'[o] = IF o = l THEN 1 ELSE holders[o]
    BY <1>2
  <2> QED
    BY <2>1 DEF allocated
<1> QED
  BY <1>1, <1>2, <1>3, <1>4 DEF Pool!Alloc

LEMMA TakesBack ==
    ASSUME holders \in [Objects -> {0, 1}], NEW l \in allocated,
           holders' = [holders EXCEPT ![l] = @ - 1]
    PROVE  /\ holders' \in [Objects -> {0, 1}]
           /\ allocated' = allocated \ {l}
           /\ Pool!Free
<1>1. holders[l] = 1 /\ l \in Objects
  BY Counts
<1>2. holders' = [holders EXCEPT ![l] = 0]
  BY <1>1
<1>3. holders' \in [Objects -> {0, 1}]
  BY <1>2
<1>4. allocated' = allocated \ {l}
  <2>1. \A o \in Objects : holders'[o] = IF o = l THEN 0 ELSE holders[o]
    BY <1>2
  <2> QED
    BY <2>1 DEF allocated
<1> QED
  BY <1>1, <1>2, <1>3, <1>4 DEF Pool!Free

(* The first slab that passes a test passes it.                            *)
LEMMA FirstPasses ==
    ASSUME NEW m \in Nat, NEW T, T \cap (1 .. m) # {}
    PROVE  \E i \in 1 .. m : i \in T /\ \A j \in 1 .. i - 1 : j \notin T
<1> DEFINE S == T \cap (1 .. m)
<1>1. S \in SUBSET Nat
  OBVIOUS
<1> HIDE DEF S
<1>2. PICK i \in S : \A j \in S : i <= j
  BY <1>1, LeastExists DEF S
<1>3. i \in T /\ i \in 1 .. m
  BY DEF S
<1>4. \A j \in 1 .. i - 1 : j \in 1 .. m /\ ~(i <= j)
  BY <1>3
<1> QED
  BY <1>2, <1>3, <1>4 DEF S

LEMMA PopStep ==
    ASSUME holders \in [Objects -> {0, 1}], NEW h, NEW bs, HeapInv(h, bs, allocated),
           NEW s \in 1 .. Len(bs), HasObject(h, s), Pop(h, s), base' = bs
    PROVE  SlabInv' /\ Pool!Alloc
<1> DEFINE l == h.next[freelist(s)]
<1>1. /\ l \in Objects /\ l \notin allocated
      /\ HeapInv(L!list_remove(h, l), bs, allocated \cup {l})
  BY PopKeeps
<1>2. /\ heap' = L!list_remove(h, l)
      /\ holders' = [holders EXCEPT ![l] = @ + 1]
  BY DEF Pop
<1> HIDE DEF l
<1>3. /\ holders' \in [Objects -> {0, 1}] /\ allocated' = allocated \cup {l}
      /\ Pool!Alloc
  BY <1>1, <1>2, GivesOut
<1>4. HeapInv(heap', base', allocated')
  BY <1>1, <1>2, <1>3
<1> QED
  BY <1>3, <1>4 DEF SlabInv

LEMMA StepKeeps ==
    SlabInv /\ [Next]_vars => SlabInv' /\ [Pool!Next]_holders
<1> SUFFICES ASSUME SlabInv, [Next]_vars  PROVE SlabInv' /\ [Pool!Next]_holders
  OBVIOUS
<1> DEFINE m == Len(base)
<1>1. /\ HeapInv(heap, base, allocated) /\ holders \in [Objects -> {0, 1}]
      /\ heap \in L!Heap /\ Placed(base) /\ Linked(heap, m) /\ Given(base, allocated)
  BY DEF SlabInv, HeapInv
<1>2. m \in SlabIds /\ m \in Nat /\ DOMAIN base = 1 .. m
  BY <1>1, PlacedTypes DEF Placed
<1>3. SlabOrder(heap) = [i \in 1 .. m |-> i]
  BY <1>1, <1>2, OrderIsAge
<1> HIDE DEF m
<1>4. CASE AllocHit
  <2> DEFINE T == {s \in 1 .. m : HasObject(heap, s)}
             i == CHOOSE i \in 1 .. m : HasObject(heap, i) /\ \A j \in 1 .. i - 1 : ~HasObject(heap, j)
  <2>1. T \cap (1 .. m) # {}
    BY <1>2, <1>4 DEF AllocHit
  <2>2. i \in 1 .. m /\ HasObject(heap, i)
    <3>1. PICK k \in 1 .. m : k \in T /\ \A j \in 1 .. k - 1 : j \notin T
      BY <1>2, <2>1, FirstPasses
    <3>2. \A j \in 1 .. k - 1 : j \in 1 .. m
      BY <1>2
    <3>3. HasObject(heap, k) /\ \A j \in 1 .. k - 1 : ~HasObject(heap, j)
      BY <3>1, <3>2
    <3> QED
      BY <3>3
  <2>3. Pop(heap, i) /\ base' = base
    <3> DEFINE order == SlabOrder(heap)
    <3>1. Pop(heap, order[CHOOSE k \in DOMAIN order :
                    HasObject(heap, order[k]) /\ \A j \in 1 .. k - 1 : ~HasObject(heap, order[j])])
      BY <1>4 DEF AllocHit, FirstIn
    <3> HIDE DEF order
    <3>2. DOMAIN order = 1 .. m /\ \A k \in 1 .. m : order[k] = k
      BY <1>3 DEF order
    <3>3. \A k \in 1 .. m : \A j \in 1 .. k - 1 : j \in 1 .. m
      BY <1>2
    <3>4. \A k \in 1 .. m :
             (HasObject(heap, order[k]) /\ \A j \in 1 .. k - 1 : ~HasObject(heap, order[j]))
             <=> (HasObject(heap, k) /\ \A j \in 1 .. k - 1 : ~HasObject(heap, j))
      BY <3>2, <3>3
    <3>5. (CHOOSE k \in DOMAIN order :
              HasObject(heap, order[k]) /\ \A j \in 1 .. k - 1 : ~HasObject(heap, order[j])) = i
      BY <3>2, <3>4
    <3>6. order[i] = i
      BY <2>2, <3>2
    <3> QED
      BY <1>4, <3>1, <3>5, <3>6 DEF AllocHit
  <2> HIDE DEF i
  <2> QED
    BY <1>1, <2>2, <2>3, PopStep DEF Pool!Next, m
<1>5. ASSUME NEW b \in Bases, AllocGrow(b)  PROVE SlabInv' /\ Pool!Next
  <2>1. /\ HeapInv(Grown(b), Append(base, b), allocated)
        /\ HasObject(Grown(b), m + 1)
    BY <1>1, <1>5, GrownKeeps DEF AllocGrow, m
  <2>2. Pop(Grown(b), m + 1) /\ base' = Append(base, b)
    BY <1>5 DEF AllocGrow, m
  <2>3. m + 1 \in 1 .. Len(Append(base, b))
    BY <1>1, <1>2, <1>5 DEF Placed, m
  <2> QED
    BY <1>1, <2>1, <2>2, <2>3, PopStep DEF Pool!Next
<1>6. ASSUME NEW ptr \in allocated, Free(ptr)  PROVE SlabInv' /\ Pool!Next
  <2>1. PICK s \in 1 .. m : ptr \in ObjectsOf(base[s])
    BY <1>1 DEF Given, m
  <2>2. Lies(ptr, s) /\ \A t \in 1 .. m : Lies(ptr, t) => t = s
    <3>1. base[s] \in Bases \cup {Root}
      BY <1>1, PlacedTypes DEF m
    <3>2. Lies(ptr, s)
      BY <2>1, <3>1, WithinSlab DEF Lies
    <3> QED
      BY <1>1, <2>1, <3>2, OneSlab DEF Lies, m
  <2> DEFINE i == CHOOSE i \in 1 .. m : Lies(ptr, i) /\ \A j \in 1 .. i - 1 : ~Lies(ptr, j)
             order == SlabOrder(heap)
  <2>3. i = s
    <3>1. \A j \in 1 .. s - 1 : j \in 1 .. m /\ j # s
      BY <1>2
    <3>2. Lies(ptr, s) /\ \A j \in 1 .. s - 1 : ~Lies(ptr, j)
      BY <2>2, <3>1
    <3>3. i \in 1 .. m /\ Lies(ptr, i)
      BY <3>2
    <3> HIDE DEF i
    <3> QED
      BY <2>2, <3>3
  <2>4. TryFree(ptr, s)
    <3>1. TryFree(ptr, order[CHOOSE k \in DOMAIN order :
                    Lies(ptr, order[k]) /\ \A j \in 1 .. k - 1 : ~Lies(ptr, order[j])])
      BY <1>6 DEF Free, FirstIn
    <3> HIDE DEF order
    <3>2. DOMAIN order = 1 .. m /\ \A k \in 1 .. m : order[k] = k
      BY <1>3 DEF order
    <3>3. \A k \in 1 .. m : \A j \in 1 .. k - 1 : j \in 1 .. m
      BY <1>2
    <3>4. \A k \in 1 .. m :
             (Lies(ptr, order[k]) /\ \A j \in 1 .. k - 1 : ~Lies(ptr, order[j]))
             <=> (Lies(ptr, k) /\ \A j \in 1 .. k - 1 : ~Lies(ptr, j))
      BY <3>2, <3>3
    <3>5. (CHOOSE k \in DOMAIN order :
              Lies(ptr, order[k]) /\ \A j \in 1 .. k - 1 : ~Lies(ptr, order[j])) = i
      BY <3>2, <3>4
    <3>6. order[s] = s
      BY <3>2
    <3> HIDE DEF i
    <3> QED
      BY <2>3, <3>1, <3>5, <3>6
  <2>5. HeapInv(heap', base, allocated \ {ptr})
    BY <1>1, <2>1, <2>4, PutBackKeeps DEF TryFree, m
  <2>6. holders' = [holders EXCEPT ![ptr] = @ - 1] /\ base' = base
    BY <1>6 DEF Free
  <2>7. /\ holders' \in [Objects -> {0, 1}] /\ allocated' = allocated \ {ptr}
        /\ Pool!Free
    BY <1>1, <2>6, TakesBack
  <2> QED
    BY <2>5, <2>6, <2>7 DEF SlabInv, Pool!Next
<1>7. ASSUME NEW ptr \in allocated, Write(ptr)  PROVE SlabInv' /\ UNCHANGED holders
  <2>1. /\ base' = base /\ holders' = holders
        /\ \E n, p \in {Nil, freelist(1)} :
              heap' = [heap EXCEPT !.next[ptr] = n, !.prev[ptr] = p]
    BY <1>7 DEF Write
  <2>2. allocated \subseteq Objects /\ allocated' = allocated
    BY <2>1 DEF allocated
  <2>3. HeapInv(heap', base, allocated)
    <3>1. PICK n \in {Nil, freelist(1)}, p \in {Nil, freelist(1)} :
             heap' = [heap EXCEPT !.next[ptr] = n, !.prev[ptr] = p]
      BY <2>1
    <3>2. HeapInv([heap EXCEPT !.next[ptr] = n, !.prev[ptr] = p], base, allocated)
      BY <1>1, <2>2, WriteKeeps
    <3> QED
      BY <3>1, <3>2
  <2> QED
    BY <1>1, <2>1, <2>2, <2>3 DEF SlabInv
<1>8. CASE UNCHANGED vars
  <2>1. heap' = heap /\ base' = base /\ holders' = holders
    BY <1>8 DEF vars
  <2>2. allocated' = allocated
    BY <2>1 DEF allocated
  <2>3. SlabInv'
    BY <1>1, <2>1, <2>2 DEF SlabInv
  <2> QED
    BY <2>1, <2>3
<1> QED
  BY <1>4, <1>5, <1>6, <1>7, <1>8 DEF Next

LEMMA SlabInvAlways ==
    Spec => []SlabInv
<1>1. Init => SlabInv
  BY InitHolds
<1>2. SlabInv /\ [Next]_vars => SlabInv'
  BY StepKeeps
<1> QED
  BY <1>1, <1>2, PTL DEF Spec

(* No object of a cache is ever given to two holders or freed more often   *)
(* than it was given, and no list pointer leaves the cache's nodes:        *)
(* cache_alloc and cache_free, for slabs of any number and size of objects *)
(* placed anywhere apart, whatever clients write into what they hold.      *)
THEOREM SlabTypes ==
    Spec => []TypeOK
<1>1. SlabInv => TypeOK
  <2> SUFFICES ASSUME SlabInv  PROVE TypeOK
    OBVIOUS
  <2>1. Placed(base) /\ heap \in L!Heap /\ holders \in [Objects -> {0, 1}]
    BY DEF SlabInv, HeapInv
  <2>2. Len(base) \in SlabIds /\ base \in Seq(Nat)
    <3>1. base \in Seq(Bases \cup {Root}) /\ Bases \cup {Root} \subseteq Nat
      BY <2>1, SlabsAssumption DEF Placed
    <3>2. base \in Seq(Nat)
      <4>1. base = [i \in 1 .. Len(base) |-> base[i]] /\ Len(base) \in Nat
        BY <3>1
      <4>2. \A i \in 1 .. Len(base) : base[i] \in Nat
        BY <3>1
      <4>3. [i \in 1 .. Len(base) |-> base[i]] \in Seq(Nat)
        BY <4>1, <4>2
      <4> QED
        BY <4>1, <4>3
    <3> QED
      BY <2>1, <3>2 DEF Placed
  <2> QED
    BY <2>1, <2>2 DEF TypeOK
<1> QED
  BY <1>1, SlabInvAlways, PTL

(* The linked slabs implement a pool: every cache_alloc gives an object    *)
(* nobody holds, every cache_free takes back one that was held, and no     *)
(* other step moves an object between the cache and its clients.           *)
THEOREM SlabsArePool ==
    Spec => ImplementsPool
<1>1. Init => Pool!Init
  BY DEF Init, Pool!Init
<1>2. SlabInv /\ [Next]_vars => [Pool!Next]_holders
  BY StepKeeps
<1> QED
  BY <1>1, <1>2, SlabInvAlways, PTL DEF Spec, ImplementsPool, Pool!Spec

(* Each freelist, read along next as along prev, lists the free objects of *)
(* its own slab once each, in every reachable state: list_insert,          *)
(* list_remove and cache_initialize, over the memory of the objects.       *)
THEOREM FreelistsStayExact ==
    Spec => []FreelistsExact
<1>1. SlabInv => FreelistsExact
  <2> SUFFICES ASSUME SlabInv, NEW s \in DOMAIN base
               PROVE  LET fwd == L!Walk(heap.next, freelist(s), Bound)
                          bwd == L!Walk(heap.prev, freelist(s), Bound)
                      IN  /\ fwd = Reverse(bwd)
                          /\ ToSet(fwd) = SlabObjects(s) \ allocated
                          /\ Len(fwd) = Cardinality(SlabObjects(s) \ allocated)
    BY DEF FreelistsExact
  <2>1. heap \in L!Heap /\ Placed(base) /\ s \in 1 .. Len(base)
    BY DEF SlabInv, HeapInv, Placed
  <2>2. PICK n, r : /\ Ring(heap, freelist(s), n, r)
                    /\ Elements(n, r) = ObjectsOf(base[s]) \ allocated
    BY <2>1 DEF SlabInv, HeapInv, Freelists, IsFreelist
  <2>3. n \in Nat /\ n <= n /\ Nil \notin Node
    BY <2>2, NodeKinds DEF Ring
  <2>4. Cardinality(Elements(n, r)) = n
    BY <2>2, RingSize
  <2>5. n <= Nmemb
    <3>1. base[s] \in Bases \cup {Root}
      BY <2>1, PlacedTypes
    <3>2. Cardinality(Elements(n, r)) <= Cardinality(ObjectsOf(base[s]))
      BY <2>2, <3>1, WithinSlab, FS_Subset
    <3> QED
      BY <2>4, <3>1, <3>2, WithinSlab
  <2>6. n <= Bound /\ Bound \in Nat
    BY <2>3, <2>5, Offsets
  <2>7. SlabObjects(s) = ObjectsOf(base[s])
    BY DEF SlabObjects, ObjectsOf
  <2> QED
    BY <2>1, <2>2, <2>3, <2>4, <2>6, <2>7, RingReads
<1> QED
  BY <1>1, SlabInvAlways, PTL

-----------------------------------------------------------------------------
(* The count cache_remaining makes                                         *)

FreeOf(s) == SlabObjects(s) \ allocated

LEMMA FreeSets ==
    ASSUME SlabInv, NEW s \in 1 .. Len(base)
    PROVE  /\ IsFiniteSet(FreeOf(s)) /\ Cardinality(FreeOf(s)) \in Nat
           /\ FreelistSize(s) = IF Cardinality(FreeOf(s)) = 0 THEN 0
                                ELSE 1 + Cardinality(FreeOf(s))
<1>1. /\ heap \in L!Heap /\ Placed(base) /\ SlabObjects(s) = ObjectsOf(base[s])
  BY DEF SlabInv, HeapInv, SlabObjects, ObjectsOf
<1>2. PICK n, r : Ring(heap, freelist(s), n, r) /\ Elements(n, r) = FreeOf(s)
  BY <1>1 DEF SlabInv, HeapInv, Freelists, IsFreelist, FreeOf
<1>3. n \in Nat /\ Nil \notin Node
  BY <1>2, NodeKinds DEF Ring
<1>4. Cardinality(FreeOf(s)) = n /\ IsFiniteSet(FreeOf(s))
  BY <1>2, RingSize
<1>5. n <= Bound /\ Bound \in Nat
  <2>1. base[s] \in Bases \cup {Root}
    BY <1>1, PlacedTypes
  <2>2. FreeOf(s) \subseteq ObjectsOf(base[s])
    BY <1>1 DEF FreeOf
  <2>3. Cardinality(FreeOf(s)) <= Cardinality(ObjectsOf(base[s]))
    BY <2>1, <2>2, WithinSlab, FS_Subset
  <2> QED
    BY <1>3, <1>4, <2>1, <2>3, WithinSlab, Offsets
<1>6. Len(L!Walk(heap.next, freelist(s), Bound)) = n
  BY <1>1, <1>2, <1>3, <1>5, RingReads
<1>7. L!list_empty(heap, freelist(s)) <=> n = 0
  BY <1>2, <1>3, RingEmpty
<1> QED
  BY <1>3, <1>4, <1>6, <1>7 DEF FreelistSize

(* The sum over the slabs, as a function of how many were counted.         *)
LEMMA RemainingIsSum ==
    ASSUME SlabInv
    PROVE  \E len \in [0 .. Len(base) -> Nat] :
              /\ len[0] = 0
              /\ \A i \in 1 .. Len(base) : len[i] = FreelistSize(i) + len[i - 1]
              /\ CacheRemaining = len[Len(base)]
<1> DEFINE N == Len(base)
           S(i) == FreelistSize(i)
           order == SlabOrder(heap)
           Is(f) == f = [i \in 0 .. Len(order) |->
                            IF i = 0 THEN 0 ELSE FreelistSize(order[i]) + f[i - 1]]
           len == CHOOSE f : Is(f)
           F == [x \in Nat \X Nat |-> IF x[1] \in 1 .. N THEN S(x[1]) + x[2] ELSE 0]
<1>1. CacheRemaining = len[Len(order)]
  BY DEF CacheRemaining
<1>2. N \in SlabIds /\ N \in Nat
  BY PlacedTypes DEF SlabInv, HeapInv
<1>3. order = [i \in 1 .. N |-> i]
  BY <1>2, OrderIsAge DEF SlabInv, HeapInv
<1> HIDE DEF order
<1>4. Len(order) = N /\ \A i \in 1 .. N : order[i] = i
  <2>1. order \in Seq(Nat)
    BY <1>2, <1>3
  <2> QED
    BY <1>2, <1>3, <2>1
<1>5. \A i \in 1 .. N : S(i) \in Nat
  BY FreeSets
<1> HIDE DEF N, S
<1>6. /\ F \in [Nat \X Nat -> Nat]
      /\ \A i \in 1 .. N : \A x \in Nat : F[<<i, x>>] = S(i) + x
  BY <1>2, <1>5
<1> HIDE DEF F
<1>7. \E g : Goes(g, Nat, 0, F, N)
  BY <1>2, <1>6, Iterates
<1>8. PICK g \in [0 .. N -> Nat] :
         g[0] = 0 /\ \A i \in 1 .. N : g[i] = F[<<i, g[i - 1]>>]
  BY <1>7 DEF Goes
<1>9. \A i \in 1 .. N : g[i] = S(i) + g[i - 1]
  <2>1. \A i \in 1 .. N : i - 1 \in 0 .. N /\ g[i - 1] \in Nat
    BY <1>2, <1>8
  <2> QED
    BY <1>6, <1>8, <2>1
<1>10. \A i \in 1 .. N : FreelistSize(order[i]) = S(i)
  BY <1>4 DEF S
<1>11. Is(g)
  <2>1. \A i \in 0 .. N : i # 0 => i \in 1 .. N
    BY <1>2
  <2>2. \A i \in 0 .. N : g[i] = IF i = 0 THEN 0 ELSE FreelistSize(order[i]) + g[i - 1]
    BY <1>8, <1>9, <1>10, <2>1
  <2> QED
    BY <1>4, <1>8, <2>2
<1>12. len[N] = g[N]
  <2>1. Is(len)
    BY <1>11
  <2> HIDE DEF len
  <2>2. 0 \in 0 .. N /\ \A i \in 1 .. N : i \in 0 .. N /\ i # 0
    BY <1>2
  <2>3. len[0] = g[0] /\ \A i \in 1 .. N : len[i] = S(i) + len[i - 1]
    BY <1>4, <1>8, <1>10, <2>1, <2>2
  <2>4. \A i \in 1 .. N : len[i - 1] = g[i - 1] => len[i] = g[i]
    BY <1>9, <2>3
  <2> HIDE DEF Is
  <2> QED
    BY <1>2, <2>3, <2>4, SameFromStart
<1> HIDE DEF len
<1> QED
  BY <1>1, <1>4, <1>8, <1>9, <1>12 DEF N, S

(* The sum goes two up for the first free object and never one, so that it *)
(* is at most two exactly while one object is left.                        *)
LEMMA SumMeans ==
    ASSUME SlabInv, NEW len \in [0 .. Len(base) -> Nat], len[0] = 0,
           \A i \in 1 .. Len(base) : len[i] = FreelistSize(i) + len[i - 1]
    PROVE  LET all == (UNION {SlabObjects(s) : s \in 1 .. Len(base)}) \ allocated
           IN  len[Len(base)] <= 2 <=> Cardinality(all) <= 1
<1> DEFINE N == Len(base)
           U(k) == UNION {FreeOf(s) : s \in 1 .. k}
           c(k) == Cardinality(U(k))
           P(k) == /\ IsFiniteSet(U(k)) /\ c(k) \in Nat
                   /\ c(k) = 0 => len[k] = 0
                   /\ c(k) = 1 => len[k] = 2
                   /\ c(k) > 1 => len[k] > 2
           Bad == {k \in 0 .. N : ~P(k)}
<1>1. N \in Nat /\ Placed(base) /\ \A s \in 1 .. N : SlabObjects(s) = ObjectsOf(base[s])
  BY PlacedTypes DEF SlabInv, HeapInv, SlabObjects, ObjectsOf
<1>2. P(0)
  <2>1. U(0) = {}
    OBVIOUS
  <2>2. IsFiniteSet({}) /\ Cardinality({}) = 0
    BY FS_EmptySet
  <2>3. IsFiniteSet(U(0)) /\ c(0) = 0
    BY <2>1, <2>2
  <2> HIDE DEF c, U
  <2> QED
    BY <2>3
<1>3. ASSUME NEW k \in 1 .. N, P(k - 1)  PROVE P(k)
  <2> DEFINE n == Cardinality(FreeOf(k))
  <2>1. U(k) = U(k - 1) \cup FreeOf(k)
    <3>1. \A s : s \in 1 .. k <=> s \in 1 .. k - 1 \/ s = k
      BY <1>1
    <3> QED
      BY <3>1
  <2>2. U(k - 1) \cap FreeOf(k) = {}
    <3>1. \A s \in 1 .. k - 1 : s \in 1 .. N /\ s # k
      BY <1>1
    <3>2. \A s \in 1 .. k - 1 : ObjectsOf(base[s]) \cap ObjectsOf(base[k]) = {}
      BY <1>1, <3>1, SlabsShareNothing
    <3> QED
      BY <1>1, <3>1, <3>2 DEF FreeOf
  <2>3. /\ IsFiniteSet(FreeOf(k)) /\ n \in Nat
        /\ FreelistSize(k) = IF n = 0 THEN 0 ELSE 1 + n
    BY FreeSets
  <2> HIDE DEF U
  <2>4. IsFiniteSet(U(k)) /\ c(k) = c(k - 1) + n - Cardinality({})
    <3>1. PICK A, B : A = U(k - 1) /\ B = FreeOf(k)
      OBVIOUS
    <3>2. IsFiniteSet(A) /\ IsFiniteSet(B)
      BY <1>3, <2>3, <3>1
    <3>3. /\ IsFiniteSet(A \cup B)
          /\ Cardinality(A \cup B) = Cardinality(A) + Cardinality(B) - Cardinality(A \cap B)
      BY <3>2, FS_Union
    <3>4. A \cap B = {} /\ A \cup B = U(k)
      BY <2>1, <2>2, <3>1
    <3> QED
      BY <3>1, <3>3, <3>4
  <2>5. c(k) = c(k - 1) + n
    BY <1>3, <2>3, <2>4, FS_EmptySet
  <2>6. len[k] = FreelistSize(k) + len[k - 1] /\ len[k - 1] \in Nat
    <3>1. k - 1 \in 0 .. N
      BY <1>1
    <3> QED
      BY <3>1
  <2>7. c(k - 1) \in Nat
    BY <1>3
  <2> HIDE DEF c, n
  <2> QED
    BY <1>3, <2>3, <2>4, <2>5, <2>6, <2>7
<1> HIDE DEF P
<1>4. ASSUME Bad # {}  PROVE FALSE
  <2>1. Bad \in SUBSET Nat
    BY <1>1
  <2> HIDE DEF Bad
  <2>2. PICK k \in Bad : \A j \in Bad : k <= j
    BY <1>4, <2>1, LeastExists
  <2>3. k \in 0 .. N /\ ~P(k)
    BY DEF Bad
  <2>4. k # 0
    BY <1>2, <2>3
  <2>5. k \in 1 .. N /\ k - 1 \in 0 .. N /\ ~(k <= k - 1)
    BY <1>1, <2>3, <2>4
  <2>6. P(k - 1)
    BY <2>2, <2>5 DEF Bad
  <2> QED
    BY <1>3, <2>3, <2>5, <2>6
<1>5. P(N)
  BY <1>1, <1>4
<1>6. (UNION {SlabObjects(s) : s \in 1 .. N}) \ allocated = U(N)
  BY DEF FreeOf
<1>7. len[N] <= 2 <=> c(N) <= 1
  <2>1. len[N] \in Nat
    BY <1>1
  <2> HIDE DEF U, N
  <2> QED
    BY <1>5, <2>1 DEF P
<1> QED
  BY <1>6, <1>7

(* cache_remaining counts one too many for each slab with a free object,   *)
(* so the manager's test `at most two' means: at most one object is left   *)
(* in the whole cache.  Where the two differ, memory_map_cache would be    *)
(* extended too late, or on every allocation.                              *)
THEOREM RemainingTestsOne ==
    Spec => []RemainingTest
<1>1. SlabInv => RemainingTest
  <2> SUFFICES ASSUME SlabInv  PROVE RemainingTest
    OBVIOUS
  <2>1. DOMAIN base = 1 .. Len(base)
    BY DEF SlabInv, HeapInv, Placed
  <2>2. PICK len \in [0 .. Len(base) -> Nat] :
           /\ len[0] = 0
           /\ \A i \in 1 .. Len(base) : len[i] = FreelistSize(i) + len[i - 1]
           /\ CacheRemaining = len[Len(base)]
    BY RemainingIsSum
  <2>3. len[Len(base)] <= 2 <=>
          Cardinality((UNION {SlabObjects(s) : s \in 1 .. Len(base)}) \ allocated) <= 1
    BY <2>2, SumMeans
  <2> QED
    BY <2>1, <2>2, <2>3 DEF RemainingTest
<1> QED
  BY <1>1, SlabInvAlways, PTL
=============================================================================
