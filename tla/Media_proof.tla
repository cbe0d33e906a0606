----------------------------- MODULE Media_proof -----------------------------
(***************************************************************************)
(* Loading never loses nor doubles a block: whichever call fails, for any  *)
(* files and any number of things held, the heap is what the program holds *)
(* and what the call under way has in its hands, each block of one owner.  *)
(***************************************************************************)
EXTENDS Media, FiniteSetTheorems, SequenceTheorems, TLAPS

IsSequence(s) == s \in Seq(Rows(s))
Blocks(things) == UNION {things[k].blocks : k \in DOMAIN things}

ImagePcs == {"open", "header", "img", "data", "rows", "read", "skip", "err", "err_buf", "err_img"}
AnimPcs == {"anim malloc", "anim calloc", "strdup", "anim"}
SoundPcs == {"sound open", "magic", "melody", "tones"}

ImageFields == {"pc", "file", "img", "data", "rows", "from", "i", "pos", "anim"}
AnimFields == {"todo", "blocks", "copy", "imgs"}

(* The blocks in the hands of a call: what it has allocated and not freed. *)
AnimHands(a) == (a.blocks \cup {a.copy} \cup Blocks(a.imgs)) \ {NULL}
ImageHands(c) ==
    (IF c.pc = "err_img" THEN {}
     ELSE IF c.pc = "err_buf" THEN {c.img}
     ELSE {c.img, c.data} \cup Rows(c.rows)) \ {NULL}

(* The struct is allocated, then the array of rows, then the rows one by   *)
(* one: the labels of the error paths rely on that order.                  *)
ImageInHand(c) ==
    /\ c.pc \in {"open", "header", "img"} => c.img = NULL
    /\ c.pc \in {"open", "header", "img", "data"} => c.data = NULL /\ c.rows = <<>> /\ c.i = 0
    /\ c.pc \in {"data", "rows", "read", "skip", "err", "err_buf"} => c.img # NULL
    /\ c.pc \in {"rows", "read", "skip"} => /\ c.data # NULL
                                           /\ DOMAIN c.rows = 1 .. c.file.height
    /\ c.pc \in {"rows", "read", "skip", "err"} => c.img \notin {c.data} \cup Rows(c.rows)
    /\ c.pc = "rows" => /\ c.i \in 0 .. c.file.height
                        /\ \A j \in DOMAIN c.rows : c.rows[j] = NULL <=> j > c.i
    /\ c.pc \in {"read", "skip"} => NULL \notin Rows(c.rows)

(* The copy of the paths is freed at the end, and is nothing the animation *)
(* keeps.                                                                  *)
AnimInHand(a) ==
    /\ DOMAIN a = AnimFields /\ a.todo \in Seq(Bitmaps)
    /\ IsSequence(a.imgs)
    /\ NULL \notin a.blocks \cup Blocks(a.imgs)
    /\ a.copy \notin a.blocks \cup Blocks(a.imgs)

Hands(c) ==
    IF c.pc \in ImagePcs THEN ImageHands(c) \cup AnimHands(c.anim)
    ELSE IF c.pc \in AnimPcs THEN AnimHands(c.anim)
    ELSE IF c.pc \in SoundPcs THEN {c.melody} \ {NULL}
    ELSE {}

Files(c) ==
    IF c.pc \in ImagePcs \ {"open"} THEN {"image"}
    ELSE IF c.pc \in SoundPcs \ {"sound open"} THEN {"sound"}
    ELSE {}

(* The calls that run, each with its locals.                               *)
LoadsImage(c) ==
    /\ DOMAIN c = ImageFields /\ c.file \in Bitmaps
    /\ ImageInHand(c) /\ AnimInHand(c.anim)
    /\ c.anim = NoAnim \/ c.anim.copy # NULL
    /\ ImageHands(c) \cap AnimHands(c.anim) = {}
LoadsAnim(c) ==
    /\ DOMAIN c = {"pc", "anim"} /\ AnimInHand(c.anim)
    /\ c.pc # "anim" => c.anim.copy = NULL /\ c.anim.imgs = <<>>
    /\ c.pc = "anim malloc" => c.anim.blocks = {}
    /\ c.pc = "anim" => c.anim.copy # NULL
LoadsSound(c) ==
    /\ DOMAIN c = {"pc", "tune", "melody", "tones"}
    /\ c.pc = "tones" <=> c.melody # NULL

CallInv(c) ==
    \/ c = Idle
    \/ c.pc \in ImagePcs /\ LoadsImage(c)
    \/ c.pc \in AnimPcs /\ LoadsAnim(c)
    \/ c.pc \in SoundPcs /\ LoadsSound(c)
    \/ c.pc = "halted" /\ c.by = blue_screen
    \/ c.pc = "fault"

Apart == \A j, k \in DOMAIN held : held[j].blocks \cap held[k].blocks # {} => j = k

Stopped == call.pc \in {"halted", "fault"}

HeapInv ==
    /\ IsFiniteSet(heap) /\ NULL \notin heap
    /\ ~Stopped => /\ heap = Blocks(held) \cup Hands(call)
                   /\ Blocks(held) \cap Hands(call) = {}
                   /\ fds = Files(call)

IInv ==
    /\ wild = FALSE
    /\ IsSequence(held) /\ Apart
    /\ blue_screen = IF video = "graphic" THEN "fb" ELSE "cons"
    /\ CallInv(call)
    /\ HeapInv

-----------------------------------------------------------------------------
(* Sequences and the heap                                                  *)

(* A block that is allocated is a new one: among one block number more     *)
(* than there are blocks, one is free.                                     *)
LEMMA FreshIsFree ==
    ASSUME IsFiniteSet(heap)
    PROVE  Fresh \notin heap /\ Fresh # NULL /\ IsFiniteSet(heap \cup {Fresh})
<1> DEFINE n == Cardinality(heap)
<1>1. n \in Nat
  BY FS_CardinalityType
<1>2. \E b \in 1 .. n + 1 : b \notin heap
  <2> SUFFICES ASSUME 1 .. n + 1 \subseteq heap
               PROVE  FALSE
    OBVIOUS
  <2>1. Cardinality(1 .. n + 1) = n + 1
    BY <1>1, FS_Interval
  <2>2. Cardinality(1 .. n + 1) <= n
    BY FS_Subset
  <2> QED
    BY <1>1, <2>1, <2>2
<1>3. Fresh \in 1 .. n + 1 /\ Fresh \notin heap
  BY <1>2 DEF Fresh
<1>4. Fresh # NULL
  BY <1>1, <1>3 DEF NULL
<1> QED
  BY <1>3, <1>4, FS_AddElement

(* Less is finite too.                                                     *)
LEMMA FreeIsFinite ==
    ASSUME IsFiniteSet(heap), NEW blocks
    PROVE  IsFiniteSet(heap \ blocks)
BY FS_Subset

(* What a sequence is with one thing more at its end.                      *)
LEMMA AppendOne ==
    ASSUME NEW s, IsSequence(s), NEW e
    PROVE  /\ Len(s) \in Nat /\ DOMAIN s = 1 .. Len(s)
           /\ IsSequence(Append(s, e))
           /\ DOMAIN Append(s, e) = 1 .. Len(s) + 1
           /\ \A k \in DOMAIN s : Append(s, e)[k] = s[k]
           /\ Append(s, e)[Len(s) + 1] = e
           /\ Len(Append(s, e)) = Len(s) + 1
<1> DEFINE S == Rows(s) \cup {e}
           t == Append(s, e)
<1>1. s \in Seq(Rows(s)) /\ Len(s) \in Nat /\ DOMAIN s = 1 .. Len(s)
  BY DEF IsSequence
<1>2. s \in Seq(S)
  BY <1>1 DEF Rows
<1>3. t \in Seq(S) /\ Len(t) = Len(s) + 1 /\ DOMAIN t = 1 .. Len(s) + 1
  BY <1>1, <1>2
<1>4. \A k \in DOMAIN s : t[k] = s[k]
  BY <1>1, <1>2
<1>5. t[Len(s) + 1] = e
  BY <1>1, <1>2
<1>6. t \in Seq(Rows(t))
  BY <1>3 DEF Rows
<1> QED
  BY <1>1, <1>3, <1>4, <1>5, <1>6 DEF IsSequence

(* The blocks of the things held, with one thing more.                     *)
LEMMA AppendBlocks ==
    ASSUME NEW s, IsSequence(s), NEW e
    PROVE  Blocks(Append(s, e)) = Blocks(s) \cup e.blocks
<1> DEFINE t == Append(s, e)
<1>1. /\ DOMAIN t = DOMAIN s \cup {Len(s) + 1}
      /\ \A k \in DOMAIN s : t[k] = s[k]
      /\ t[Len(s) + 1] = e
  BY AppendOne
<1> HIDE DEF t
<1> QED
  BY <1>1 DEF Blocks

(* What is left of a sequence, in order, without the thing at k.           *)
LEMMA RemoveOne ==
    ASSUME NEW s, IsSequence(s), NEW k \in DOMAIN s
    PROVE  /\ IsSequence(RemoveAt(s, k))
           /\ DOMAIN RemoveAt(s, k) = 1 .. Len(s) - 1
           /\ \A i \in 1 .. Len(s) - 1 :
                RemoveAt(s, k)[i] = IF i < k THEN s[i] ELSE s[i + 1]
<1> DEFINE front == SubSeq(s, 1, k - 1)
           back == SubSeq(s, k + 1, Len(s))
           t == RemoveAt(s, k)
<1>1. s \in Seq(Rows(s)) /\ Len(s) \in Nat /\ DOMAIN s = 1 .. Len(s) /\ k \in 1 .. Len(s)
  BY DEF IsSequence
<1>2. /\ front \in Seq(Rows(s)) /\ Len(front) = k - 1
      /\ \A i \in 1 .. k - 1 : front[i] = s[i]
  BY <1>1
<1>3. /\ back \in Seq(Rows(s)) /\ Len(back) = Len(s) - k
      /\ \A i \in 1 .. Len(s) - k : back[i] = s[k + i]
  BY <1>1
<1>4. t = front \o back
  BY DEF RemoveAt
<1> HIDE DEF front, back, t
<1>5. t \in Seq(Rows(s)) /\ Len(t) = Len(s) - 1 /\ DOMAIN t = 1 .. Len(s) - 1
  <2>1. t \in Seq(Rows(s)) /\ Len(t) = Len(front) + Len(back)
    BY <1>2, <1>3, <1>4, ConcatProperties
  <2> QED
    BY <1>1, <1>2, <1>3, <2>1
<1>6. ASSUME NEW i \in 1 .. Len(s) - 1
      PROVE  t[i] = IF i < k THEN s[i] ELSE s[i + 1]
  <2>0. \A j \in 1 .. Len(front) + Len(back) :
            t[j] = IF j <= Len(front) THEN front[j] ELSE back[j - Len(front)]
    BY <1>2, <1>3, <1>4, ConcatProperties
  <2>1. CASE i < k
    BY <1>1, <1>2, <1>3, <2>0, <2>1
  <2>2. CASE i >= k
    <3>1. t[i] = back[i - (k - 1)]
      BY <1>1, <1>2, <1>3, <2>0, <2>2
    <3>2. i - (k - 1) \in 1 .. Len(s) - k /\ k + (i - (k - 1)) = i + 1
      BY <1>1, <2>2
    <3> QED
      BY <1>1, <1>3, <2>2, <3>1, <3>2
  <2> QED
    BY <1>1, <2>1, <2>2
<1>7. t \in Seq(Rows(t))
  BY <1>5 DEF Rows
<1> QED
  BY <1>5, <1>6, <1>7 DEF t, IsSequence

(* An order-preserving renumbering: what RemoveAt leaves was there before, *)
(* at another place for another thing.                                     *)
LEMMA RemoveKeeps ==
    ASSUME NEW s, IsSequence(s), NEW k \in DOMAIN s
    PROVE  \E f \in [1 .. Len(s) - 1 -> DOMAIN s \ {k}] :
             /\ \A i \in 1 .. Len(s) - 1 : RemoveAt(s, k)[i] = s[f[i]]
             /\ \A i, j \in 1 .. Len(s) - 1 : f[i] = f[j] => i = j
             /\ \A m \in DOMAIN s \ {k} : \E i \in 1 .. Len(s) - 1 : f[i] = m
<1> DEFINE f == [i \in 1 .. Len(s) - 1 |-> IF i < k THEN i ELSE i + 1]
<1>1. Len(s) \in Nat /\ DOMAIN s = 1 .. Len(s) /\ k \in 1 .. Len(s)
  BY DEF IsSequence
<1>2. f \in [1 .. Len(s) - 1 -> DOMAIN s \ {k}]
  BY <1>1
<1>3. \A i \in 1 .. Len(s) - 1 : RemoveAt(s, k)[i] = s[f[i]]
  BY <1>1, RemoveOne
<1>4. \A i, j \in 1 .. Len(s) - 1 : f[i] = f[j] => i = j
  BY <1>1
<1>5. ASSUME NEW m \in DOMAIN s \ {k}
      PROVE  \E i \in 1 .. Len(s) - 1 : f[i] = m
  <2>1. CASE m < k
    <3>1. m \in 1 .. Len(s) - 1 /\ f[m] = m
      BY <1>1, <2>1
    <3> QED
      BY <3>1
  <2>2. CASE m > k
    <3>1. m - 1 \in 1 .. Len(s) - 1 /\ f[m - 1] = m
      BY <1>1, <2>2
    <3> QED
      BY <3>1
  <2> QED
    BY <1>1, <2>1, <2>2
<1> QED
  BY <1>2, <1>3, <1>4, <1>5

(* Of things that share no block, one can be taken out with its blocks.    *)
LEMMA RemoveBlocks ==
    ASSUME NEW s, IsSequence(s), NEW k \in DOMAIN s,
           \A i, j \in DOMAIN s : s[i].blocks \cap s[j].blocks # {} => i = j
    PROVE  /\ Blocks(RemoveAt(s, k)) = Blocks(s) \ s[k].blocks
           /\ \A i, j \in DOMAIN RemoveAt(s, k) :
                RemoveAt(s, k)[i].blocks \cap RemoveAt(s, k)[j].blocks # {} => i = j
<1> DEFINE t == RemoveAt(s, k)
           D == 1 .. Len(s) - 1
<1>1. PICK f \in [D -> DOMAIN s \ {k}] :
             /\ \A i \in D : t[i] = s[f[i]]
             /\ \A i, j \in D : f[i] = f[j] => i = j
             /\ \A m \in DOMAIN s \ {k} : \E i \in D : f[i] = m
  BY RemoveKeeps
<1>2. DOMAIN t = D
  BY RemoveOne
<1> HIDE DEF t, D
<1>3. Blocks(t) \subseteq Blocks(s) \ s[k].blocks
  <2> SUFFICES ASSUME NEW i \in D, NEW b \in t[i].blocks
               PROVE  b \in Blocks(s) /\ b \notin s[k].blocks
    BY <1>2 DEF Blocks
  <2>1. t[i] = s[f[i]] /\ f[i] \in DOMAIN s /\ f[i] # k
    BY <1>1
  <2> QED
    BY <2>1 DEF Blocks
<1>4. Blocks(s) \ s[k].blocks \subseteq Blocks(t)
  <2> SUFFICES ASSUME NEW m \in DOMAIN s \ {k}, NEW b \in s[m].blocks
               PROVE  b \in Blocks(t)
    BY DEF Blocks
  <2>1. PICK i \in D : f[i] = m
    BY <1>1
  <2>2. t[i] = s[m]
    BY <1>1, <2>1
  <2> QED
    BY <1>2, <2>2 DEF Blocks
<1>5. ASSUME NEW i \in D, NEW j \in D, t[i].blocks \cap t[j].blocks # {}
      PROVE  i = j
  <2>1. t[i] = s[f[i]] /\ t[j] = s[f[j]] /\ f[i] \in DOMAIN s /\ f[j] \in DOMAIN s
    BY <1>1
  <2> QED
    BY <1>1, <1>5, <2>1
<1> QED
  BY <1>2, <1>3, <1>4, <1>5 DEF t

-----------------------------------------------------------------------------
(* What the invariant says of each kind of call                            *)

LEMMA IdlePc ==
    Idle.pc = "idle"
BY DEF Idle

LEMMA ImageState ==
    ASSUME IInv, call.pc \in ImagePcs
    PROVE  /\ DOMAIN call = ImageFields /\ call.file \in Bitmaps
           /\ ImageInHand(call) /\ AnimInHand(call.anim)
           /\ call.anim = NoAnim \/ call.anim.copy # NULL
           /\ ImageHands(call) \cap AnimHands(call.anim) = {}
           /\ heap = Blocks(held) \cup ImageHands(call) \cup AnimHands(call.anim)
           /\ Blocks(held) \cap (ImageHands(call) \cup AnimHands(call.anim)) = {}
           /\ fds = IF call.pc = "open" THEN {} ELSE {"image"}
<1>1. CallInv(call) /\ HeapInv
  BY DEF IInv
<1>2. LoadsImage(call)
  BY <1>1, IdlePc DEF CallInv, ImagePcs, AnimPcs, SoundPcs
<1>3. ~Stopped
  BY DEF Stopped, ImagePcs
<1>4. Hands(call) = ImageHands(call) \cup AnimHands(call.anim)
  BY DEF Hands
<1>5. Files(call) = IF call.pc = "open" THEN {} ELSE {"image"}
  BY DEF Files, ImagePcs, SoundPcs
<1> QED
  BY <1>1, <1>2, <1>3, <1>4, <1>5 DEF HeapInv, LoadsImage

LEMMA AnimState ==
    ASSUME IInv, call.pc \in AnimPcs
    PROVE  /\ DOMAIN call = {"pc", "anim"} /\ AnimInHand(call.anim)
           /\ call.pc # "anim" => call.anim.copy = NULL /\ call.anim.imgs = <<>>
           /\ call.pc = "anim malloc" => call.anim.blocks = {}
           /\ call.pc = "anim" => call.anim.copy # NULL
           /\ heap = Blocks(held) \cup AnimHands(call.anim)
           /\ Blocks(held) \cap AnimHands(call.anim) = {}
           /\ fds = {}
<1>1. CallInv(call) /\ HeapInv
  BY DEF IInv
<1>2. LoadsAnim(call)
  BY <1>1, IdlePc DEF CallInv, ImagePcs, AnimPcs, SoundPcs
<1>3. ~Stopped
  BY DEF Stopped, AnimPcs
<1>4. Hands(call) = AnimHands(call.anim)
  BY DEF Hands, ImagePcs, AnimPcs
<1>5. Files(call) = {}
  BY DEF Files, ImagePcs, AnimPcs, SoundPcs
<1> QED
  BY <1>1, <1>2, <1>3, <1>4, <1>5 DEF HeapInv, LoadsAnim

LEMMA SoundState ==
    ASSUME IInv, call.pc \in SoundPcs
    PROVE  /\ DOMAIN call = {"pc", "tune", "melody", "tones"}
           /\ call.pc = "tones" <=> call.melody # NULL
           /\ heap = Blocks(held) \cup ({call.melody} \ {NULL})
           /\ Blocks(held) \cap ({call.melody} \ {NULL}) = {}
           /\ fds = IF call.pc = "sound open" THEN {} ELSE {"sound"}
<1>1. CallInv(call) /\ HeapInv
  BY DEF IInv
<1>2. LoadsSound(call)
  BY <1>1, IdlePc DEF CallInv, ImagePcs, AnimPcs, SoundPcs
<1>3. ~Stopped
  BY DEF Stopped, SoundPcs
<1>4. Hands(call) = {call.melody} \ {NULL}
  BY DEF Hands, ImagePcs, AnimPcs, SoundPcs
<1>5. Files(call) = IF call.pc = "sound open" THEN {} ELSE {"sound"}
  BY DEF Files, ImagePcs, SoundPcs
<1> QED
  BY <1>1, <1>2, <1>3, <1>4, <1>5 DEF HeapInv, LoadsSound

LEMMA IdleState ==
    ASSUME IInv, call.pc = "idle"
    PROVE  call = Idle /\ heap = Blocks(held) /\ fds = {}
<1>1. CallInv(call) /\ HeapInv
  BY DEF IInv
<1>2. call = Idle
  BY <1>1 DEF CallInv, ImagePcs, AnimPcs, SoundPcs
<1>3. ~Stopped
  BY DEF Stopped
<1>4. Hands(call) = {} /\ Files(call) = {}
  BY DEF Hands, Files, ImagePcs, AnimPcs, SoundPcs
<1> QED
  BY <1>1, <1>2, <1>3, <1>4 DEF HeapInv

LEMMA EmptyHolds ==
    Rows(<<>>) = {} /\ Blocks(<<>>) = {} /\ IsSequence(<<>>)
<1>1. <<>> \in Seq({}) /\ DOMAIN <<>> = {}
  OBVIOUS
<1>2. Rows(<<>>) = {} /\ Blocks(<<>>) = {}
  BY <1>1 DEF Rows, Blocks
<1> QED
  BY <1>1, <1>2 DEF IsSequence

(* An animation of which nothing has been allocated holds nothing.         *)
LEMMA NothingYet ==
    ASSUME NEW a, a.blocks = {}, a.copy = NULL, a.imgs = <<>>
    PROVE  AnimHands(a) = {} /\ IsSequence(a.imgs) /\ Blocks(a.imgs) = {}
BY EmptyHolds DEF AnimHands

LEMMA NoAnimHoldsNothing ==
    AnimHands(NoAnim) = {} /\ AnimInHand(NoAnim)
<1>1. /\ NoAnim.blocks = {} /\ NoAnim.copy = NULL /\ NoAnim.imgs = <<>>
      /\ NoAnim.todo = <<>>
      /\ DOMAIN NoAnim = AnimFields
  BY DEF NoAnim, AnimFields
<1>2. AnimHands(NoAnim) = {} /\ IsSequence(NoAnim.imgs) /\ Blocks(NoAnim.imgs) = {}
  BY <1>1, NothingYet
<1>3. <<>> \in Seq(Bitmaps)
  OBVIOUS
<1> QED
  BY <1>1, <1>2, <1>3 DEF AnimInHand, NULL

-----------------------------------------------------------------------------
(* What is to be shown of a step, by the state it leads to                 *)

Aside == UNCHANGED <<wild, video, blue_screen>>
Loads == Aside /\ UNCHANGED held

LEMMA ImageStep ==
    ASSUME IInv, Loads,
           call'.pc \in ImagePcs, DOMAIN call' = ImageFields, call'.file \in Bitmaps,
           ImageInHand(call'), AnimInHand(call'.anim),
           call'.anim = NoAnim \/ call'.anim.copy # NULL,
           ImageHands(call') \cap AnimHands(call'.anim) = {},
           heap' = Blocks(held) \cup ImageHands(call') \cup AnimHands(call'.anim),
           Blocks(held) \cap (ImageHands(call') \cup AnimHands(call'.anim)) = {},
           fds' = IF call'.pc = "open" THEN {} ELSE {"image"},
           IsFiniteSet(heap'), NULL \notin heap'
    PROVE  IInv'
<1>1. /\ UNCHANGED <<held, wild, video, blue_screen>>
      /\ wild = FALSE /\ IsSequence(held) /\ Apart
      /\ blue_screen = IF video = "graphic" THEN "fb" ELSE "cons"
  BY DEF IInv, Loads, Aside
<1>2. CallInv(call)'
  BY DEF CallInv, LoadsImage
<1>3. Hands(call') = ImageHands(call') \cup AnimHands(call'.anim)
  BY DEF Hands
<1>4. Files(call') = IF call'.pc = "open" THEN {} ELSE {"image"}
  BY DEF Files, ImagePcs, SoundPcs
<1>5. HeapInv'
  BY <1>1, <1>3, <1>4 DEF HeapInv
<1>6. Apart'
  BY <1>1 DEF Apart
<1> QED
  BY <1>1, <1>2, <1>5, <1>6 DEF IInv

LEMMA AnimStep ==
    ASSUME IInv, Loads,
           call'.pc \in AnimPcs, DOMAIN call' = {"pc", "anim"}, AnimInHand(call'.anim),
           call'.pc # "anim" => call'.anim.copy = NULL /\ call'.anim.imgs = <<>>,
           call'.pc = "anim malloc" => call'.anim.blocks = {},
           call'.pc = "anim" => call'.anim.copy # NULL,
           heap' = Blocks(held) \cup AnimHands(call'.anim),
           Blocks(held) \cap AnimHands(call'.anim) = {},
           fds' = {}, IsFiniteSet(heap'), NULL \notin heap'
    PROVE  IInv'
<1>1. /\ UNCHANGED <<held, wild, video, blue_screen>>
      /\ wild = FALSE /\ IsSequence(held) /\ Apart
      /\ blue_screen = IF video = "graphic" THEN "fb" ELSE "cons"
  BY DEF IInv, Loads, Aside
<1>2. CallInv(call)'
  BY DEF CallInv, LoadsAnim
<1>3. Hands(call') = AnimHands(call'.anim)
  BY DEF Hands, ImagePcs, AnimPcs
<1>4. Files(call') = {}
  BY DEF Files, ImagePcs, AnimPcs, SoundPcs
<1>5. HeapInv'
  BY <1>1, <1>3, <1>4 DEF HeapInv
<1>6. Apart'
  BY <1>1 DEF Apart
<1> QED
  BY <1>1, <1>2, <1>5, <1>6 DEF IInv

LEMMA SoundStep ==
    ASSUME IInv, Loads,
           call'.pc \in SoundPcs, DOMAIN call' = {"pc", "tune", "melody", "tones"},
           call'.pc = "tones" <=> call'.melody # NULL,
           heap' = Blocks(held) \cup ({call'.melody} \ {NULL}),
           Blocks(held) \cap ({call'.melody} \ {NULL}) = {},
           fds' = IF call'.pc = "sound open" THEN {} ELSE {"sound"},
           IsFiniteSet(heap'), NULL \notin heap'
    PROVE  IInv'
<1>1. /\ UNCHANGED <<held, wild, video, blue_screen>>
      /\ wild = FALSE /\ IsSequence(held) /\ Apart
      /\ blue_screen = IF video = "graphic" THEN "fb" ELSE "cons"
  BY DEF IInv, Loads, Aside
<1>2. CallInv(call)'
  BY DEF CallInv, LoadsSound
<1>3. Hands(call') = {call'.melody} \ {NULL}
  BY DEF Hands, ImagePcs, AnimPcs, SoundPcs
<1>4. Files(call') = IF call'.pc = "sound open" THEN {} ELSE {"sound"}
  BY DEF Files, ImagePcs, SoundPcs
<1>5. HeapInv'
  BY <1>1, <1>3, <1>4 DEF HeapInv
<1>6. Apart'
  BY <1>1 DEF Apart
<1> QED
  BY <1>1, <1>2, <1>5, <1>6 DEF IInv

(* A call returns: the program holds what is in the heap.                  *)
LEMMA IdleStep ==
    ASSUME IInv, Aside, call' = Idle, fds' = {}, heap' = Blocks(held'),
           IsSequence(held'), Apart', IsFiniteSet(heap'), NULL \notin heap'
    PROVE  IInv'
<1>1. /\ UNCHANGED <<wild, video, blue_screen>>
      /\ wild = FALSE
      /\ blue_screen = IF video = "graphic" THEN "fb" ELSE "cons"
  BY DEF IInv, Aside
<1>2. call'.pc = "idle"
  BY DEF Idle
<1>3. Hands(call') = {} /\ Files(call') = {}
  BY <1>2 DEF Hands, Files, ImagePcs, AnimPcs, SoundPcs
<1>4. HeapInv'
  BY <1>3 DEF HeapInv
<1>5. CallInv(call)'
  BY DEF CallInv
<1> QED
  BY <1>1, <1>4, <1>5 DEF IInv

(* A call ends without anything to hold.                                   *)
LEMMA IdleLoads ==
    ASSUME IInv, Loads, call' = Idle, fds' = {}, heap' = Blocks(held),
           IsFiniteSet(heap'), NULL \notin heap'
    PROVE  IInv'
<1>1. UNCHANGED held /\ Aside
  BY DEF Loads
<1>2. IsSequence(held') /\ Apart' /\ Blocks(held') = Blocks(held)
  BY <1>1 DEF IInv, Apart
<1> QED
  BY <1>1, <1>2, IdleStep

(* The system stops, with the screen in the mode the handler is for.       *)
LEMMA StopStep ==
    ASSUME IInv, Loads, IsFiniteSet(heap'), NULL \notin heap',
           (call'.pc = "halted" /\ call'.by = blue_screen) \/ call'.pc = "fault"
    PROVE  IInv'
<1>1. /\ UNCHANGED <<held, wild, video, blue_screen>>
      /\ wild = FALSE /\ IsSequence(held) /\ Apart
      /\ blue_screen = IF video = "graphic" THEN "fb" ELSE "cons"
  BY DEF IInv, Loads, Aside
<1>2. CallInv(call)'
  BY <1>1 DEF CallInv
<1>3. HeapInv'
  BY DEF HeapInv, Stopped
<1>4. Apart'
  BY <1>1 DEF Apart
<1> QED
  BY <1>1, <1>2, <1>3, <1>4 DEF IInv

(* A step of load_image that takes no block, one that takes a new one, and *)
(* one that gives some back.                                               *)
LEMMA ImageGoes ==
    ASSUME IInv, Loads, UNCHANGED heap, call.pc \in ImagePcs,
           call'.pc \in ImagePcs, DOMAIN call' = ImageFields,
           call'.file = call.file, call'.anim = call.anim,
           ImageInHand(call'), ImageHands(call') = ImageHands(call),
           fds' = IF call'.pc = "open" THEN {} ELSE {"image"}
    PROVE  IInv'
<1>1. IsFiniteSet(heap') /\ NULL \notin heap'
  BY DEF IInv, HeapInv
<1> QED
  BY <1>1, ImageState, ImageStep

LEMMA ImageTakes ==
    ASSUME IInv, Loads, heap' = heap \cup {Fresh}, call.pc \in ImagePcs,
           call'.pc \in ImagePcs, DOMAIN call' = ImageFields,
           call'.file = call.file, call'.anim = call.anim,
           ImageInHand(call'), ImageHands(call') = ImageHands(call) \cup {Fresh},
           fds' = IF call'.pc = "open" THEN {} ELSE {"image"}
    PROVE  IInv'
<1>1. IsFiniteSet(heap) /\ NULL \notin heap
  BY DEF IInv, HeapInv
<1>2. Fresh \notin heap /\ Fresh # NULL /\ IsFiniteSet(heap')
  BY <1>1, FreshIsFree
<1> QED
  BY <1>1, <1>2, ImageState, ImageStep

LEMMA ImageGives ==
    ASSUME IInv, Loads, call.pc \in ImagePcs,
           NEW blocks, heap' = heap \ blocks, blocks \ {NULL} \subseteq ImageHands(call),
           call'.pc \in ImagePcs, DOMAIN call' = ImageFields,
           call'.file = call.file, call'.anim = call.anim,
           ImageInHand(call'), ImageHands(call') = ImageHands(call) \ blocks,
           fds' = IF call'.pc = "open" THEN {} ELSE {"image"}
    PROVE  IInv'
<1>1. IsFiniteSet(heap) /\ NULL \notin heap
  BY DEF IInv, HeapInv
<1>2. NULL \notin Blocks(held) \cup AnimHands(call.anim)
  BY <1>1, ImageState
<1>3. IsFiniteSet(heap')
  BY <1>1, FreeIsFinite
<1> QED
  BY <1>1, <1>2, <1>3, ImageState, ImageStep

LEMMA ImageGoto ==
    ASSUME DOMAIN call = ImageFields, NEW p, Goto(p)
    PROVE  /\ DOMAIN call' = ImageFields /\ call'.pc = p
           /\ UNCHANGED <<call.file, call.img, call.data, call.rows, call.from, call.i,
                          call.pos, call.anim>>
BY DEF Goto, ImageFields

(* free of blocks in hand goes well.                                       *)
LEMMA FreeInHand ==
    ASSUME IInv, NEW blocks, Free(blocks), blocks \ {NULL} \subseteq heap
    PROVE  heap' = heap \ blocks /\ UNCHANGED wild /\ IsFiniteSet(heap') /\ NULL \notin heap'
<1>1. wild = FALSE /\ IsFiniteSet(heap) /\ NULL \notin heap
  BY DEF IInv, HeapInv
<1>2. heap' = heap \ blocks
  BY DEF Free
<1>3. wild' = FALSE
  BY <1>1 DEF Free
<1> QED
  BY <1>1, <1>2, <1>3, FreeIsFinite

-----------------------------------------------------------------------------
(* load_image                                                              *)

LEMMA LoadImageKeeps == ASSUME IInv, LoadImage PROVE IInv'
<1>1. PICK f \in Bitmaps : call' = ImageCall(f, NoAnim)
  BY DEF LoadImage
<1>2. /\ call'.pc = "open" /\ call'.img = NULL /\ call'.data = NULL /\ call'.rows = <<>>
      /\ call'.i = 0 /\ call'.file = f /\ call'.anim = NoAnim /\ DOMAIN call' = ImageFields
  BY <1>1 DEF ImageCall, ImageFields
<1>3. Loads /\ UNCHANGED <<heap, fds>>
  BY DEF LoadImage, Keeps, Loads, Aside
<1>4. heap = Blocks(held) /\ fds = {} /\ IsFiniteSet(heap) /\ NULL \notin heap
  BY IdleState DEF LoadImage, At, IInv, HeapInv
<1>5. ImageInHand(call')
  BY <1>2 DEF ImageInHand
<1>6. ImageHands(call') = {}
  <2>1. Rows(<<>>) = {}
    BY EmptyHolds
  <2> QED
    BY <1>2, <2>1 DEF ImageHands
<1>7. AnimHands(call'.anim) = {} /\ AnimInHand(call'.anim)
  BY <1>2, NoAnimHoldsNothing
<1>8. call'.pc \in ImagePcs
  BY <1>2 DEF ImagePcs
<1> QED
  BY <1>2, <1>3, <1>4, <1>5, <1>6, <1>7, <1>8, ImageStep

(* load_image ends without an image: in NULL for the program, in the blue  *)
(* screen for an animation.                                                *)
LEMMA ReturnNullKeeps ==
    ASSUME IInv, Loads, call.pc \in ImagePcs, ImageHands(call) = {}, UNCHANGED heap,
           ReturnNull, fds' = {}
    PROVE  IInv'
<1>1. IsFiniteSet(heap') /\ NULL \notin heap'
  BY DEF IInv, HeapInv
<1>2. CASE call.anim = NoAnim
  <2>1. call' = Idle
    BY <1>2 DEF ReturnNull
  <2>2. AnimHands(call.anim) = {}
    BY <1>2, NoAnimHoldsNothing
  <2>3. heap' = Blocks(held)
    BY <2>2, ImageState
  <2> QED
    BY <1>1, <2>1, <2>3, IdleLoads
<1>3. CASE call.anim # NoAnim
  <2>1. call' = [pc |-> "halted", by |-> blue_screen]
    BY <1>3 DEF ReturnNull
  <2>2. call'.pc = "halted" /\ call'.by = blue_screen
    BY <2>1
  <2> QED
    BY <1>1, <2>2, StopStep
<1> QED
  BY <1>2, <1>3

LEMMA OpenKeeps == ASSUME IInv, Open PROVE IInv'
<1>1. call.pc = "open" /\ call.pc \in ImagePcs
  BY DEF Open, At, ImagePcs
<1>2. Loads /\ UNCHANGED heap
  BY DEF Open, Keeps, Loads, Aside
<1>3. /\ DOMAIN call = ImageFields /\ ImageInHand(call) /\ fds = {}
      /\ call.img = NULL /\ call.data = NULL /\ call.rows = <<>> /\ call.i = 0
  BY <1>1, ImageState DEF ImageInHand
<1>4. ImageHands(call) = {}
  <2>1. Rows(<<>>) = {}
    BY EmptyHolds
  <2> QED
    BY <1>1, <1>3, <2>1 DEF ImageHands
<1>5. CASE fds' = fds \cup {"image"} /\ Goto("header")
  <2>1. /\ DOMAIN call' = ImageFields /\ call'.pc = "header"
        /\ UNCHANGED <<call.file, call.img, call.data, call.rows, call.i, call.anim>>
    BY <1>3, <1>5, ImageGoto
  <2>2. ImageInHand(call') /\ ImageHands(call') = ImageHands(call)
    BY <1>1, <1>3, <2>1 DEF ImageInHand, ImageHands
  <2>3. call'.pc \in ImagePcs /\ fds' = {"image"}
    BY <1>3, <1>5, <2>1 DEF ImagePcs
  <2> QED
    BY <1>1, <1>2, <2>1, <2>2, <2>3, ImageGoes
<1>6. CASE UNCHANGED fds /\ ReturnNull
  BY <1>1, <1>2, <1>3, <1>4, <1>6, ReturnNullKeeps
<1> QED
  BY <1>5, <1>6 DEF Open

LEMMA ReadHeaderKeeps == ASSUME IInv, ReadHeader PROVE IInv'
<1>1. call.pc = "header" /\ call.pc \in ImagePcs
  BY DEF ReadHeader, At, ImagePcs
<1>2. Loads /\ UNCHANGED heap /\ UNCHANGED fds
  BY DEF ReadHeader, Keeps, Loads, Aside
<1>3. /\ DOMAIN call = ImageFields /\ fds = {"image"}
      /\ call.img = NULL /\ call.data = NULL /\ call.rows = <<>> /\ call.i = 0
  BY <1>1, ImageState DEF ImageInHand
<1>4. PICK p \in {"img", "err_img"} : Goto(p)
  BY DEF ReadHeader
<1>5. /\ DOMAIN call' = ImageFields /\ call'.pc = p
      /\ UNCHANGED <<call.file, call.img, call.data, call.rows, call.i, call.anim>>
  BY <1>3, <1>4, ImageGoto
<1>6. ImageInHand(call')
  BY <1>3, <1>4, <1>5 DEF ImageInHand
<1>7. Rows(<<>>) = {}
  BY EmptyHolds
<1>8. ImageHands(call') = ImageHands(call)
  BY <1>1, <1>3, <1>4, <1>5, <1>7 DEF ImageHands
<1>9. call'.pc \in ImagePcs /\ call'.pc # "open"
  BY <1>4, <1>5 DEF ImagePcs
<1> QED
  BY <1>1, <1>2, <1>3, <1>5, <1>6, <1>8, <1>9, ImageGoes

LEMMA MallocImageKeeps == ASSUME IInv, MallocImage PROVE IInv'
<1>1. call.pc = "img" /\ call.pc \in ImagePcs
  BY DEF MallocImage, At, ImagePcs
<1>2. Loads /\ UNCHANGED fds
  BY DEF MallocImage, Allocates, Keeps, Loads, Aside
<1>3. /\ DOMAIN call = ImageFields /\ fds = {"image"}
      /\ call.img = NULL /\ call.data = NULL /\ call.rows = <<>> /\ call.i = 0
  BY <1>1, ImageState DEF ImageInHand
<1>4. Rows(<<>>) = {}
  BY EmptyHolds
<1>5. Fresh # NULL
  BY FreshIsFree DEF IInv, HeapInv
<1>6. CASE heap' = heap \cup {Fresh} /\ call' = [call EXCEPT !.pc = "data", !.img = Fresh]
  <2>1. /\ DOMAIN call' = ImageFields /\ call'.pc = "data" /\ call'.img = Fresh
        /\ UNCHANGED <<call.file, call.data, call.rows, call.i, call.anim>>
    BY <1>3, <1>6 DEF ImageFields
  <2>2. ImageInHand(call')
    BY <1>3, <1>5, <2>1 DEF ImageInHand
  <2>3. ImageHands(call') = ImageHands(call) \cup {Fresh}
    BY <1>1, <1>3, <1>4, <1>5, <2>1 DEF ImageHands
  <2>4. call'.pc \in ImagePcs /\ call'.pc # "open"
    BY <2>1 DEF ImagePcs
  <2> QED
    BY <1>1, <1>2, <1>3, <1>6, <2>1, <2>2, <2>3, <2>4, ImageTakes
<1>7. CASE UNCHANGED heap /\ Goto("err_img")
  <2>1. /\ DOMAIN call' = ImageFields /\ call'.pc = "err_img"
        /\ UNCHANGED <<call.file, call.img, call.data, call.rows, call.i, call.anim>>
    BY <1>3, <1>7, ImageGoto
  <2>2. ImageInHand(call') /\ ImageHands(call') = ImageHands(call)
    BY <1>1, <1>3, <1>4, <2>1 DEF ImageInHand, ImageHands
  <2>3. call'.pc \in ImagePcs /\ call'.pc # "open"
    BY <2>1 DEF ImagePcs
  <2> QED
    BY <1>1, <1>2, <1>3, <1>7, <2>1, <2>2, <2>3, ImageGoes
<1> QED
  BY <1>6, <1>7 DEF MallocImage, Allocates

LEMMA CallocDataKeeps == ASSUME IInv, CallocData PROVE IInv'
<1>1. call.pc = "data" /\ call.pc \in ImagePcs
  BY DEF CallocData, At, ImagePcs
<1>2. Loads /\ UNCHANGED fds
  BY DEF CallocData, Allocates, Keeps, Loads, Aside
<1>3. /\ DOMAIN call = ImageFields /\ fds = {"image"} /\ call.file \in Bitmaps
      /\ call.img # NULL /\ call.data = NULL /\ call.rows = <<>> /\ call.i = 0
  BY <1>1, ImageState DEF ImageInHand
<1>4. Rows(<<>>) = {}
  BY EmptyHolds
<1>5. Fresh # NULL /\ Fresh \notin heap
  BY FreshIsFree DEF IInv, HeapInv
<1> DEFINE none == [i \in 1 .. call.file.height |-> NULL]
<1>6. DOMAIN none = 1 .. call.file.height /\ \A i \in DOMAIN none : none[i] = NULL
  OBVIOUS
<1>7. CASE /\ heap' = heap \cup {Fresh}
           /\ call' = [call EXCEPT !.pc = "rows", !.data = Fresh, !.rows = none]
  <2> HIDE DEF none
  <2>1. /\ DOMAIN call' = ImageFields /\ call'.pc = "rows" /\ call'.data = Fresh
        /\ call'.rows = none
        /\ UNCHANGED <<call.file, call.img, call.anim, call.i>>
    BY <1>3, <1>7 DEF ImageFields
  <2>2. Rows(none) \subseteq {NULL}
    BY <1>6 DEF Rows
  <2>3. ImageHands(call') = ImageHands(call) \cup {Fresh}
    BY <1>1, <1>3, <1>4, <1>5, <2>1, <2>2 DEF ImageHands
  <2>4. call'.pc \in ImagePcs /\ call'.pc # "open"
    BY <2>1 DEF ImagePcs
  <2>5. ImageInHand(call')
    <3>1. call'.i \in 0 .. call'.file.height /\ \A j \in DOMAIN none : j > call'.i
      <4>1. call.file.height \in Nat
        BY <1>3, FilesAssumption
      <4> QED
        BY <1>3, <1>6, <2>1, <4>1
    <3>2. call.img \in heap
      BY <1>1, <1>3, ImageState DEF ImageHands
    <3>3. call.img \notin {Fresh} \cup Rows(none)
      BY <1>3, <1>5, <2>2, <3>2
    <3> QED
      BY <1>3, <1>5, <1>6, <2>1, <3>1, <3>3 DEF ImageInHand
  <2> QED
    BY <1>1, <1>2, <1>3, <1>7, <2>1, <2>3, <2>4, <2>5, ImageTakes
<1>8. CASE UNCHANGED heap /\ Goto("err_buf")
  <2>1. /\ DOMAIN call' = ImageFields /\ call'.pc = "err_buf"
        /\ UNCHANGED <<call.file, call.img, call.data, call.rows, call.i, call.anim>>
    BY <1>3, <1>8, ImageGoto
  <2>2. ImageInHand(call')
    BY <1>3, <2>1 DEF ImageInHand
  <2>3. ImageHands(call') = ImageHands(call)
    BY <1>1, <1>3, <1>4, <2>1 DEF ImageHands
  <2>4. call'.pc \in ImagePcs /\ call'.pc # "open"
    BY <2>1 DEF ImagePcs
  <2> QED
    BY <1>1, <1>2, <1>3, <1>8, <2>1, <2>2, <2>3, <2>4, ImageGoes
<1> QED
  BY <1>7, <1>8 DEF CallocData, Allocates, DataLabel

(* A failure while there are rows: all of them and the array are to be     *)
(* freed, then the struct, that is none of them.                           *)
LEMMA FailsToErr ==
    ASSUME IInv, Loads, UNCHANGED <<heap, fds>>, call.pc \in {"rows", "read", "skip"},
           call.img \notin {call.data} \cup Rows(call.rows), Goto("err")
    PROVE  IInv'
<1>1. call.pc \in ImagePcs
  BY DEF ImagePcs
<1>2. DOMAIN call = ImageFields /\ fds = {"image"} /\ call.img # NULL
  BY <1>1, ImageState DEF ImageInHand
<1>3. /\ DOMAIN call' = ImageFields /\ call'.pc = "err"
      /\ UNCHANGED <<call.file, call.img, call.data, call.rows, call.i, call.anim>>
  BY <1>2, ImageGoto
<1>4. ImageInHand(call')
  BY <1>2, <1>3 DEF ImageInHand
<1>5. ImageHands(call') = ImageHands(call)
  BY <1>3 DEF ImageHands
<1>6. call'.pc \in ImagePcs /\ call'.pc # "open"
  BY <1>3 DEF ImagePcs
<1> QED
  BY <1>1, <1>2, <1>3, <1>4, <1>5, <1>6, ImageGoes

LEMMA CallocRowKeeps == ASSUME IInv, CallocRow PROVE IInv'
<1>1. call.pc = "rows" /\ call.pc \in ImagePcs
  BY DEF CallocRow, At, ImagePcs
<1>2. Loads /\ UNCHANGED fds
  BY DEF CallocRow, Allocates, Keeps, Loads, Aside
<1>3. /\ DOMAIN call = ImageFields /\ fds = {"image"} /\ call.file \in Bitmaps
      /\ ImageInHand(call)
  BY <1>1, ImageState
<1>4. /\ call.img # NULL /\ call.data # NULL /\ call.img \notin {call.data} \cup Rows(call.rows)
      /\ DOMAIN call.rows = 1 .. call.file.height
      /\ call.i \in 0 .. call.file.height
      /\ \A j \in DOMAIN call.rows : call.rows[j] = NULL <=> j > call.i
  BY <1>1, <1>3 DEF ImageInHand
<1>5. Fresh # NULL /\ Fresh \notin heap
  BY FreshIsFree DEF IInv, HeapInv
<1>6. CASE /\ heap' = heap \cup {Fresh}
           /\ call' = [call EXCEPT !.rows[call.i + 1] = Fresh, !.i = @ + 1]
  <2> DEFINE k == call.i + 1
             rows == [call.rows EXCEPT ![k] = Fresh]
  <2>1. /\ DOMAIN call' = ImageFields /\ call'.i = k /\ call'.rows = rows
        /\ UNCHANGED <<call.pc, call.file, call.img, call.data, call.anim>>
    BY <1>3, <1>6 DEF ImageFields
  <2>2. call.file.height \in Nat /\ call.i < call.file.height
    BY <1>3, FilesAssumption DEF CallocRow
  <2>3. k \in DOMAIN call.rows /\ call.rows[k] = NULL
    BY <1>4, <2>2
  <2>4. /\ DOMAIN rows = DOMAIN call.rows /\ rows[k] = Fresh
        /\ \A j \in DOMAIN call.rows : j # k => rows[j] = call.rows[j]
    BY <2>3
  <2> HIDE DEF rows
  <2>5. Rows(rows) \ {NULL} = (Rows(call.rows) \ {NULL}) \cup {Fresh}
    BY <1>5, <2>3, <2>4 DEF Rows
  <2>6. ImageHands(call') = ImageHands(call) \cup {Fresh}
    BY <1>1, <1>5, <2>1, <2>5 DEF ImageHands
  <2>7. call'.pc \in ImagePcs /\ call'.pc # "open"
    BY <1>1, <2>1 DEF ImagePcs
  <2>8. ImageInHand(call')
    <3>1. k \in 0 .. call.file.height
      BY <1>4, <2>2
    <3>2. \A j \in DOMAIN rows : rows[j] = NULL <=> j > k
      BY <1>4, <1>5, <2>2, <2>4
    <3>3. call.img \in heap
      BY <1>1, <1>4, ImageState DEF ImageHands
    <3>4. call.img \notin {call.data} \cup Rows(rows)
      BY <1>4, <1>5, <2>5, <3>3
    <3> QED
      BY <1>1, <1>4, <2>1, <2>4, <3>1, <3>2, <3>4 DEF ImageInHand
  <2> QED
    BY <1>1, <1>2, <1>3, <1>6, <2>1, <2>6, <2>7, <2>8, ImageTakes
<1>7. CASE UNCHANGED heap /\ Goto("err")
  BY <1>1, <1>2, <1>4, <1>7, FailsToErr
<1> QED
  BY <1>6, <1>7 DEF CallocRow, Allocates

LEMMA SeekDataKeeps == ASSUME IInv, SeekData PROVE IInv'
<1>1. call.pc = "rows" /\ call.pc \in ImagePcs
  BY DEF SeekData, At, ImagePcs
<1>2. Loads /\ UNCHANGED <<heap, fds>>
  BY DEF SeekData, Keeps, Loads, Aside
<1>3. /\ DOMAIN call = ImageFields /\ fds = {"image"} /\ call.file \in Bitmaps
      /\ ImageInHand(call)
  BY <1>1, ImageState
<1>4. /\ call.img # NULL /\ call.data # NULL /\ call.img \notin {call.data} \cup Rows(call.rows)
      /\ DOMAIN call.rows = 1 .. call.file.height
      /\ \A j \in DOMAIN call.rows : call.rows[j] = NULL <=> j > call.i
  BY <1>1, <1>3 DEF ImageInHand
<1>5. CASE Goto("fault")
  <2>1. call'.pc = "fault"
    BY <1>3, <1>5, ImageGoto
  <2> QED
    BY <1>2, <2>1, StopStep DEF IInv, HeapInv
<1>6. CASE call' = [call EXCEPT !.pc = "read", !.i = 0, !.pos = call.file.offset]
  <2>1. /\ DOMAIN call' = ImageFields /\ call'.pc = "read"
        /\ UNCHANGED <<call.file, call.img, call.data, call.rows, call.anim>>
    BY <1>3, <1>6 DEF ImageFields
  <2>2. NULL \notin Rows(call.rows)
    <3>1. call.file.height \in Nat /\ call.i = call.file.height
      BY <1>3, FilesAssumption DEF SeekData
    <3> QED
      BY <1>4, <3>1 DEF Rows
  <2>3. ImageInHand(call')
    BY <1>4, <2>1, <2>2 DEF ImageInHand
  <2>4. ImageHands(call') = ImageHands(call)
    BY <1>1, <2>1 DEF ImageHands
  <2>5. call'.pc \in ImagePcs /\ call'.pc # "open"
    BY <2>1 DEF ImagePcs
  <2> QED
    BY <1>1, <1>2, <1>3, <2>1, <2>3, <2>4, <2>5, ImageGoes
<1>7. CASE Goto("err")
  BY <1>1, <1>2, <1>4, <1>7, FailsToErr
<1> QED
  BY <1>5, <1>6, <1>7 DEF SeekData

(* A row is read into, or what follows it skipped: the blocks stay.        *)
LEMMA ReadsOn ==
    ASSUME IInv, Loads, UNCHANGED <<heap, fds>>,
           call.pc \in {"read", "skip"}, call'.pc \in {"read", "skip"},
           DOMAIN call' = ImageFields,
           UNCHANGED <<call.file, call.img, call.data, call.rows, call.anim>>
    PROVE  IInv'
<1>1. call.pc \in ImagePcs /\ call'.pc \in ImagePcs /\ call'.pc # "open"
  BY DEF ImagePcs
<1>2. ImageInHand(call) /\ fds = {"image"} /\ call.file \in Bitmaps
  BY <1>1, ImageState
<1>3. ImageInHand(call')
  BY <1>2 DEF ImageInHand
<1>4. ImageHands(call') = ImageHands(call)
  BY DEF ImageHands
<1> QED
  BY <1>1, <1>2, <1>3, <1>4, ImageGoes

LEMMA ReadRowKeeps == ASSUME IInv, ReadRow PROVE IInv'
<1>1. call.pc = "read" /\ call.pc \in ImagePcs
  BY DEF ReadRow, At, ImagePcs
<1>2. Loads /\ UNCHANGED <<heap, fds>>
  BY DEF ReadRow, Keeps, Loads, Aside
<1>3. DOMAIN call = ImageFields /\ call.img \notin {call.data} \cup Rows(call.rows)
  BY <1>1, ImageState DEF ImageInHand
<1>4. CASE call' = [call EXCEPT !.pc = "skip", !.from = Append(@, call.pos),
                                !.pos = @ + call.file.width]
  <2>1. /\ DOMAIN call' = ImageFields /\ call'.pc = "skip"
        /\ UNCHANGED <<call.file, call.img, call.data, call.rows, call.anim>>
    BY <1>3, <1>4 DEF ImageFields
  <2> QED
    BY <1>1, <1>2, <2>1, ReadsOn
<1>5. CASE Goto("err")
  BY <1>1, <1>2, <1>3, <1>5, FailsToErr
<1> QED
  BY <1>4, <1>5 DEF ReadRow

LEMMA SkipPaddingKeeps == ASSUME IInv, SkipPadding PROVE IInv'
<1>1. call.pc = "skip" /\ call.pc \in ImagePcs
  BY DEF SkipPadding, At, ImagePcs
<1>2. Loads /\ UNCHANGED <<heap, fds>>
  BY DEF SkipPadding, Keeps, Loads, Aside
<1>3. DOMAIN call = ImageFields /\ call.img \notin {call.data} \cup Rows(call.rows)
  BY <1>1, ImageState DEF ImageInHand
<1> DEFINE pos == call.pos + Padding(call.file)
<1>4. CASE call' = [call EXCEPT !.pc = "read", !.pos = pos, !.i = @ + 1]
  <2> HIDE DEF pos
  <2>1. /\ DOMAIN call' = ImageFields /\ call'.pc = "read"
        /\ UNCHANGED <<call.file, call.img, call.data, call.rows, call.anim>>
    BY <1>3, <1>4 DEF ImageFields
  <2> QED
    BY <1>1, <1>2, <2>1, ReadsOn
<1>5. CASE Goto("err")
  BY <1>1, <1>2, <1>3, <1>5, FailsToErr
<1> QED
  BY <1>4, <1>5 DEF SkipPadding

(* The program holds one thing more, whose blocks nothing else has.        *)
LEMMA HoldsMore ==
    ASSUME IInv, NEW e, e.blocks \cap Blocks(held) = {}, held' = Append(held, e)
    PROVE  IsSequence(held') /\ Apart' /\ Blocks(held') = Blocks(held) \cup e.blocks
<1>1. IsSequence(held) /\ Apart
  BY DEF IInv
<1>2. IsSequence(held') /\ Blocks(held') = Blocks(held) \cup e.blocks
  BY <1>1, AppendOne, AppendBlocks
<1>3. Apart'
  <2>1. /\ DOMAIN held' = DOMAIN held \cup {Len(held) + 1}
        /\ \A k \in DOMAIN held : held'[k] = held[k]
        /\ held'[Len(held) + 1] = e
    BY <1>1, AppendOne
  <2>2. \A k \in DOMAIN held : held[k].blocks \cap e.blocks = {}
    BY DEF Blocks
  <2> QED
    BY <1>1, <2>1, <2>2 DEF Apart
<1> QED
  BY <1>2, <1>3

LEMMA ImageLoadedKeeps == ASSUME IInv, ImageLoaded PROVE IInv'
<1>1. call.pc = "read" /\ call.pc \in ImagePcs
  BY DEF ImageLoaded, At, ImagePcs
<1>2. Aside /\ UNCHANGED heap /\ fds' = {}
  <2>1. fds = {"image"}
    BY <1>1, ImageState
  <2> QED
    BY <2>1 DEF ImageLoaded, Keeps, Aside
<1>3. /\ call.img # NULL /\ call.data # NULL /\ NULL \notin Rows(call.rows)
      /\ AnimInHand(call.anim) /\ (call.anim = NoAnim \/ call.anim.copy # NULL)
      /\ IsFiniteSet(heap) /\ NULL \notin heap
  BY <1>1, ImageState DEF ImageInHand, IInv, HeapInv
<1> DEFINE image == [kind |-> "image", file |-> call.file, from |-> call.from,
                     blocks |-> {call.img, call.data} \cup Rows(call.rows)]
<1>4. image.blocks = ImageHands(call)
  BY <1>1, <1>3 DEF ImageHands
<1>5. ReturnImage(image)
  BY DEF ImageLoaded
<1> HIDE DEF image
<1>6. CASE call.anim = NoAnim
  <2>1. held' = Append(held, image) /\ call' = Idle
    BY <1>5, <1>6 DEF ReturnImage
  <2>2. IsSequence(held') /\ Apart' /\ Blocks(held') = Blocks(held) \cup image.blocks
    BY <1>1, <1>4, <2>1, ImageState, HoldsMore
  <2>3. heap' = Blocks(held')
    BY <1>1, <1>2, <1>4, <1>6, <2>2, ImageState, NoAnimHoldsNothing
  <2> QED
    BY <1>2, <1>3, <2>1, <2>2, <2>3, IdleStep
<1>7. CASE call.anim # NoAnim
  <2> DEFINE anim == [call.anim EXCEPT !.imgs = Append(@, image)]
  <2>1. UNCHANGED held /\ call' = [pc |-> "anim", anim |-> anim]
    BY <1>5, <1>7 DEF ReturnImage
  <2>2. /\ DOMAIN anim = AnimFields /\ anim.blocks = call.anim.blocks
        /\ anim.copy = call.anim.copy /\ anim.imgs = Append(call.anim.imgs, image)
        /\ anim.todo = call.anim.todo
    BY <1>3 DEF AnimInHand, AnimFields
  <2> HIDE DEF anim
  <2>3. /\ IsSequence(anim.imgs)
        /\ Blocks(anim.imgs) = Blocks(call.anim.imgs) \cup ImageHands(call)
    BY <1>3, <1>4, <2>2, AppendOne, AppendBlocks, SMTT(30) DEF AnimInHand
  <2>4. AnimHands(anim) = AnimHands(call.anim) \cup ImageHands(call)
    BY <1>1, <2>2, <2>3 DEF AnimHands, ImageHands
  <2>5. call.anim.copy \in AnimHands(call.anim)
    BY <1>3, <1>7 DEF AnimHands
  <2>6. AnimInHand(anim)
    <3>1. NULL \notin ImageHands(call) /\ call.anim.copy \notin ImageHands(call)
      BY <1>1, <2>5, ImageState DEF ImageHands
    <3> QED
      BY <1>3, <2>2, <2>3, <3>1 DEF AnimInHand
  <2>7. /\ call'.pc = "anim" /\ call'.anim = anim /\ DOMAIN call' = {"pc", "anim"}
        /\ call'.pc \in AnimPcs
    BY <2>1 DEF AnimPcs
  <2>8. /\ heap' = Blocks(held) \cup AnimHands(anim)
        /\ Blocks(held) \cap AnimHands(anim) = {}
    BY <1>1, <1>2, <2>4, ImageState
  <2>9. Loads
    BY <1>2, <2>1 DEF Loads
  <2> QED
    BY <1>2, <1>3, <1>7, <2>2, <2>6, <2>7, <2>8, <2>9, AnimStep
<1> QED
  BY <1>6, <1>7

LEMMA ErrKeeps == ASSUME IInv, Err PROVE IInv'
<1> DEFINE blocks == Rows(call.rows) \cup {call.data}
<1>1. call.pc = "err" /\ call.pc \in ImagePcs
  BY DEF Err, At, ImagePcs
<1>2. /\ DOMAIN call = ImageFields /\ fds = {"image"} /\ call.file \in Bitmaps
      /\ call.img # NULL /\ call.img \notin {call.data} \cup Rows(call.rows)
  BY <1>1, ImageState DEF ImageInHand
<1>3. blocks \ {NULL} \subseteq ImageHands(call) /\ blocks \ {NULL} \subseteq heap
  BY <1>1, ImageState DEF ImageHands
<1>4. heap' = heap \ blocks /\ UNCHANGED <<held, fds, wild, video, blue_screen>>
  BY <1>3, FreeInHand DEF Err, Keeps
<1>5. /\ DOMAIN call' = ImageFields /\ call'.pc = "err_buf"
      /\ UNCHANGED <<call.file, call.img, call.data, call.rows, call.anim>>
  BY <1>2, ImageGoto DEF Err
<1>6. ImageInHand(call')
  BY <1>2, <1>5 DEF ImageInHand
<1>7. ImageHands(call') = ImageHands(call) \ blocks
  BY <1>1, <1>2, <1>5 DEF ImageHands
<1>8. call'.pc \in ImagePcs /\ call'.pc # "open"
  BY <1>5 DEF ImagePcs
<1>9. Loads
  BY <1>4 DEF Loads, Aside
<1> QED
  BY <1>1, <1>2, <1>3, <1>4, <1>5, <1>6, <1>7, <1>8, <1>9, ImageGives

LEMMA ErrBufKeeps == ASSUME IInv, ErrBuf PROVE IInv'
<1>1. call.pc = "err_buf" /\ call.pc \in ImagePcs
  BY DEF ErrBuf, At, ImagePcs
<1>2. /\ DOMAIN call = ImageFields /\ fds = {"image"} /\ call.file \in Bitmaps
      /\ call.img # NULL
  BY <1>1, ImageState DEF ImageInHand
<1>3. {call.img} \ {NULL} \subseteq ImageHands(call) /\ {call.img} \ {NULL} \subseteq heap
  BY <1>1, ImageState DEF ImageHands
<1>4. heap' = heap \ {call.img} /\ UNCHANGED <<held, fds, wild, video, blue_screen>>
  BY <1>3, FreeInHand DEF ErrBuf, Keeps
<1>5. /\ DOMAIN call' = ImageFields /\ call'.pc = "err_img"
      /\ UNCHANGED <<call.file, call.img, call.data, call.rows, call.anim>>
  BY <1>2, ImageGoto DEF ErrBuf
<1>6. ImageInHand(call')
  BY <1>2, <1>5 DEF ImageInHand
<1>7. ImageHands(call') = ImageHands(call) \ {call.img}
  BY <1>1, <1>2, <1>5 DEF ImageHands
<1>8. call'.pc \in ImagePcs /\ call'.pc # "open"
  BY <1>5 DEF ImagePcs
<1>9. Loads
  BY <1>4 DEF Loads, Aside
<1> QED
  BY <1>1, <1>2, <1>3, <1>4, <1>5, <1>6, <1>7, <1>8, <1>9, ImageGives

LEMMA ErrImgKeeps == ASSUME IInv, ErrImg PROVE IInv'
<1>1. call.pc = "err_img" /\ call.pc \in ImagePcs
  BY DEF ErrImg, At, ImagePcs
<1>2. Loads /\ UNCHANGED heap /\ fds' = fds \ {"image"} /\ ReturnNull
  BY DEF ErrImg, Keeps, Loads, Aside
<1>3. ImageHands(call) = {}
  BY <1>1 DEF ImageHands
<1>4. fds' = {}
  BY <1>1, <1>2, ImageState
<1> QED
  BY <1>1, <1>2, <1>3, <1>4, ReturnNullKeeps

-----------------------------------------------------------------------------
(* load_anim                                                               *)

LEMMA LoadAnimKeeps == ASSUME IInv, LoadAnim PROVE IInv'
<1>1. PICK todo \in Seq(Bitmaps) :
         call' = [pc |-> "anim malloc", anim |-> [NoAnim EXCEPT !.todo = todo]]
  <2>1. PICK f \in Bitmaps, g \in Bitmaps :
           call' = [pc |-> "anim malloc", anim |-> [NoAnim EXCEPT !.todo = <<f, g>>]]
    BY DEF LoadAnim
  <2>2. <<f, g>> \in Seq(Bitmaps)
    OBVIOUS
  <2> QED
    BY <2>1, <2>2
<1> DEFINE anim == [NoAnim EXCEPT !.todo = todo]
<1>2. /\ DOMAIN anim = AnimFields /\ anim.blocks = {} /\ anim.copy = NULL
      /\ anim.imgs = <<>> /\ anim.todo \in Seq(Bitmaps)
  BY DEF NoAnim, AnimFields
<1> HIDE DEF anim
<1>3. /\ call'.pc = "anim malloc" /\ call'.anim = anim /\ DOMAIN call' = {"pc", "anim"}
      /\ call'.pc \in AnimPcs
  BY <1>1 DEF AnimPcs, anim
<1>4. Loads /\ UNCHANGED <<heap, fds>>
  BY DEF LoadAnim, Keeps, Loads, Aside
<1>5. heap = Blocks(held) /\ fds = {} /\ IsFiniteSet(heap) /\ NULL \notin heap
  BY IdleState DEF LoadAnim, At, IInv, HeapInv
<1>6. AnimHands(anim) = {} /\ IsSequence(anim.imgs) /\ Blocks(anim.imgs) = {}
  BY <1>2, NothingYet
<1>7. AnimInHand(anim)
  BY <1>2, <1>6 DEF AnimInHand
<1> QED
  BY <1>2, <1>3, <1>4, <1>5, <1>6, <1>7, AnimStep

(* An animation takes a new block for itself, or for the copy.             *)
LEMMA AnimTakes ==
    ASSUME IInv, Loads, UNCHANGED fds, heap' = heap \cup {Fresh},
           call.pc \in {"anim malloc", "anim calloc", "strdup"},
           call'.pc \in AnimPcs \ {"anim malloc"}, DOMAIN call' = {"pc", "anim"},
           DOMAIN call'.anim = AnimFields, UNCHANGED <<call.anim.imgs, call.anim.todo>>,
           \/ /\ call'.pc # "anim" /\ UNCHANGED call.anim.copy
              /\ call'.anim.blocks = call.anim.blocks \cup {Fresh}
           \/ /\ call'.pc = "anim" /\ UNCHANGED call.anim.blocks
              /\ call'.anim.copy = Fresh
    PROVE  IInv'
<1>1. call.pc \in AnimPcs /\ call.pc # "anim"
  BY DEF AnimPcs
<1>2. /\ call.anim.copy = NULL /\ call.anim.imgs = <<>> /\ AnimInHand(call.anim)
      /\ heap = Blocks(held) \cup AnimHands(call.anim)
      /\ Blocks(held) \cap AnimHands(call.anim) = {} /\ fds = {}
  BY <1>1, AnimState
<1>3. /\ IsFiniteSet(heap) /\ NULL \notin heap
      /\ Fresh \notin heap /\ Fresh # NULL /\ IsFiniteSet(heap')
  BY FreshIsFree DEF IInv, HeapInv
<1>4. Blocks(<<>>) = {}
  BY EmptyHolds
<1>5. AnimHands(call.anim) = call.anim.blocks
  BY <1>2, <1>4 DEF AnimHands, AnimInHand
<1>6. AnimHands(call'.anim) = call.anim.blocks \cup {Fresh}
  BY <1>2, <1>3, <1>4 DEF AnimHands, AnimInHand
<1>7. AnimInHand(call'.anim)
  BY <1>2, <1>3, <1>4, <1>5 DEF AnimInHand
<1> QED
  BY <1>2, <1>3, <1>5, <1>6, <1>7, AnimStep, ZenonT(60)

(* It fails before it has the copy: its blocks, if any, are given back.    *)
LEMMA AnimFails ==
    ASSUME IInv, UNCHANGED <<held, fds, video, blue_screen>>, call' = Idle,
           call.pc \in {"anim malloc", "anim calloc", "strdup"}, Free(call.anim.blocks)
    PROVE  IInv'
<1>1. call.pc \in AnimPcs /\ call.pc # "anim"
  BY DEF AnimPcs
<1>2. /\ call.anim.copy = NULL /\ call.anim.imgs = <<>> /\ AnimInHand(call.anim)
      /\ heap = Blocks(held) \cup AnimHands(call.anim)
      /\ Blocks(held) \cap AnimHands(call.anim) = {} /\ fds = {}
  BY <1>1, AnimState
<1>3. Blocks(<<>>) = {}
  BY EmptyHolds
<1>4. AnimHands(call.anim) = call.anim.blocks
  BY <1>2, <1>3 DEF AnimHands, AnimInHand
<1>5. /\ heap' = heap \ call.anim.blocks /\ UNCHANGED wild
      /\ IsFiniteSet(heap') /\ NULL \notin heap'
  BY <1>2, <1>4, FreeInHand
<1>6. heap' = Blocks(held)
  BY <1>2, <1>4, <1>5
<1>7. Loads
  BY <1>5 DEF Loads, Aside
<1> QED
  BY <1>2, <1>5, <1>6, <1>7, IdleLoads

LEMMA AnimMallocKeeps == ASSUME IInv, AnimMalloc PROVE IInv'
<1>1. call.pc = "anim malloc" /\ call.pc \in AnimPcs
  BY DEF AnimMalloc, At, AnimPcs
<1>2. Loads /\ UNCHANGED fds
  BY DEF AnimMalloc, Keeps, Loads, Aside
<1>3. /\ DOMAIN call = {"pc", "anim"} /\ AnimInHand(call.anim) /\ call.anim.blocks = {}
      /\ call.anim.copy = NULL /\ call.anim.imgs = <<>> /\ fds = {} /\ NULL \notin heap
      /\ heap = Blocks(held) \cup AnimHands(call.anim) /\ IsFiniteSet(heap)
  BY <1>1, AnimState DEF IInv, HeapInv
<1>4. CASE /\ heap' = heap \cup {Fresh}
           /\ call' = [call EXCEPT !.pc = "anim calloc", !.anim.blocks = {Fresh}]
  <2>1. /\ DOMAIN call' = {"pc", "anim"} /\ call'.pc = "anim calloc"
        /\ call'.anim = [call.anim EXCEPT !.blocks = {Fresh}]
    BY <1>3, <1>4
  <2>2. /\ DOMAIN call'.anim = AnimFields /\ UNCHANGED <<call.anim.imgs, call.anim.todo>>
        /\ UNCHANGED call.anim.copy /\ call'.anim.blocks = call.anim.blocks \cup {Fresh}
    BY <1>3, <2>1 DEF AnimInHand, AnimFields
  <2>3. call'.pc \in AnimPcs \ {"anim malloc"} /\ call'.pc # "anim"
    BY <2>1 DEF AnimPcs
  <2> QED
    BY <1>1, <1>2, <1>4, <2>1, <2>2, <2>3, AnimTakes
<1>5. CASE UNCHANGED heap /\ call' = Idle
  <2>1. AnimHands(call.anim) = {}
    BY <1>3, NothingYet
  <2> QED
    BY <1>2, <1>3, <1>5, <2>1, IdleLoads
<1> QED
  BY <1>4, <1>5 DEF AnimMalloc

LEMMA AnimCallocKeeps == ASSUME IInv, AnimCalloc PROVE IInv'
<1>1. call.pc = "anim calloc" /\ call.pc \in AnimPcs
  BY DEF AnimCalloc, At, AnimPcs
<1>2. UNCHANGED <<held, fds, video, blue_screen>>
  BY DEF AnimCalloc, Keeps
<1>3. DOMAIN call = {"pc", "anim"} /\ AnimInHand(call.anim)
  BY <1>1, AnimState
<1>4. CASE /\ heap' = heap \cup {Fresh} /\ UNCHANGED wild
           /\ call' = [call EXCEPT !.pc = "strdup", !.anim.blocks = @ \cup {Fresh}]
  <2>1. /\ DOMAIN call' = {"pc", "anim"} /\ call'.pc = "strdup"
        /\ call'.anim = [call.anim EXCEPT !.blocks = @ \cup {Fresh}]
    BY <1>3, <1>4
  <2>2. /\ DOMAIN call'.anim = AnimFields /\ UNCHANGED <<call.anim.imgs, call.anim.todo>>
        /\ UNCHANGED call.anim.copy /\ call'.anim.blocks = call.anim.blocks \cup {Fresh}
    BY <1>3, <2>1 DEF AnimInHand, AnimFields
  <2>3. call'.pc \in AnimPcs \ {"anim malloc"} /\ call'.pc # "anim"
    BY <2>1 DEF AnimPcs
  <2>4. Loads
    BY <1>2, <1>4 DEF Loads, Aside
  <2> QED
    BY <1>1, <1>2, <1>4, <2>1, <2>2, <2>3, <2>4, AnimTakes
<1>5. CASE Free(call.anim.blocks) /\ call' = Idle
  BY <1>1, <1>2, <1>5, AnimFails
<1> QED
  BY <1>4, <1>5 DEF AnimCalloc

LEMMA strdupKeeps == ASSUME IInv, strdup PROVE IInv'
<1>1. call.pc = "strdup" /\ call.pc \in AnimPcs
  BY DEF strdup, At, AnimPcs
<1>2. UNCHANGED <<held, fds, video, blue_screen>>
  BY DEF strdup, Keeps
<1>3. DOMAIN call = {"pc", "anim"} /\ AnimInHand(call.anim)
  BY <1>1, AnimState
<1>4. CASE /\ heap' = heap \cup {Fresh} /\ UNCHANGED wild
           /\ call' = [call EXCEPT !.pc = "anim", !.anim.copy = Fresh]
  <2>1. /\ DOMAIN call' = {"pc", "anim"} /\ call'.pc = "anim"
        /\ call'.anim = [call.anim EXCEPT !.copy = Fresh]
    BY <1>3, <1>4
  <2>2. /\ DOMAIN call'.anim = AnimFields /\ UNCHANGED <<call.anim.imgs, call.anim.todo>>
        /\ UNCHANGED call.anim.blocks /\ call'.anim.copy = Fresh
    BY <1>3, <2>1 DEF AnimInHand, AnimFields
  <2>3. call'.pc \in AnimPcs \ {"anim malloc"}
    BY <2>1 DEF AnimPcs
  <2>4. Loads
    BY <1>2, <1>4 DEF Loads, Aside
  <2> QED
    BY <1>1, <1>2, <1>4, <2>1, <2>2, <2>3, <2>4, AnimTakes
<1>5. CASE Free(call.anim.blocks) /\ call' = Idle
  BY <1>1, <1>2, <1>5, AnimFails
<1> QED
  BY <1>4, <1>5 DEF strdup

LEMMA NextImageKeeps == ASSUME IInv, NextImage PROVE IInv'
<1>1. call.pc = "anim" /\ call.pc \in AnimPcs
  BY DEF NextImage, At, AnimPcs
<1>2. Loads /\ UNCHANGED <<heap, fds>>
  BY DEF NextImage, Keeps, Loads, Aside
<1>3. /\ AnimInHand(call.anim) /\ call.anim.copy # NULL /\ fds = {}
      /\ heap = Blocks(held) \cup AnimHands(call.anim)
      /\ Blocks(held) \cap AnimHands(call.anim) = {}
      /\ IsFiniteSet(heap) /\ NULL \notin heap
  BY <1>1, AnimState DEF IInv, HeapInv
<1> DEFINE anim == [call.anim EXCEPT !.todo = Tail(@)]
           f == Head(call.anim.todo)
<1>4. f \in Bitmaps /\ Tail(call.anim.todo) \in Seq(Bitmaps)
  BY <1>3 DEF NextImage, AnimInHand
<1>5. /\ DOMAIN anim = AnimFields /\ anim.todo = Tail(call.anim.todo)
      /\ anim.blocks = call.anim.blocks
      /\ anim.copy = call.anim.copy /\ anim.imgs = call.anim.imgs
  BY <1>3 DEF AnimInHand, AnimFields
<1>6. call' = ImageCall(f, anim)
  BY DEF NextImage
<1> HIDE DEF anim, f
<1>7. /\ call'.pc = "open" /\ call'.img = NULL /\ call'.data = NULL /\ call'.rows = <<>>
      /\ call'.i = 0 /\ call'.file = f /\ call'.anim = anim /\ DOMAIN call' = ImageFields
  BY <1>6 DEF ImageCall, ImageFields
<1>8. ImageInHand(call')
  BY <1>7 DEF ImageInHand
<1>9. ImageHands(call') = {}
  BY <1>7, EmptyHolds DEF ImageHands
<1>10. AnimHands(anim) = AnimHands(call.anim) /\ AnimInHand(anim)
  BY <1>3, <1>4, <1>5 DEF AnimHands, AnimInHand
<1>11. call'.pc \in ImagePcs
  BY <1>7 DEF ImagePcs
<1> QED
  BY <1>2, <1>3, <1>4, <1>5, <1>7, <1>8, <1>9, <1>10, <1>11, ImageStep

LEMMA AnimLoadedKeeps == ASSUME IInv, AnimLoaded PROVE IInv'
<1>1. call.pc = "anim" /\ call.pc \in AnimPcs
  BY DEF AnimLoaded, At, AnimPcs
<1>2. /\ AnimInHand(call.anim) /\ call.anim.copy # NULL /\ fds = {}
      /\ heap = Blocks(held) \cup AnimHands(call.anim)
      /\ Blocks(held) \cap AnimHands(call.anim) = {}
  BY <1>1, AnimState
<1> DEFINE a == call.anim
           blocks == a.blocks \cup UNION {img.blocks : img \in Rows(a.imgs)}
           thing == [kind |-> "anim", current |-> 1, jiffies |-> 0, imgs |-> a.imgs,
                     blocks |-> blocks]
<1>3. a.copy \in AnimHands(a) /\ a.copy \in heap
  BY <1>2 DEF AnimHands
<1>4. /\ heap' = heap \ {a.copy} /\ UNCHANGED wild
      /\ IsFiniteSet(heap') /\ NULL \notin heap'
  BY <1>3, FreeInHand DEF AnimLoaded
<1>5. blocks = a.blocks \cup Blocks(a.imgs)
  BY DEF Rows, Blocks
<1>6. thing.blocks = a.blocks \cup Blocks(a.imgs)
  BY <1>5
<1>7. held' = Append(held, thing) /\ call' = Idle /\ UNCHANGED <<fds, video, blue_screen>>
  BY DEF AnimLoaded, Keeps
<1> HIDE DEF thing
<1>8. AnimHands(a) = thing.blocks \cup {a.copy} /\ a.copy \notin thing.blocks
  BY <1>2, <1>6 DEF AnimHands, AnimInHand
<1>9. IsSequence(held') /\ Apart' /\ Blocks(held') = Blocks(held) \cup thing.blocks
  BY <1>2, <1>7, <1>8, HoldsMore
<1>10. heap' = Blocks(held')
  BY <1>2, <1>4, <1>8, <1>9
<1>11. Aside
  BY <1>4, <1>7 DEF Aside
<1> QED
  BY <1>2, <1>4, <1>7, <1>9, <1>10, <1>11, IdleStep

(* Showing another image of an animation changes no block.                 *)
LEMMA DrawAnimKeeps == ASSUME IInv, DrawAnim PROVE IInv'
<1>1. call = Idle /\ heap = Blocks(held) /\ fds = {}
  BY IdleState DEF DrawAnim, At
<1>2. Aside /\ UNCHANGED <<heap, fds, call>>
  BY DEF DrawAnim, Keeps, Aside
<1>3. PICK k \in DOMAIN held, jiffies \in 0 .. MaxTick :
         held[k].kind = "anim" /\ held' = [held EXCEPT ![k] = Shows(held[k], jiffies)]
  BY DEF DrawAnim
<1> DEFINE e == Shows(held[k], jiffies)
<1>4. IsSequence(held) /\ Apart
  BY DEF IInv
<1>5. e.blocks = held[k].blocks
  BY DEF Shows
<1>6. held' = [held EXCEPT ![k] = e]
  BY <1>3
<1> HIDE DEF e
<1>7. /\ DOMAIN held' = DOMAIN held
      /\ \A j \in DOMAIN held : held'[j] = IF j = k THEN e ELSE held[j]
  BY <1>6
<1>8. IsSequence(held')
  <2>1. held \in Seq(Rows(held)) /\ Len(held) \in Nat /\ DOMAIN held = 1 .. Len(held)
    BY <1>4 DEF IsSequence
  <2>2. held' = [j \in 1 .. Len(held) |-> IF j = k THEN e ELSE held[j]]
    BY <1>6, <2>1
  <2>3. \A j \in 1 .. Len(held) : held'[j] \in Rows(held')
    BY <1>7, <2>1 DEF Rows
  <2>4. held' \in [1 .. Len(held) -> Rows(held')]
    BY <2>2, <2>3
  <2> QED
    BY <2>1, <2>4 DEF IsSequence
<1>9. Apart' /\ Blocks(held') = Blocks(held)
  BY <1>4, <1>5, <1>7 DEF Apart, Blocks
<1>10. IsFiniteSet(heap') /\ NULL \notin heap'
  BY <1>2 DEF IInv, HeapInv
<1> QED
  BY <1>1, <1>2, <1>8, <1>9, <1>10, IdleStep

-----------------------------------------------------------------------------
(* load_sound                                                              *)

LEMMA SoundGoto ==
    ASSUME DOMAIN call = {"pc", "tune", "melody", "tones"}, NEW p, Goto(p)
    PROVE  /\ DOMAIN call' = {"pc", "tune", "melody", "tones"} /\ call'.pc = p
           /\ UNCHANGED <<call.tune, call.melody, call.tones>>
BY DEF Goto

LEMMA LoadSoundKeeps == ASSUME IInv, LoadSound PROVE IInv'
<1>1. PICK t \in Tunes :
         call' = [pc |-> "sound open", tune |-> t, melody |-> NULL, tones |-> <<>>]
  BY DEF LoadSound
<1>2. /\ call'.pc = "sound open" /\ call'.melody = NULL /\ call'.pc \in SoundPcs
      /\ DOMAIN call' = {"pc", "tune", "melody", "tones"}
  BY <1>1 DEF SoundPcs
<1>3. Loads /\ UNCHANGED <<heap, fds>>
  BY DEF LoadSound, Keeps, Loads, Aside
<1>4. heap = Blocks(held) /\ fds = {} /\ IsFiniteSet(heap) /\ NULL \notin heap
  BY IdleState DEF LoadSound, At, IInv, HeapInv
<1> QED
  BY <1>2, <1>3, <1>4, SoundStep

LEMMA SoundOpenKeeps == ASSUME IInv, SoundOpen PROVE IInv'
<1>1. call.pc = "sound open" /\ call.pc \in SoundPcs
  BY DEF SoundOpen, At, SoundPcs
<1>2. Loads /\ UNCHANGED heap
  BY DEF SoundOpen, Keeps, Loads, Aside
<1>3. /\ DOMAIN call = {"pc", "tune", "melody", "tones"} /\ call.melody = NULL
      /\ heap = Blocks(held) /\ fds = {} /\ IsFiniteSet(heap) /\ NULL \notin heap
  BY <1>1, SoundState DEF IInv, HeapInv
<1>4. CASE fds' = fds \cup {"sound"} /\ Goto("magic")
  <2>1. /\ DOMAIN call' = {"pc", "tune", "melody", "tones"} /\ call'.pc = "magic"
        /\ call'.melody = NULL
    BY <1>3, <1>4, SoundGoto
  <2>2. call'.pc \in SoundPcs
    BY <2>1 DEF SoundPcs
  <2> QED
    BY <1>2, <1>3, <1>4, <2>1, <2>2, SoundStep
<1>5. CASE UNCHANGED fds /\ call' = Idle
  BY <1>2, <1>3, <1>5, IdleLoads
<1> QED
  BY <1>4, <1>5 DEF SoundOpen

LEMMA SoundHeaderKeeps == ASSUME IInv, SoundHeader PROVE IInv'
<1>1. call.pc = "magic" /\ call.pc \in SoundPcs
  BY DEF SoundHeader, At, SoundPcs
<1>2. Loads /\ UNCHANGED heap
  BY DEF SoundHeader, Keeps, Loads, Aside
<1>3. /\ DOMAIN call = {"pc", "tune", "melody", "tones"} /\ call.melody = NULL
      /\ heap = Blocks(held) /\ fds = {"sound"} /\ IsFiniteSet(heap) /\ NULL \notin heap
  BY <1>1, SoundState DEF IInv, HeapInv
<1>4. CASE UNCHANGED fds /\ Goto("melody")
  <2>1. /\ DOMAIN call' = {"pc", "tune", "melody", "tones"} /\ call'.pc = "melody"
        /\ call'.melody = NULL
    BY <1>3, <1>4, SoundGoto
  <2>2. call'.pc \in SoundPcs
    BY <2>1 DEF SoundPcs
  <2> QED
    BY <1>2, <1>3, <1>4, <2>1, <2>2, SoundStep
<1>5. CASE fds' = fds \ {"sound"} /\ call' = Idle
  BY <1>2, <1>3, <1>5, IdleLoads
<1> QED
  BY <1>4, <1>5 DEF SoundHeader

LEMMA SoundMallocKeeps == ASSUME IInv, SoundMalloc PROVE IInv'
<1>1. call.pc = "melody" /\ call.pc \in SoundPcs
  BY DEF SoundMalloc, At, SoundPcs
<1>2. Loads
  BY DEF SoundMalloc, Keeps, Loads, Aside
<1>3. /\ DOMAIN call = {"pc", "tune", "melody", "tones"} /\ call.melody = NULL
      /\ heap = Blocks(held) /\ fds = {"sound"} /\ IsFiniteSet(heap) /\ NULL \notin heap
  BY <1>1, SoundState DEF IInv, HeapInv
<1>4. CASE /\ heap' = heap \cup {Fresh} /\ UNCHANGED fds
           /\ call' = [call EXCEPT !.pc = "tones", !.melody = Fresh]
  <2>1. /\ DOMAIN call' = {"pc", "tune", "melody", "tones"} /\ call'.pc = "tones"
        /\ call'.melody = Fresh
    BY <1>3, <1>4
  <2>2. call'.pc \in SoundPcs
    BY <2>1 DEF SoundPcs
  <2>3. Fresh \notin heap /\ Fresh # NULL /\ IsFiniteSet(heap')
    BY <1>3, <1>4, FreshIsFree
  <2> QED
    BY <1>2, <1>3, <1>4, <2>1, <2>2, <2>3, SoundStep
<1>5. CASE UNCHANGED heap /\ fds' = fds \ {"sound"} /\ call' = Idle
  BY <1>2, <1>3, <1>5, IdleLoads
<1> QED
  BY <1>4, <1>5 DEF SoundMalloc

LEMMA ReadToneKeeps == ASSUME IInv, ReadTone PROVE IInv'
<1>1. call.pc = "tones" /\ call.pc \in SoundPcs
  BY DEF ReadTone, At, SoundPcs
<1>2. UNCHANGED <<held, video, blue_screen>>
  BY DEF ReadTone, Keeps
<1>3. /\ DOMAIN call = {"pc", "tune", "melody", "tones"} /\ call.melody # NULL
      /\ heap = Blocks(held) \cup {call.melody} /\ call.melody \notin Blocks(held)
      /\ fds = {"sound"} /\ IsFiniteSet(heap) /\ NULL \notin heap
  BY <1>1, SoundState DEF IInv, HeapInv
<1> DEFINE file == mkksf(call.tune)
           n == Len(call.tones)
<1>4. CASE /\ call' = [call EXCEPT !.tones = Append(@, file[n + 1])]
           /\ UNCHANGED <<fds, heap, wild>>
  <2> HIDE DEF file, n
  <2>1. /\ DOMAIN call' = {"pc", "tune", "melody", "tones"}
        /\ UNCHANGED <<call.pc, call.melody>>
    BY <1>3, <1>4
  <2>2. Loads
    BY <1>2, <1>4 DEF Loads, Aside
  <2> QED
    BY <1>1, <1>3, <1>4, <2>1, <2>2, SoundStep
<1>5. CASE fds' = fds \ {"sound"} /\ Free({call.melody}) /\ call' = Idle
  <2>1. /\ heap' = heap \ {call.melody} /\ UNCHANGED wild
        /\ IsFiniteSet(heap') /\ NULL \notin heap'
    BY <1>3, <1>5, FreeInHand
  <2>2. Loads
    BY <1>2, <2>1 DEF Loads, Aside
  <2>3. heap' = Blocks(held) /\ fds' = {}
    BY <1>3, <1>5, <2>1
  <2> QED
    BY <1>5, <2>1, <2>2, <2>3, IdleLoads
<1> QED
  BY <1>4, <1>5 DEF ReadTone

LEMMA SoundLoadedKeeps == ASSUME IInv, SoundLoaded PROVE IInv'
<1>1. call.pc = "tones" /\ call.pc \in SoundPcs
  BY DEF SoundLoaded, At, SoundPcs
<1>2. Aside /\ UNCHANGED heap /\ call' = Idle /\ fds' = fds \ {"sound"}
  BY DEF SoundLoaded, Keeps, Aside
<1>3. /\ call.melody # NULL
      /\ heap = Blocks(held) \cup {call.melody} /\ call.melody \notin Blocks(held)
      /\ fds = {"sound"} /\ IsFiniteSet(heap) /\ NULL \notin heap
  BY <1>1, SoundState DEF IInv, HeapInv
<1>4. PICK e : held' = Append(held, e) /\ e.blocks = {call.melody}
  BY DEF SoundLoaded
<1>5. IsSequence(held') /\ Apart' /\ Blocks(held') = Blocks(held) \cup {call.melody}
  BY <1>3, <1>4, HoldsMore
<1>6. heap' = Blocks(held') /\ fds' = {}
  BY <1>2, <1>3, <1>5
<1> QED
  BY <1>2, <1>3, <1>5, <1>6, IdleStep

-----------------------------------------------------------------------------
(* clear_image, clear_sound and the modes of the screen                    *)

LEMMA ClearKeeps == ASSUME IInv, Clear PROVE IInv'
<1>1. call = Idle /\ heap = Blocks(held) /\ fds = {} /\ IsSequence(held) /\ Apart
  BY IdleState DEF Clear, At, IInv
<1>2. UNCHANGED <<fds, call, video, blue_screen>>
  BY DEF Clear, Keeps
<1>3. PICK k \in DOMAIN held : Free(held[k].blocks) /\ held' = RemoveAt(held, k)
  BY DEF Clear
<1>4. held[k].blocks \subseteq heap
  BY <1>1 DEF Blocks
<1>5. /\ heap' = heap \ held[k].blocks /\ UNCHANGED wild
      /\ IsFiniteSet(heap') /\ NULL \notin heap'
  BY <1>3, <1>4, FreeInHand
<1>6. /\ Blocks(held') = Blocks(held) \ held[k].blocks
      /\ \A i, j \in DOMAIN held' : held'[i].blocks \cap held'[j].blocks # {} => i = j
  BY <1>1, <1>3, RemoveBlocks DEF Apart
<1>7. IsSequence(held')
  BY <1>1, <1>3, RemoveOne
<1>8. Apart'
  BY <1>6 DEF Apart
<1>9. Aside
  BY <1>2, <1>5 DEF Aside
<1> QED
  BY <1>1, <1>2, <1>5, <1>6, <1>7, <1>8, <1>9, IdleStep

LEMMA SwitchKeeps ==
    ASSUME IInv, switch_graphic \/ switch_text
    PROVE  IInv'
<1>1. PICK mode, handler :
         /\ Switch(mode, handler)
         /\ handler = IF mode = "graphic" THEN "fb" ELSE "cons"
  BY DEF switch_graphic, switch_text
<1>2. call = Idle /\ heap = Blocks(held) /\ fds = {}
  BY <1>1, IdleState DEF Switch, At
<1>3. UNCHANGED <<heap, fds, held, wild>>
  BY <1>1 DEF Switch
<1>4. IsFiniteSet(heap') /\ NULL \notin heap'
  BY <1>3 DEF IInv, HeapInv
<1>5. CASE video' = mode /\ blue_screen' = handler /\ UNCHANGED call
  <2>1. CallInv(call)'
    BY <1>2, <1>5 DEF CallInv
  <2>2. HeapInv'
    BY <1>2, <1>3, <1>5 DEF IInv, HeapInv, Stopped
  <2>3. Apart' /\ IsSequence(held') /\ wild' = FALSE
    BY <1>3 DEF IInv, Apart
  <2> QED
    BY <1>1, <1>5, <2>1, <2>2, <2>3 DEF IInv
<1>6. CASE UNCHANGED <<video, blue_screen>> /\ call' = [pc |-> "halted", by |-> blue_screen]
  <2>1. call'.pc = "halted" /\ call'.by = blue_screen
    BY <1>6
  <2>2. Loads
    BY <1>3, <1>6 DEF Loads, Aside
  <2> QED
    BY <1>4, <2>1, <2>2, StopStep
<1> QED
  BY <1>1, <1>5, <1>6 DEF Switch

-----------------------------------------------------------------------------
(* The theorem                                                             *)

LEMMA InitEstablishes ==
    ASSUME Init
    PROVE  IInv
<1>1. IsSequence(held) /\ Blocks(held) = {} /\ Apart
  BY EmptyHolds DEF Init, Apart
<1>2. CallInv(call) /\ call.pc = "idle"
  BY IdlePc DEF Init, CallInv
<1>3. Hands(call) = {} /\ Files(call) = {}
  BY <1>2 DEF Hands, Files, ImagePcs, AnimPcs, SoundPcs
<1>4. HeapInv
  BY <1>1, <1>3, FS_EmptySet DEF HeapInv, Init
<1> QED
  BY <1>1, <1>2, <1>4 DEF IInv, Init

LEMMA NextKeeps ==
    ASSUME IInv, [Next]_vars
    PROVE  IInv'
<1>1. CASE LoadImage
  BY <1>1, LoadImageKeeps
<1>2. CASE Open
  BY <1>2, OpenKeeps
<1>3. CASE ReadHeader
  BY <1>3, ReadHeaderKeeps
<1>4. CASE MallocImage
  BY <1>4, MallocImageKeeps
<1>5. CASE CallocData
  BY <1>5, CallocDataKeeps
<1>6. CASE CallocRow
  BY <1>6, CallocRowKeeps
<1>7. CASE SeekData
  BY <1>7, SeekDataKeeps
<1>8. CASE ReadRow
  BY <1>8, ReadRowKeeps
<1>9. CASE SkipPadding
  BY <1>9, SkipPaddingKeeps
<1>10. CASE ImageLoaded
  BY <1>10, ImageLoadedKeeps
<1>11. CASE Err
  BY <1>11, ErrKeeps
<1>12. CASE ErrBuf
  BY <1>12, ErrBufKeeps
<1>13. CASE ErrImg
  BY <1>13, ErrImgKeeps
<1>14. CASE LoadAnim
  BY <1>14, LoadAnimKeeps
<1>15. CASE AnimMalloc
  BY <1>15, AnimMallocKeeps
<1>16. CASE AnimCalloc
  BY <1>16, AnimCallocKeeps
<1>17. CASE strdup
  BY <1>17, strdupKeeps
<1>18. CASE NextImage
  BY <1>18, NextImageKeeps
<1>19. CASE AnimLoaded
  BY <1>19, AnimLoadedKeeps
<1>20. CASE DrawAnim
  BY <1>20, DrawAnimKeeps
<1>21. CASE LoadSound
  BY <1>21, LoadSoundKeeps
<1>22. CASE SoundOpen
  BY <1>22, SoundOpenKeeps
<1>23. CASE SoundHeader
  BY <1>23, SoundHeaderKeeps
<1>24. CASE SoundMalloc
  BY <1>24, SoundMallocKeeps
<1>25. CASE ReadTone
  BY <1>25, ReadToneKeeps
<1>26. CASE SoundLoaded
  BY <1>26, SoundLoadedKeeps
<1>27. CASE Clear
  BY <1>27, ClearKeeps
<1>28. CASE switch_graphic \/ switch_text
  BY <1>28, SwitchKeeps
<1>29. CASE UNCHANGED vars
  BY <1>29 DEF vars, IInv, Apart, HeapInv, Stopped, CallInv
<1> QED
  BY <1>1, <1>2, <1>3, <1>4, <1>5, <1>6, <1>7, <1>8, <1>9, <1>10, <1>11, <1>12, <1>13, <1>14,
     <1>15, <1>16, <1>17, <1>18, <1>19, <1>20, <1>21, <1>22, <1>23, <1>24, <1>25, <1>26, <1>27,
     <1>28, <1>29 DEF Next

LEMMA InvariantHolds == IInv => ResourcesExact
<1> SUFFICES ASSUME IInv
             PROVE  ResourcesExact
  OBVIOUS
<1>1. call.pc = "idle" => fds = {} /\ heap = Owned
  BY IdleState DEF Owned, Blocks
<1>2. call.pc = "halted" => call.by = IF video = "graphic" THEN "fb" ELSE "cons"
  <2> SUFFICES ASSUME call.pc = "halted"
               PROVE  call.by = blue_screen
    BY DEF IInv
  <2> QED
    BY IdlePc DEF IInv, CallInv, ImagePcs, AnimPcs, SoundPcs
<1> QED
  BY <1>1, <1>2 DEF ResourcesExact, IInv, Apart

(* Whatever call of load_image, load_anim or load_sound fails, for any     *)
(* files and any number of images, animations and melodies (graphic.c:     *)
(* 442-507, 567-616, sound.c:27-75): between two calls no file is open and *)
(* the heap holds just what the program holds, each block of one owner;    *)
(* nothing is freed that is not allocated.                                 *)
THEOREM ResourcesStayExact == Spec => []ResourcesExact
<1>1. Init => IInv
  BY InitEstablishes
<1>2. IInv /\ [Next]_vars => IInv'
  BY NextKeeps
<1>3. IInv => ResourcesExact
  BY InvariantHolds
<1> QED
  BY <1>1, <1>2, <1>3, PTL DEF Spec

-----------------------------------------------------------------------------
(* What is loaded is what the files say                                    *)

(* Where the line of an image starts that follows n others.                *)
Line(f, n) == f.offset + n * (f.size \div f.height)
Sized(f) == f.size >= f.width * f.height
LinesOf(f, from) == Sized(f) => \A j \in DOMAIN from : from[j] = Line(f, j - 1)

ImageExact(img) == Len(img.from) = img.file.height /\ LinesOf(img.file, img.from)
ImagesExact(imgs) == \A k \in DOMAIN imgs : ImageExact(imgs[k])

MelodyExact(x) ==
    /\ IsPrefix(x.tune.tones, x.tones) /\ x.tones[Len(x.tones)] = "end"
    /\ Len(x.tones) = Len(x.tune.tones) + IF x.tune.newline THEN 2 ELSE 1

ThingExact(x) ==
    /\ x.kind = "image" => ImageExact(x)
    /\ x.kind = "anim" => ImagesExact(x.imgs)
    /\ x.kind = "melody" => MelodyExact(x)

(* Between two reads the position in the file is the start of the next     *)
(* line, after a read it is width bytes further.                           *)
Position(c) ==
    /\ c.from \in Seq(Int) /\ LinesOf(c.file, c.from)
    /\ c.i \in Nat /\ c.pos \in Int
    /\ c.pc = "read" => /\ Len(c.from) = c.i /\ c.i <= c.file.height
                        /\ Sized(c.file) /\ c.i < c.file.height => c.pos = Line(c.file, c.i)
    /\ c.pc = "skip" => /\ Len(c.from) = c.i + 1 /\ c.i + 1 <= c.file.height
                        /\ Sized(c.file) => c.pos = Line(c.file, c.i) + c.file.width

(* The tones read so far are those of the file, in order.                  *)
TonesRead(c) ==
    /\ c.tune \in Tunes
    /\ IsSequence(c.tones) /\ Len(c.tones) <= Len(mkksf(c.tune))
    /\ \A j \in DOMAIN c.tones : c.tones[j] = mkksf(c.tune)[j]

CallExact(c) ==
    /\ c.pc \in ImagePcs \cup AnimPcs => ImagesExact(c.anim.imgs)
    /\ c.pc \in {"open", "header", "img", "data", "rows"} => c.from = <<>>
    /\ c.pc \in {"read", "skip"} => Position(c)
    /\ c.pc \in SoundPcs => TonesRead(c)
    /\ c.pc \in SoundPcs \ {"tones"} => c.tones = <<>>

LoadedInv ==
    /\ \A k \in DOMAIN held : ThingExact(held[k])
    /\ CallExact(call)

(* Arithmetic: the quotient, and what is padded between two lines.         *)
LEMMA Quotient ==
    ASSUME NEW d \in Int, NEW h \in Nat \ {0}
    PROVE  /\ d \div h \in Int
           /\ h * (d \div h) <= d /\ d < h * (d \div h) + h
BY SMT

LEMMA OnlyZero ==
    ASSUME NEW h \in Nat \ {0}, NEW x \in Int, h * x < h, -h < h * x
    PROVE  x = 0
<1>1. CASE x >= 1
  <2>1. h * x >= h
    BY <1>1
  <2> QED
    BY <2>1
<1>2. CASE x <= -1
  <2>1. h * x <= -h
    BY <1>2
  <2> QED
    BY <2>1
<1> QED
  BY <1>1, <1>2

(* Of two quotients that both fit, there is only one.                      *)
LEMMA QuotientIsUnique ==
    ASSUME NEW d \in Int, NEW h \in Nat \ {0}, NEW q \in Int, NEW p \in Int,
           h * q <= d, d < h * q + h, h * p <= d, d < h * p + h
    PROVE  p = q
<1> DEFINE x == p - q
<1>1. h * x = h * p - h * q
  OBVIOUS
<1>2. h * x < h /\ -h < h * x
  <2>1. h * p \in Int /\ h * q \in Int
    OBVIOUS
  <2> QED
    BY <1>1, <2>1
<1>3. x \in Int
  OBVIOUS
<1>4. x = 0
  BY <1>2, <1>3, OnlyZero
<1> QED
  BY <1>4

LEMMA QuotientOfRest ==
    ASSUME NEW s \in Nat, NEW w \in Nat, NEW h \in Nat \ {0}
    PROVE  (s - w * h) \div h = (s \div h) - w
<1> DEFINE q == s \div h
           d == s - w * h
           p == d \div h
<1>1. q \in Int /\ h * q <= s /\ s < h * q + h
  BY Quotient
<1>2. d \in Int
  OBVIOUS
<1>3. p \in Int /\ h * p <= d /\ d < h * p + h
  BY <1>2, Quotient
<1> DEFINE r == q - w
<1>4. r \in Int /\ h * r = h * q - w * h
  BY <1>1
<1>5. h * r <= d /\ d < h * r + h
  <2>1. h * q \in Int /\ w * h \in Int
    BY <1>1
  <2> QED
    BY <1>1, <1>4, <2>1
<1>6. p = r
  BY <1>2, <1>3, <1>4, <1>5, QuotientIsUnique
<1> QED
  BY <1>6

(* The padding leads to the next line: in an image of two lines or more it *)
(* is small enough for a signed integer.                                   *)
LEMMA PaddingLeads ==
    ASSUME NEW f \in Bitmaps, Sized(f), f.height >= 2, NEW n \in Nat
    PROVE  Line(f, n) + f.width + Padding(f) = Line(f, n + 1)
<1> DEFINE s == f.size
           w == f.width
           h == f.height
           d == s - w * h
           q == s \div h
<1>1. /\ s \in Nat /\ w \in Nat /\ h \in Nat \ {0} /\ f.offset \in Nat /\ s < Word
      /\ Word \in Nat \ {0} /\ Word % 2 = 0
  <2>1. {f.width, f.height, f.size, f.offset, f.length} \subseteq Nat /\ f.size < Word
    BY FilesAssumption
  <2> QED
    BY <2>1, FilesAssumption
<1>2. w * h \in Nat
  BY <1>1
<1>3. d \in 0 .. Word - 1
  BY <1>1, <1>2 DEF Sized
<1>4. d % Word = d
  BY <1>1, <1>3
<1>5. d \div h = q - w /\ q \in Int
  <2>1. (s - w * h) \div h = (s \div h) - w
    <3> HIDE DEF s, w, h
    <3> QED
      BY <1>1, QuotientOfRest
  <2>2. s \in Int /\ h \in Nat \ {0}
    BY <1>1
  <2>3. s \div h \in Int
    <3> HIDE DEF s, h
    <3> QED
      BY <2>2, Quotient
  <2> QED
    BY <2>1, <2>3
<1>6. d \div h < Word \div 2
  <2> DEFINE p == d \div h
  <2>1. p \in Int /\ h * p <= d
    <3>1. d \in Int /\ h \in Nat \ {0}
      BY <1>1, <1>3
    <3> HIDE DEF d, h
    <3> QED
      BY <3>1, Quotient
  <2>2. CASE p <= 0
    BY <1>1, <2>1, <2>2
  <2>3. CASE p > 0
    <3>1. 2 * p <= h * p
      BY <1>1, <2>1, <2>3
    <3>2. h * p \in Int
      BY <1>1, <2>1
    <3>3. 2 * p <= d
      BY <1>3, <2>1, <3>1, <3>2
    <3> QED
      BY <1>1, <1>3, <2>1, <3>3
  <2> QED
    BY <2>1, <2>2, <2>3
<1>7. Padding(f) = q - w
  <2>1. ~(d \div h >= Word \div 2)
    BY <1>1, <1>5, <1>6
  <2> QED
    BY <1>4, <1>5, <2>1 DEF Padding, AsSigned
<1>8. Line(f, n + 1) = Line(f, n) + q
  <2>1. (n + 1) * q = n * q + q /\ n * q \in Int
    BY <1>5
  <2> QED
    BY <1>1, <1>5, <2>1 DEF Line
<1>9. Line(f, n) \in Int
  <2>1. n * q \in Int
    BY <1>5
  <2> QED
    BY <1>1, <2>1 DEF Line
<1> QED
  BY <1>1, <1>5, <1>7, <1>8, <1>9

(* A step of load_image, of load_anim, and one that ends a call.           *)
LEMMA ImageStaysExact ==
    ASSUME LoadedInv, UNCHANGED held,
           call.pc \in ImagePcs, call'.pc \in ImagePcs, UNCHANGED call.anim,
           call'.pc \in {"open", "header", "img", "data", "rows"} => call'.from = <<>>,
           call'.pc \in {"read", "skip"} => Position(call')
    PROVE  LoadedInv'
<1>1. call'.pc \notin SoundPcs
  BY DEF ImagePcs, SoundPcs
<1> QED
  BY <1>1 DEF LoadedInv, CallExact

LEMMA AnimStaysExact ==
    ASSUME LoadedInv, UNCHANGED held, call'.pc \in AnimPcs, ImagesExact(call'.anim.imgs)
    PROVE  LoadedInv'
<1>1. call'.pc \notin SoundPcs \cup {"open", "header", "img", "data", "rows", "read", "skip"}
  BY DEF AnimPcs, SoundPcs
<1> QED
  BY <1>1 DEF LoadedInv, CallExact

LEMMA SoundStaysExact ==
    ASSUME LoadedInv, UNCHANGED held, call'.pc \in SoundPcs, TonesRead(call'),
           call'.pc # "tones" => call'.tones = <<>>
    PROVE  LoadedInv'
<1>1. call'.pc \notin ImagePcs \cup AnimPcs \cup {"read", "skip"}
  BY DEF ImagePcs, AnimPcs, SoundPcs
<1>2. call'.pc \notin {"open", "header", "img", "data", "rows"}
  BY DEF SoundPcs
<1> QED
  BY <1>1, <1>2 DEF LoadedInv, CallExact

LEMMA EndExact ==
    ASSUME \A k \in DOMAIN held' : ThingExact(held'[k]),
           call'.pc \in {"idle", "halted", "fault"}
    PROVE  LoadedInv'
<1>1. call'.pc \notin ImagePcs \cup AnimPcs \cup SoundPcs
  BY DEF ImagePcs, AnimPcs, SoundPcs
<1> QED
  BY <1>1 DEF LoadedInv, CallExact

LEMMA EndsExact ==
    ASSUME LoadedInv, UNCHANGED held, call' = Idle \/ call'.pc \in {"halted", "fault"}
    PROVE  LoadedInv'
BY IdlePc, EndExact DEF LoadedInv

LEMMA ReturnNullExact ==
    ASSUME LoadedInv, UNCHANGED held, ReturnNull
    PROVE  LoadedInv'
<1>1. [pc |-> "halted", by |-> blue_screen].pc = "halted"
  OBVIOUS
<1> QED
  BY <1>1, EndsExact DEF ReturnNull

(* The way to the error path, whatever has been loaded so far.             *)
LEMMA FailsExact ==
    ASSUME IInv, LoadedInv, UNCHANGED held, call.pc \in ImagePcs,
           NEW p \in {"err", "err_buf", "err_img", "fault"}, Goto(p)
    PROVE  LoadedInv'
<1>1. DOMAIN call = ImageFields
  BY ImageState
<1>2. call'.pc = p /\ UNCHANGED call.anim
  BY <1>1, ImageGoto
<1>3. CASE p = "fault"
  BY <1>2, <1>3, EndsExact
<1>4. CASE p # "fault"
  <2>1. /\ call'.pc \in ImagePcs
        /\ call'.pc \notin {"open", "header", "img", "data", "rows", "read", "skip"}
    BY <1>2, <1>4 DEF ImagePcs
  <2> QED
    BY <1>2, <2>1, ImageStaysExact
<1> QED
  BY <1>3, <1>4

(* On the way to the first line nothing is read.                           *)
LEMMA EarlyExact ==
    ASSUME LoadedInv, UNCHANGED held, UNCHANGED <<call.anim, call.from>>,
           call.pc \in {"open", "header", "img", "data", "rows"},
           call'.pc \in {"open", "header", "img", "data", "rows"}
    PROVE  LoadedInv'
<1>1. call.pc \in ImagePcs /\ call'.pc \in ImagePcs /\ call'.pc \notin {"read", "skip"}
  BY DEF ImagePcs
<1>2. call'.from = <<>>
  BY DEF LoadedInv, CallExact
<1> QED
  BY <1>1, <1>2, ImageStaysExact

LEMMA LoadImageExact == ASSUME IInv, LoadedInv, LoadImage PROVE LoadedInv'
<1>1. PICK f \in Bitmaps : call' = ImageCall(f, NoAnim)
  BY DEF LoadImage
<1>2. call'.pc = "open" /\ call'.from = <<>> /\ call'.anim.imgs = <<>>
  BY <1>1 DEF ImageCall, NoAnim
<1>3. UNCHANGED held /\ ImagesExact(<<>>)
  BY DEF LoadImage, Keeps, ImagesExact
<1>4. call'.pc \notin SoundPcs /\ call'.pc \notin {"read", "skip"}
  BY <1>2 DEF SoundPcs
<1> QED
  BY <1>2, <1>3, <1>4 DEF LoadedInv, CallExact

LEMMA OpenExact == ASSUME IInv, LoadedInv, Open PROVE LoadedInv'
<1>1. call.pc = "open" /\ call.pc \in ImagePcs /\ UNCHANGED held
  BY DEF Open, At, ImagePcs, Keeps
<1>2. CASE Goto("header")
  <2>1. call'.pc = "header" /\ UNCHANGED <<call.anim, call.from>>
    BY <1>1, <1>2, ImageState, ImageGoto
  <2> QED
    BY <1>1, <2>1, EarlyExact
<1>3. CASE ReturnNull
  BY <1>1, <1>3, ReturnNullExact
<1> QED
  BY <1>2, <1>3 DEF Open

LEMMA ReadHeaderExact == ASSUME IInv, LoadedInv, ReadHeader PROVE LoadedInv'
<1>1. call.pc = "header" /\ call.pc \in ImagePcs /\ UNCHANGED held
  BY DEF ReadHeader, At, ImagePcs, Keeps
<1>2. CASE Goto("img")
  <2>1. call'.pc = "img" /\ UNCHANGED <<call.anim, call.from>>
    BY <1>1, <1>2, ImageState, ImageGoto
  <2> QED
    BY <1>1, <2>1, EarlyExact
<1>3. CASE Goto("err_img")
  BY <1>1, <1>3, FailsExact
<1> QED
  BY <1>2, <1>3 DEF ReadHeader

LEMMA MallocImageExact == ASSUME IInv, LoadedInv, MallocImage PROVE LoadedInv'
<1>1. call.pc = "img" /\ call.pc \in ImagePcs /\ UNCHANGED held
  BY DEF MallocImage, Allocates, At, ImagePcs, Keeps
<1>2. CASE call' = [call EXCEPT !.pc = "data", !.img = Fresh]
  <2>1. call'.pc = "data" /\ UNCHANGED <<call.anim, call.from>>
    BY <1>1, <1>2, ImageState DEF ImageFields
  <2> QED
    BY <1>1, <2>1, EarlyExact
<1>3. CASE Goto("err_img")
  BY <1>1, <1>3, FailsExact
<1> QED
  BY <1>2, <1>3 DEF MallocImage, Allocates

LEMMA CallocDataExact == ASSUME IInv, LoadedInv, CallocData PROVE LoadedInv'
<1>1. call.pc = "data" /\ call.pc \in ImagePcs /\ UNCHANGED held
  BY DEF CallocData, Allocates, At, ImagePcs, Keeps
<1> DEFINE none == [i \in 1 .. call.file.height |-> NULL]
<1>2. CASE call' = [call EXCEPT !.pc = "rows", !.data = Fresh, !.rows = none]
  <2> HIDE DEF none
  <2>1. call'.pc = "rows" /\ UNCHANGED <<call.anim, call.from>>
    BY <1>1, <1>2, ImageState DEF ImageFields
  <2> QED
    BY <1>1, <2>1, EarlyExact
<1>3. CASE Goto("err_buf")
  BY <1>1, <1>3, FailsExact
<1> QED
  BY <1>2, <1>3 DEF CallocData, Allocates, DataLabel

LEMMA CallocRowExact == ASSUME IInv, LoadedInv, CallocRow PROVE LoadedInv'
<1>1. call.pc = "rows" /\ call.pc \in ImagePcs /\ UNCHANGED held
  BY DEF CallocRow, Allocates, At, ImagePcs, Keeps
<1>2. CASE call' = [call EXCEPT !.rows[call.i + 1] = Fresh, !.i = @ + 1]
  <2>1. UNCHANGED <<call.pc, call.anim, call.from>>
    BY <1>1, <1>2, ImageState DEF ImageFields
  <2> QED
    BY <1>1, <2>1, EarlyExact
<1>3. CASE Goto("err")
  BY <1>1, <1>3, FailsExact
<1> QED
  BY <1>2, <1>3 DEF CallocRow, Allocates

LEMMA FileTypes ==
    ASSUME NEW f \in Bitmaps
    PROVE  /\ f.width \in Nat /\ f.height \in Nat /\ f.size \in Nat /\ f.offset \in Nat
           /\ f.size < Word /\ Word \in Nat \ {0}
<1>1. {f.width, f.height, f.size, f.offset, f.length} \subseteq Nat /\ f.size < Word
  BY FilesAssumption
<1> QED
  BY <1>1, FilesAssumption

LEMMA LineIsInt ==
    ASSUME NEW f \in Bitmaps, f.height # 0, NEW n \in Nat
    PROVE  Line(f, n) \in Int /\ Line(f, 0) = f.offset
<1> DEFINE q == f.size \div f.height
<1>1. q \in Int
  <2>1. f.size \in Int /\ f.height \in Nat \ {0}
    BY FileTypes
  <2> QED
    BY <2>1
<1> HIDE DEF q
<1>2. n * q \in Int /\ 0 * q = 0
  BY <1>1
<1> QED
  BY <1>2, FileTypes DEF Line, q

LEMMA SeekDataExact == ASSUME IInv, LoadedInv, SeekData PROVE LoadedInv'
<1>1. call.pc = "rows" /\ call.pc \in ImagePcs /\ UNCHANGED held
  BY DEF SeekData, At, ImagePcs, Keeps
<1>2. CASE /\ call.file.height # 0
           /\ call' = [call EXCEPT !.pc = "read", !.i = 0, !.pos = call.file.offset]
  <2>1. /\ call'.pc = "read" /\ call'.i = 0 /\ call'.pos = call.file.offset
        /\ UNCHANGED <<call.anim, call.from, call.file>>
    BY <1>1, <1>2, ImageState DEF ImageFields
  <2>2. call.from = <<>> /\ call.file \in Bitmaps
    BY <1>1, ImageState DEF LoadedInv, CallExact
  <2>3. /\ <<>> \in Seq(Int) /\ LinesOf(call.file, <<>>) /\ Len(<<>>) = 0
        /\ call.file.offset \in Int /\ 0 <= call.file.height
    BY <2>2, FileTypes DEF LinesOf
  <2>4. Line(call.file, 0) = call.file.offset
    BY <1>2, <2>2, LineIsInt
  <2>5. Position(call')
    BY <2>1, <2>2, <2>3, <2>4 DEF Position
  <2>6. call'.pc \in ImagePcs
    BY <2>1 DEF ImagePcs
  <2> QED
    BY <1>1, <2>1, <2>5, <2>6, ImageStaysExact
<1>3. CASE Goto("err") \/ Goto("fault")
  BY <1>1, <1>3, FailsExact
<1> QED
  BY <1>2, <1>3 DEF SeekData

LEMMA ReadRowExact == ASSUME IInv, LoadedInv, ReadRow PROVE LoadedInv'
<1>1. call.pc = "read" /\ call.pc \in ImagePcs /\ UNCHANGED held
  BY DEF ReadRow, At, ImagePcs, Keeps
<1> DEFINE f == call.file
           i == call.i
           from == Append(call.from, call.pos)
<1>2. CASE call' = [call EXCEPT !.pc = "skip", !.from = Append(@, call.pos),
                                !.pos = @ + call.file.width]
  <2>1. /\ call'.pc = "skip" /\ call'.from = from /\ call'.pos = call.pos + f.width
        /\ UNCHANGED <<call.anim, call.file, call.i>>
    BY <1>1, <1>2, ImageState DEF ImageFields
  <2>2. Position(call) /\ f \in Bitmaps /\ i < f.height
    BY <1>1, ImageState DEF LoadedInv, CallExact, ReadRow
  <2>3. /\ call.from \in Seq(Int) /\ Len(call.from) = i /\ i \in Nat /\ call.pos \in Int
        /\ LinesOf(f, call.from)
        /\ Sized(f) => call.pos = Line(f, i)
    BY <1>1, <2>2 DEF Position
  <2>4. f.height \in Nat /\ f.width \in Nat
    BY <2>2, FileTypes
  <2>5. /\ from \in Seq(Int) /\ Len(from) = i + 1 /\ DOMAIN from = 1 .. i + 1
        /\ \A j \in 1 .. i : from[j] = call.from[j]
        /\ from[i + 1] = call.pos
    BY <2>3
  <2> HIDE DEF from
  <2>6. LinesOf(f, from)
    <3> SUFFICES ASSUME Sized(f), NEW j \in 1 .. i + 1
                 PROVE  from[j] = Line(f, j - 1)
      BY <2>5 DEF LinesOf
    <3>1. CASE j = i + 1
      <4>1. j - 1 = i
        BY <2>3, <3>1
      <4> QED
        BY <2>3, <2>5, <3>1, <4>1
    <3>2. CASE j # i + 1
      <4>1. j \in 1 .. i /\ j \in DOMAIN call.from
        BY <2>3, <3>2
      <4> QED
        BY <2>3, <2>5, <4>1 DEF LinesOf
    <3> QED
      BY <3>1, <3>2
  <2>7. Position(call')
    <3>1. i + 1 <= f.height /\ call.pos + f.width \in Int
      BY <2>2, <2>3, <2>4
    <3>2. Sized(f) => call.pos + f.width = Line(f, i) + f.width
      BY <2>3
    <3> QED
      BY <2>1, <2>3, <2>5, <2>6, <3>1, <3>2 DEF Position
  <2>8. call'.pc \in ImagePcs
    BY <2>1 DEF ImagePcs
  <2> QED
    BY <1>1, <2>1, <2>7, <2>8, ImageStaysExact
<1>3. CASE Goto("err")
  BY <1>1, <1>3, FailsExact
<1> QED
  BY <1>2, <1>3 DEF ReadRow

LEMMA PaddingIsInt ==
    ASSUME NEW f \in Bitmaps, f.height # 0
    PROVE  Padding(f) \in Int
<1> DEFINE d == (f.size - f.width * f.height) % Word
           q == d \div f.height
<1>1. f.size - f.width * f.height \in Int /\ Word \in Nat \ {0} /\ f.height \in Nat \ {0}
  BY FileTypes
<1>2. d \in Int
  BY <1>1
<1> HIDE DEF d
<1>3. q \in Int
  BY <1>1, <1>2
<1> HIDE DEF q
<1> QED
  BY <1>1, <1>3 DEF Padding, AsSigned, d, q

LEMMA SkipPaddingExact == ASSUME IInv, LoadedInv, SkipPadding PROVE LoadedInv'
<1>1. call.pc = "skip" /\ call.pc \in ImagePcs /\ UNCHANGED held
  BY DEF SkipPadding, At, ImagePcs, Keeps
<1> DEFINE f == call.file
           i == call.i
           pos == call.pos + Padding(f)
<1>2. CASE call' = [call EXCEPT !.pc = "read", !.pos = pos, !.i = @ + 1]
  <2> HIDE DEF pos
  <2>1. /\ call'.pc = "read" /\ call'.pos = pos /\ call'.i = i + 1
        /\ UNCHANGED <<call.anim, call.file, call.from>>
    BY <1>1, <1>2, ImageState DEF ImageFields
  <2>2. Position(call) /\ f \in Bitmaps
    BY <1>1, ImageState DEF LoadedInv, CallExact
  <2>3. /\ call.from \in Seq(Int) /\ Len(call.from) = i + 1 /\ i \in Nat /\ call.pos \in Int
        /\ LinesOf(f, call.from)
        /\ Sized(f) => call.pos = Line(f, i) + f.width
        /\ i + 1 <= f.height
    BY <1>1, <2>2 DEF Position
  <2>4. f.height \in Nat /\ f.height # 0 /\ f.width \in Nat
    BY <2>2, <2>3, FileTypes
  <2>5. pos \in Int
    BY <2>2, <2>3, <2>4, PaddingIsInt DEF pos
  <2>6. Sized(f) /\ i + 1 < f.height => pos = Line(f, i + 1)
    <3> SUFFICES ASSUME Sized(f), i + 1 < f.height
                 PROVE  pos = Line(f, i + 1)
      OBVIOUS
    <3>1. f.height >= 2
      BY <2>3, <2>4
    <3>2. Line(f, i) + f.width + Padding(f) = Line(f, i + 1)
      BY <2>2, <2>3, <3>1, PaddingLeads
    <3> QED
      BY <2>3, <3>2 DEF pos
  <2>7. Position(call')
    <3>1. i + 1 \in Nat
      BY <2>3
    <3> QED
      BY <2>1, <2>3, <2>5, <2>6, <3>1 DEF Position
  <2>8. call'.pc \in ImagePcs
    BY <2>1 DEF ImagePcs
  <2> QED
    BY <1>1, <2>1, <2>7, <2>8, ImageStaysExact
<1>3. CASE Goto("err")
  BY <1>1, <1>3, FailsExact
<1> QED
  BY <1>2, <1>3 DEF SkipPadding

(* One thing more is held, that is what its file says.                     *)
LEMMA HoldsExact ==
    ASSUME IInv, LoadedInv, NEW e, ThingExact(e), held' = Append(held, e)
    PROVE  \A k \in DOMAIN held' : ThingExact(held'[k])
<1>1. /\ DOMAIN held = 1 .. Len(held) /\ DOMAIN held' = DOMAIN held \cup {Len(held) + 1}
      /\ \A k \in DOMAIN held : held'[k] = held[k]
      /\ held'[Len(held) + 1] = e
  BY AppendOne DEF IInv
<1> QED
  BY <1>1 DEF LoadedInv

LEMMA ImageLoadedExact == ASSUME IInv, LoadedInv, ImageLoaded PROVE LoadedInv'
<1>1. call.pc = "read" /\ call.pc \in ImagePcs
  BY DEF ImageLoaded, At, ImagePcs
<1> DEFINE image == [kind |-> "image", file |-> call.file, from |-> call.from,
                     blocks |-> {call.img, call.data} \cup Rows(call.rows)]
<1>2. ReturnImage(image) /\ call.i = call.file.height
  BY DEF ImageLoaded
<1>3. Position(call) /\ ImagesExact(call.anim.imgs)
  BY <1>1 DEF LoadedInv, CallExact
<1>4. image.kind = "image" /\ image.file = call.file /\ image.from = call.from
  OBVIOUS
<1> HIDE DEF image
<1>5. ImageExact(image)
  BY <1>1, <1>2, <1>3, <1>4 DEF Position, ImageExact
<1>6. CASE call.anim = NoAnim
  <2>1. held' = Append(held, image) /\ call' = Idle
    BY <1>2, <1>6 DEF ReturnImage
  <2>2. ThingExact(image)
    BY <1>4, <1>5 DEF ThingExact
  <2> QED
    BY <2>1, <2>2, HoldsExact, EndExact, IdlePc
<1>7. CASE call.anim # NoAnim
  <2> DEFINE anim == [call.anim EXCEPT !.imgs = Append(@, image)]
  <2>1. UNCHANGED held /\ call' = [pc |-> "anim", anim |-> anim]
    BY <1>2, <1>7 DEF ReturnImage
  <2>2. /\ DOMAIN call.anim = AnimFields /\ IsSequence(call.anim.imgs)
    BY <1>1, ImageState DEF AnimInHand
  <2>3. anim.imgs = Append(call.anim.imgs, image)
    BY <2>2 DEF AnimFields
  <2> HIDE DEF anim
  <2>4. call'.pc = "anim" /\ call'.anim = anim /\ call'.pc \in AnimPcs
    BY <2>1 DEF AnimPcs
  <2>5. ImagesExact(anim.imgs)
    <3> DEFINE s == call.anim.imgs
    <3>1. /\ DOMAIN anim.imgs = DOMAIN s \cup {Len(s) + 1}
          /\ \A k \in DOMAIN s : anim.imgs[k] = s[k]
          /\ anim.imgs[Len(s) + 1] = image
      BY <2>2, <2>3, AppendOne
    <3> QED
      BY <1>3, <1>5, <3>1 DEF ImagesExact
  <2> QED
    BY <2>1, <2>4, <2>5, AnimStaysExact
<1> QED
  BY <1>6, <1>7

LEMMA ErrorsExact ==
    ASSUME IInv, LoadedInv, Err \/ ErrBuf \/ ErrImg
    PROVE  LoadedInv'
<1>1. CASE Err
  <2>1. call.pc \in ImagePcs /\ UNCHANGED held /\ Goto("err_buf")
    BY <1>1 DEF Err, At, ImagePcs, Keeps
  <2> QED
    BY <2>1, FailsExact
<1>2. CASE ErrBuf
  <2>1. call.pc \in ImagePcs /\ UNCHANGED held /\ Goto("err_img")
    BY <1>2 DEF ErrBuf, At, ImagePcs, Keeps
  <2> QED
    BY <2>1, FailsExact
<1>3. CASE ErrImg
  <2>1. UNCHANGED held /\ ReturnNull
    BY <1>3 DEF ErrImg, Keeps
  <2> QED
    BY <2>1, ReturnNullExact
<1> QED
  BY <1>1, <1>2, <1>3

LEMMA LoadAnimExact == ASSUME IInv, LoadedInv, LoadAnim PROVE LoadedInv'
<1>1. PICK todo : call' = [pc |-> "anim malloc", anim |-> [NoAnim EXCEPT !.todo = todo]]
  BY DEF LoadAnim
<1> DEFINE anim == [NoAnim EXCEPT !.todo = todo]
<1>2. call'.pc = "anim malloc" /\ call'.anim.imgs = <<>> /\ call'.pc \in AnimPcs
  <2>1. anim.imgs = <<>>
    BY DEF NoAnim
  <2>2. call' = [pc |-> "anim malloc", anim |-> anim]
    BY <1>1
  <2> HIDE DEF anim
  <2>3. call'.pc = "anim malloc" /\ call'.anim = anim
    BY <2>2
  <2> QED
    BY <2>1, <2>3 DEF AnimPcs
<1>3. UNCHANGED held
  BY DEF LoadAnim, Keeps
<1>4. ImagesExact(<<>>)
  BY DEF ImagesExact
<1> QED
  BY <1>2, <1>3, <1>4, AnimStaysExact

(* The struct, the array and the copy of the paths: no image yet.          *)
LEMMA AnimBlocksExact ==
    ASSUME IInv, LoadedInv, AnimMalloc \/ AnimCalloc \/ strdup
    PROVE  LoadedInv'
<1>1. call.pc \in AnimPcs /\ UNCHANGED held
  BY DEF AnimMalloc, AnimCalloc, strdup, At, AnimPcs, Keeps
<1>2. DOMAIN call = {"pc", "anim"} /\ DOMAIN call.anim = AnimFields
  BY <1>1, AnimState DEF AnimInHand
<1>3. CASE call' = Idle
  BY <1>1, <1>3, EndsExact
<1>4. CASE \/ call' = [call EXCEPT !.pc = "anim calloc", !.anim.blocks = {Fresh}]
           \/ call' = [call EXCEPT !.pc = "strdup", !.anim.blocks = @ \cup {Fresh}]
           \/ call' = [call EXCEPT !.pc = "anim", !.anim.copy = Fresh]
  <2>0. /\ call'.pc \in AnimPcs
        /\ \/ call'.anim = [call.anim EXCEPT !.blocks = {Fresh}]
           \/ call'.anim = [call.anim EXCEPT !.blocks = @ \cup {Fresh}]
           \/ call'.anim = [call.anim EXCEPT !.copy = Fresh]
    BY <1>2, <1>4 DEF AnimPcs
  <2>1. call'.pc \in AnimPcs /\ UNCHANGED call.anim.imgs
    BY <1>2, <2>0 DEF AnimFields
  <2>2. ImagesExact(call.anim.imgs)
    BY <1>1 DEF LoadedInv, CallExact
  <2> QED
    BY <1>1, <2>1, <2>2, AnimStaysExact
<1> QED
  BY <1>3, <1>4 DEF AnimMalloc, AnimCalloc, strdup

LEMMA NextImageExact == ASSUME IInv, LoadedInv, NextImage PROVE LoadedInv'
<1>1. call.pc = "anim" /\ call.pc \in AnimPcs /\ UNCHANGED held
  BY DEF NextImage, At, AnimPcs, Keeps
<1> DEFINE anim == [call.anim EXCEPT !.todo = Tail(@)]
           f == Head(call.anim.todo)
<1>2. call' = ImageCall(f, anim)
  BY DEF NextImage
<1>3. anim.imgs = call.anim.imgs
  BY <1>1, AnimState DEF AnimInHand, AnimFields
<1> HIDE DEF anim, f
<1>4. call'.pc = "open" /\ call'.from = <<>> /\ call'.anim = anim
  BY <1>2 DEF ImageCall
<1>5. ImagesExact(call'.anim.imgs)
  BY <1>1, <1>3, <1>4 DEF LoadedInv, CallExact
<1>6. call'.pc \notin SoundPcs /\ call'.pc \notin {"read", "skip"}
  BY <1>4 DEF SoundPcs
<1> QED
  BY <1>1, <1>4, <1>5, <1>6 DEF LoadedInv, CallExact

LEMMA AnimLoadedExact == ASSUME IInv, LoadedInv, AnimLoaded PROVE LoadedInv'
<1>1. call.pc = "anim" /\ call.pc \in AnimPcs
  BY DEF AnimLoaded, At, AnimPcs
<1>2. PICK e : held' = Append(held, e) /\ e.kind = "anim" /\ e.imgs = call.anim.imgs
  BY DEF AnimLoaded
<1>3. ThingExact(e)
  BY <1>1, <1>2 DEF ThingExact, LoadedInv, CallExact
<1>4. call'.pc = "idle"
  BY IdlePc DEF AnimLoaded
<1> QED
  BY <1>2, <1>3, <1>4, HoldsExact, EndExact

LEMMA DrawAnimExact == ASSUME IInv, LoadedInv, DrawAnim PROVE LoadedInv'
<1>1. PICK k \in DOMAIN held, jiffies \in 0 .. MaxTick :
         held' = [held EXCEPT ![k] = Shows(held[k], jiffies)]
  BY DEF DrawAnim
<1> DEFINE e == Shows(held[k], jiffies)
<1>2. e.kind = held[k].kind /\ e.imgs = held[k].imgs
      /\ e.file = held[k].file /\ e.from = held[k].from
      /\ e.tune = held[k].tune /\ e.tones = held[k].tones
  BY DEF Shows
<1>3. held' = [held EXCEPT ![k] = e]
  BY <1>1
<1> HIDE DEF e
<1>4. ThingExact(held[k]) => ThingExact(e)
  BY <1>2 DEF ThingExact, ImageExact, MelodyExact
<1>5. \A j \in DOMAIN held' : ThingExact(held'[j])
  BY <1>3, <1>4 DEF LoadedInv
<1>6. call'.pc = "idle"
  BY DEF DrawAnim, At, Keeps
<1> QED
  BY <1>5, <1>6, EndExact

LEMMA ClearExact == ASSUME IInv, LoadedInv, Clear PROVE LoadedInv'
<1>1. PICK k \in DOMAIN held : held' = RemoveAt(held, k)
  BY DEF Clear
<1>2. IsSequence(held)
  BY DEF IInv
<1> DEFINE D == 1 .. Len(held) - 1
<1>3. PICK g \in [D -> DOMAIN held \ {k}] : \A i \in D : held'[i] = held[g[i]]
  BY <1>1, <1>2, RemoveKeeps
<1>4. DOMAIN held' = D
  BY <1>1, <1>2, RemoveOne
<1> HIDE DEF D
<1>5. \A i \in DOMAIN held' : ThingExact(held'[i])
  BY <1>3, <1>4 DEF LoadedInv
<1>6. call'.pc = "idle"
  BY DEF Clear, At, Keeps
<1> QED
  BY <1>5, <1>6, EndExact

LEMMA SwitchExact ==
    ASSUME IInv, LoadedInv, switch_graphic \/ switch_text
    PROVE  LoadedInv'
<1>1. PICK mode, handler : Switch(mode, handler)
  BY DEF switch_graphic, switch_text
<1>2. call = Idle /\ UNCHANGED held
  BY <1>1, IdleState DEF Switch, At
<1>3. [pc |-> "halted", by |-> blue_screen].pc = "halted"
  OBVIOUS
<1>4. call' = Idle \/ call'.pc = "halted"
  BY <1>1, <1>2, <1>3 DEF Switch
<1> QED
  BY <1>2, <1>4, EndsExact

-----------------------------------------------------------------------------
(* The melodies                                                            *)

LEMMA LoadSoundExact == ASSUME IInv, LoadedInv, LoadSound PROVE LoadedInv'
<1>1. PICK t \in Tunes :
         call' = [pc |-> "sound open", tune |-> t, melody |-> NULL, tones |-> <<>>]
  BY DEF LoadSound
<1>2. /\ call'.pc = "sound open" /\ call'.tune = t /\ call'.tones = <<>>
      /\ call'.pc \in SoundPcs /\ UNCHANGED held
  BY <1>1 DEF SoundPcs, LoadSound, Keeps
<1>3. Len(<<>>) <= Len(mkksf(t))
  <2>1. t.tones \in Seq(Rows(t.tones)) \ {<<>>}
    BY FilesAssumption DEF Rows
  <2>2. Len(mkksf(t)) \in Nat
    BY <2>1 DEF mkksf
  <2>3. Len(<<>>) = 0
    OBVIOUS
  <2> QED
    BY <2>2, <2>3
<1>4. DOMAIN <<>> = {}
  OBVIOUS
<1>5. TonesRead(call')
  BY <1>2, <1>3, <1>4, EmptyHolds DEF TonesRead
<1> QED
  BY <1>2, <1>5, SoundStaysExact

(* The file is opened and its header read, and the melody allocated.       *)
LEMMA SoundHeadExact ==
    ASSUME IInv, LoadedInv, SoundOpen \/ SoundHeader \/ SoundMalloc
    PROVE  LoadedInv'
<1>1. call.pc \in SoundPcs \ {"tones"} /\ call.pc \in SoundPcs /\ UNCHANGED held
  BY DEF SoundOpen, SoundHeader, SoundMalloc, At, SoundPcs, Keeps
<1>2. DOMAIN call = {"pc", "tune", "melody", "tones"}
  BY <1>1, SoundState
<1>3. TonesRead(call) /\ call.tones = <<>>
  BY <1>1 DEF LoadedInv, CallExact
<1>4. CASE call' = Idle
  BY <1>1, <1>4, EndsExact
<1>5. CASE \/ Goto("magic") \/ Goto("melody")
           \/ call' = [call EXCEPT !.pc = "tones", !.melody = Fresh]
  <2>1. call'.pc \in {"magic", "melody", "tones"} /\ UNCHANGED <<call.tune, call.tones>>
    BY <1>2, <1>5 DEF Goto
  <2>2. call'.pc \in SoundPcs
    BY <2>1 DEF SoundPcs
  <2>3. TonesRead(call')
    BY <1>3, <2>1 DEF TonesRead
  <2> QED
    BY <1>1, <1>3, <2>1, <2>2, <2>3, SoundStaysExact
<1> QED
  BY <1>4, <1>5 DEF SoundOpen, SoundHeader, SoundMalloc

(* What mkksf writes: the tones, and the last one again when the text ends *)
(* with a newline.                                                         *)
LEMMA MkksfWrites ==
    ASSUME NEW t \in Tunes
    PROVE  /\ Len(t.tones) \in Nat /\ DOMAIN t.tones = 1 .. Len(t.tones)
           /\ IsSequence(t.tones)
           /\ Len(mkksf(t)) = Len(t.tones) + IF t.newline THEN 1 ELSE 0
           /\ \A j \in 1 .. Len(t.tones) : mkksf(t)[j] = t.tones[j]
<1>1. t.tones \in Seq(Rows(t.tones)) /\ IsSequence(t.tones)
  BY FilesAssumption DEF Rows, IsSequence
<1>2. Len(t.tones) \in Nat /\ DOMAIN t.tones = 1 .. Len(t.tones)
  BY <1>1
<1> DEFINE again == t.tones[Len(t.tones)]
<1>3. CASE t.newline
  <2>1. mkksf(t) = Append(t.tones, again)
    BY <1>3 DEF mkksf
  <2> HIDE DEF again
  <2> QED
    BY <1>1, <1>2, <1>3, <2>1, AppendOne
<1>4. CASE ~t.newline
  <2>1. mkksf(t) = t.tones
    BY <1>4 DEF mkksf
  <2> QED
    BY <1>1, <1>2, <1>4, <2>1
<1> QED
  BY <1>3, <1>4

LEMMA ReadToneExact == ASSUME IInv, LoadedInv, ReadTone PROVE LoadedInv'
<1>1. call.pc = "tones" /\ call.pc \in SoundPcs /\ UNCHANGED held
  BY DEF ReadTone, At, SoundPcs, Keeps
<1> DEFINE file == mkksf(call.tune)
           n == Len(call.tones)
           e == file[n + 1]
           tones == Append(call.tones, e)
<1>2. CASE call' = Idle
  BY <1>1, <1>2, EndsExact
<1>3. CASE call' = [call EXCEPT !.tones = Append(@, e)] /\ n < Len(file)
  <2>1. UNCHANGED <<call.pc, call.tune>> /\ call'.tones = tones
    BY <1>1, <1>3, SoundState
  <2>2. TonesRead(call)
    BY <1>1 DEF LoadedInv, CallExact
  <2>3. /\ IsSequence(call.tones) /\ call.tune \in Tunes
        /\ \A j \in DOMAIN call.tones : call.tones[j] = file[j]
    BY <2>2 DEF TonesRead
  <2>4. Len(file) \in Nat
    BY <2>3, MkksfWrites
  <2>5. /\ IsSequence(tones) /\ Len(tones) = n + 1 /\ DOMAIN call.tones = 1 .. n /\ n \in Nat
        /\ DOMAIN tones = 1 .. n + 1
        /\ \A j \in DOMAIN call.tones : tones[j] = call.tones[j]
        /\ tones[n + 1] = file[n + 1]
    <3> HIDE DEF e
    <3>1. tones[n + 1] = e
      BY <2>3, AppendOne
    <3> QED
      BY <2>3, <3>1, AppendOne DEF e
  <2> HIDE DEF tones, file, n, e
  <2>6. \A j \in DOMAIN tones : tones[j] = file[j]
    BY <2>3, <2>5
  <2>7. Len(tones) <= Len(file)
    BY <1>3, <2>4, <2>5
  <2>8. TonesRead(call')
    BY <2>1, <2>3, <2>5, <2>6, <2>7 DEF TonesRead, file
  <2> QED
    BY <1>1, <2>1, <2>8, SoundStaysExact
<1> QED
  BY <1>2, <1>3 DEF ReadTone

(* Equal as far as one of them goes: that is a prefix.                     *)
LEMMA PrefixOf ==
    ASSUME NEW s, NEW t, IsSequence(s), IsSequence(t), Len(s) <= Len(t),
           \A j \in 1 .. Len(s) : t[j] = s[j]
    PROVE  IsPrefix(s, t)
<1>1. s \in Seq(Rows(s)) /\ t \in Seq(Rows(t)) /\ Len(s) \in Nat /\ Len(t) \in Nat
  BY DEF IsSequence
<1>2. SubSeq(s, 1, Len(s)) = SubSeq(t, 1, Len(s))
  BY <1>1
<1> QED
  BY <1>2 DEF IsPrefix

LEMMA SoundLoadedExact == ASSUME IInv, LoadedInv, SoundLoaded PROVE LoadedInv'
<1>1. call.pc = "tones" /\ call.pc \in SoundPcs
  BY DEF SoundLoaded, At, SoundPcs
<1> DEFINE file == mkksf(call.tune)
           tones == Append(call.tones, "end")
           t == call.tune
<1>2. PICK e : /\ held' = Append(held, e) /\ e.kind = "melody" /\ e.tune = t
               /\ e.tones = tones
  BY DEF SoundLoaded
<1>3. /\ IsSequence(call.tones) /\ t \in Tunes /\ Len(call.tones) = Len(file)
      /\ \A j \in DOMAIN call.tones : call.tones[j] = file[j]
  BY <1>1 DEF LoadedInv, CallExact, TonesRead, SoundLoaded
<1>4. /\ IsSequence(tones) /\ Len(tones) = Len(file) + 1
      /\ DOMAIN call.tones = 1 .. Len(file) /\ Len(file) \in Nat
      /\ \A j \in DOMAIN call.tones : tones[j] = call.tones[j]
      /\ tones[Len(file) + 1] = "end"
  BY <1>3, AppendOne
<1> DEFINE again == IF t.newline THEN 1 ELSE 0
<1>5. /\ Len(t.tones) \in Nat /\ IsSequence(t.tones)
      /\ \A j \in 1 .. Len(t.tones) : file[j] = t.tones[j]
  BY <1>3, MkksfWrites
<1>6. Len(file) = Len(t.tones) + again
  BY <1>3, MkksfWrites
<1> HIDE DEF tones, file, t
<1>7. PICK a \in {0, 1} : a = again /\ a + 1 = IF t.newline THEN 2 ELSE 1
  OBVIOUS
<1> HIDE DEF again
<1>8. Len(tones) = Len(t.tones) + (a + 1) /\ Len(t.tones) <= Len(file)
  <2> DEFINE l == Len(t.tones)
             m == Len(file)
             n == Len(tones)
  <2>1. l \in Nat /\ m = l + a /\ n = m + 1
    BY <1>4, <1>5, <1>6, <1>7
  <2> HIDE DEF l, m, n
  <2>2. n = l + (a + 1) /\ l <= m
    BY <2>1
  <2> QED
    BY <2>2 DEF l, m, n
<1>9. IsPrefix(t.tones, tones)
  <2>1. Len(t.tones) <= Len(tones)
    BY <1>4, <1>5, <1>8
  <2>2. \A j \in 1 .. Len(t.tones) : tones[j] = t.tones[j]
    BY <1>3, <1>4, <1>5, <1>8
  <2>3. IsSequence(tones) /\ IsSequence(t.tones)
    BY <1>4, <1>5
  <2> QED
    BY <2>1, <2>2, <2>3, PrefixOf
<1>10. tones[Len(tones)] = "end"
  BY <1>4
<1>11. MelodyExact(e)
  BY <1>2, <1>7, <1>8, <1>9, <1>10 DEF MelodyExact
<1>12. ThingExact(e)
  BY <1>2, <1>11 DEF ThingExact
<1>13. call'.pc = "idle"
  BY IdlePc DEF SoundLoaded
<1> QED
  BY <1>2, <1>12, <1>13, HoldsExact, EndExact

-----------------------------------------------------------------------------
(* The theorem                                                             *)

LEMMA InitExact == ASSUME Init PROVE LoadedInv
<1>1. call.pc = "idle" /\ DOMAIN held = {}
  BY IdlePc DEF Init
<1> QED
  BY <1>1 DEF LoadedInv, CallExact, ImagePcs, AnimPcs, SoundPcs

LEMMA NextExact ==
    ASSUME IInv, LoadedInv, [Next]_vars
    PROVE  LoadedInv'
<1>1. CASE LoadImage
  BY <1>1, LoadImageExact
<1>2. CASE Open
  BY <1>2, OpenExact
<1>3. CASE ReadHeader
  BY <1>3, ReadHeaderExact
<1>4. CASE MallocImage
  BY <1>4, MallocImageExact
<1>5. CASE CallocData
  BY <1>5, CallocDataExact
<1>6. CASE CallocRow
  BY <1>6, CallocRowExact
<1>7. CASE SeekData
  BY <1>7, SeekDataExact
<1>8. CASE ReadRow
  BY <1>8, ReadRowExact
<1>9. CASE SkipPadding
  BY <1>9, SkipPaddingExact
<1>10. CASE ImageLoaded
  BY <1>10, ImageLoadedExact
<1>11. CASE Err \/ ErrBuf \/ ErrImg
  BY <1>11, ErrorsExact
<1>12. CASE LoadAnim
  BY <1>12, LoadAnimExact
<1>13. CASE AnimMalloc \/ AnimCalloc \/ strdup
  BY <1>13, AnimBlocksExact
<1>14. CASE NextImage
  BY <1>14, NextImageExact
<1>15. CASE AnimLoaded
  BY <1>15, AnimLoadedExact
<1>16. CASE DrawAnim
  BY <1>16, DrawAnimExact
<1>17. CASE LoadSound
  BY <1>17, LoadSoundExact
<1>18. CASE SoundOpen \/ SoundHeader \/ SoundMalloc
  BY <1>18, SoundHeadExact
<1>19. CASE ReadTone
  BY <1>19, ReadToneExact
<1>20. CASE SoundLoaded
  BY <1>20, SoundLoadedExact
<1>21. CASE Clear
  BY <1>21, ClearExact
<1>22. CASE switch_graphic \/ switch_text
  BY <1>22, SwitchExact
<1>23. CASE UNCHANGED vars
  BY <1>23 DEF vars, LoadedInv, CallExact
<1> QED
  BY <1>1, <1>2, <1>3, <1>4, <1>5, <1>6, <1>7, <1>8, <1>9, <1>10, <1>11, <1>12, <1>13, <1>14,
     <1>15, <1>16, <1>17, <1>18, <1>19, <1>20, <1>21, <1>22, <1>23 DEF Next

LEMMA ExactHolds == LoadedInv => LoadedExact
<1> SUFFICES ASSUME LoadedInv
             PROVE  LoadedExact
  OBVIOUS
<1>1. \A x \in Rows(held) : ThingExact(x)
  BY DEF LoadedInv, Rows
<1>2. ASSUME NEW img \in Images
      PROVE  ImageExact(img)
  <2>1. CASE img \in Rows(held) /\ img.kind = "image"
    BY <1>1, <2>1 DEF ThingExact
  <2>2. CASE \E y \in Rows(held) : y.kind = "anim" /\ img \in Rows(y.imgs)
    BY <1>1, <2>2 DEF ThingExact, ImagesExact, Rows
  <2> QED
    BY <2>1, <2>2 DEF Images
<1>3. \A img \in Images :
         /\ Len(img.from) = img.file.height
         /\ img.file.size >= img.file.width * img.file.height =>
              \A i \in DOMAIN img.from :
                  img.from[i] = img.file.offset + (i - 1) * (img.file.size \div img.file.height)
  BY <1>2 DEF ImageExact, LinesOf, Sized, Line
<1>4. \A x \in Rows(held) : x.kind = "melody" => MelodyExact(x)
  BY <1>1 DEF ThingExact
<1> QED
  BY <1>3, <1>4 DEF LoadedExact, MelodyExact

(* For any bitmaps and tunes: an image the program holds has every row     *)
(* from its own line of the file, as far apart as the header says (graphic *)
(* .c:477-492), so the padding of a line is never computed negative where  *)
(* another line follows; a melody has every tone of the text mkksf was     *)
(* given, in order, and the end mark behind them.                          *)
THEOREM LoadsWhatFilesSay == Spec => []LoadedExact
<1>1. Init => IInv /\ LoadedInv
  BY InitEstablishes, InitExact
<1>2. (IInv /\ LoadedInv) /\ [Next]_vars => (IInv /\ LoadedInv)'
  BY NextKeeps, NextExact
<1>3. IInv /\ LoadedInv => LoadedExact
  BY ExactHolds
<1> QED
  BY <1>1, <1>2, <1>3, PTL DEF Spec
=============================================================================
