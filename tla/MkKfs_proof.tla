----------------------------- MODULE MkKfs_proof -----------------------------
(***************************************************************************)
(* The images of mkkfs, for any number of files of any length and any      *)
(* block sizes: where each block goes (Layout), hence that none is         *)
(* overwritten and that a complete image has no hole; that each file reads *)
(* back as it was read (ReadInv); and that an inode's sizes are those of   *)
(* its blocks (SizeInv).                                                   *)
(***************************************************************************)
EXTENDS MkKfs, FiniteSetTheorems, SequenceTheorems, WellFoundedInduction, TLAPS

(* Writing a block adds its number to the image and leaves the others.     *)
LEMMA WriteAdds ==
    ASSUME NEW b, NEW content, kfs_write(b, content)
    PROVE  /\ DOMAIN image' = DOMAIN image \cup {b}
           /\ image'[b] = content
           /\ \A i \in DOMAIN image : i # b => image'[i] = image[i]
  BY DEF kfs_write

LEMMA InitLayout == Init => Layout
  BY SizesAssumption DEF Init, Layout, Files, Running

(* Data and index blocks go to blk_idx, which is then taken.               *)
LEMMA AppendLayout ==
    ASSUME Layout, NEW content, kfs_write(blk_idx, content),
           blk_idx' = blk_idx + 1, UNCHANGED file,
           pc \in {"direct", "indirect"}, pc' \in {"direct", "indirect", "inode"}
    PROVE  /\ Layout'
           /\ \A i \in DOMAIN image : i \in DOMAIN image' /\ image'[i] = image[i]
  <1>1. /\ DOMAIN image' = DOMAIN image \cup {blk_idx}
        /\ \A i \in DOMAIN image : i # blk_idx => image'[i] = image[i]
    BY WriteAdds
  <1>2. /\ file \in Files /\ blk_idx \in Nat /\ blk_idx > NbFiles
        /\ file \in 1 .. NbFiles + 1
        /\ DOMAIN image = (1 .. file - 1) \cup (NbFiles + 1 .. blk_idx - 1)
    BY DEF Layout
  <1>3. blk_idx \notin DOMAIN image
    BY <1>2, SizesAssumption DEF Files
  <1>4. DOMAIN image' = (1 .. file - 1) \cup (NbFiles + 1 .. blk_idx' - 1)
    BY <1>1, <1>2, SizesAssumption DEF Files
  <1>5. Layout'
    BY <1>2, <1>4, SizesAssumption DEF Layout, Running, Files
  <1> QED
    BY <1>1, <1>3, <1>5

(* An inode goes to its file's number, the superblock to 0; both are free. *)
LEMMA InodeLayout ==
    ASSUME Layout, WriteInode
    PROVE  /\ Layout'
           /\ \A i \in DOMAIN image : i \in DOMAIN image' /\ image'[i] = image[i]
  <1>1. /\ DOMAIN image' = DOMAIN image \cup {file}
        /\ \A i \in DOMAIN image : i # file => image'[i] = image[i]
    BY WriteAdds DEF WriteInode
  <1>2. /\ file \in 1 .. NbFiles /\ blk_idx \in Nat /\ blk_idx > NbFiles
        /\ DOMAIN image = (1 .. file - 1) \cup (NbFiles + 1 .. blk_idx - 1)
    BY DEF Layout, WriteInode, Files
  <1>3. file \notin DOMAIN image
    BY <1>2, SizesAssumption
  <1>4. DOMAIN image' = (1 .. file' - 1) \cup (NbFiles + 1 .. blk_idx' - 1)
    BY <1>1, <1>2, SizesAssumption DEF WriteInode
  <1>5. Layout'
    BY <1>2, <1>4, SizesAssumption DEF WriteInode, Layout, Running, Files
  <1> QED
    BY <1>1, <1>3, <1>5

LEMMA SuperblockLayout ==
    ASSUME Layout, WriteSuperblock
    PROVE  /\ Layout'
           /\ \A i \in DOMAIN image : i \in DOMAIN image' /\ image'[i] = image[i]
  <1> DEFINE super == [kind |-> "super", inode_idx |-> 1, inode_cnt |-> NbFiles,
                       blk_cnt |-> blk_idx]
  <1>0. kfs_write(0, super)
    BY DEF WriteSuperblock
  <1>1. /\ DOMAIN image' = DOMAIN image \cup {0}
        /\ image'[0].blk_cnt = blk_idx
        /\ \A i \in DOMAIN image : i # 0 => image'[i] = image[i]
    <2>1. super.blk_cnt = blk_idx
      OBVIOUS
    <2> HIDE DEF super
    <2> QED
      BY <1>0, <2>1, WriteAdds
  <1>2. /\ file = NbFiles + 1 /\ blk_idx \in Nat /\ blk_idx > NbFiles
        /\ DOMAIN image = (1 .. file - 1) \cup (NbFiles + 1 .. blk_idx - 1)
    BY DEF Layout, WriteSuperblock
  <1>3. 0 \notin DOMAIN image
    BY <1>2, SizesAssumption
  <1>4. Layout'
    BY <1>1, <1>2, SizesAssumption DEF WriteSuperblock, Layout, Running, Files
  <1> QED
    BY <1>1, <1>3, <1>4

(* Every step keeps the layout and every block already written.            *)
LEMMA StepLayout ==
    ASSUME Layout, [Next]_vars
    PROVE  /\ Layout'
           /\ \A i \in DOMAIN image : i \in DOMAIN image' /\ image'[i] = image[i]
  <1>1. CASE Open
    BY <1>1, SizesAssumption DEF Open, Layout, Running, Files
  <1>2. CASE DirectBlock
    BY <1>2, AppendLayout DEF DirectBlock, WriteData
  <1>3. CASE DirectDone
    BY <1>3, SizesAssumption DEF DirectDone, Layout, Running, Files
  <1>4. CASE IndirectBlock
    BY <1>4, AppendLayout DEF IndirectBlock, WriteData
  <1>5. CASE IndirectLink
    BY <1>5, AppendLayout DEF IndirectLink
  <1>6. CASE IndirectDone
    BY <1>6, SizesAssumption DEF IndirectDone, Layout, Running, Files
  <1>7. CASE WriteInode
    BY <1>7, InodeLayout
  <1>8. CASE WriteSuperblock
    BY <1>8, SuperblockLayout
  <1>9. CASE Fail
    BY <1>9, SizesAssumption DEF Fail, Layout, Running, Files
  <1>10. CASE Change
    BY <1>10 DEF Change, Layout, Running, Files
  <1>11. CASE UNCHANGED vars
    BY <1>11 DEF vars, Layout, Running, Files
  <1> QED
    BY <1>1, <1>2, <1>3, <1>4, <1>5, <1>6, <1>7, <1>8, <1>9, <1>10, <1>11 DEF Next

(* The blocks are where Layout says.                                       *)
THEOREM LayoutHolds == Spec => []Layout
  <1>1. Layout /\ [Next]_vars => Layout'
    BY StepLayout
  <1> QED
    BY InitLayout, <1>1, PTL DEF Spec

(* mkkfs never writes a block twice: what an inode or an index block       *)
(* refers to stays what it was when its number was taken.                  *)
THEOREM NothingOverwritten == Spec => WriteOnce
  <1>1. Layout /\ [Next]_vars =>
          [\A b \in DOMAIN image : b \in DOMAIN image' /\ image'[b] = image[b]]_vars
    BY StepLayout
  <1> QED
    BY LayoutHolds, <1>1, PTL DEF Spec, WriteOnce

(* An image with a superblock has exactly the blk_cnt blocks it claims.    *)
THEOREM NoHoles == Spec => []Dense
  <1>1. ASSUME Layout, Complete  PROVE DOMAIN image = 0 .. image[0].blk_cnt - 1
    <2>1. pc = "done"
      BY <1>1, SizesAssumption DEF Layout, Complete
    <2>2. /\ file = NbFiles + 1 /\ image[0].blk_cnt = blk_idx
          /\ blk_idx \in Nat /\ blk_idx > NbFiles
          /\ DOMAIN image = (1 .. file - 1) \cup (NbFiles + 1 .. blk_idx - 1) \cup {0}
      BY <1>1, <2>1 DEF Layout
    <2> QED
      BY <2>2, SizesAssumption
  <1>2. Layout => Dense
    BY <1>1 DEF Dense
  <1> QED
    BY LayoutHolds, <1>2, PTL
-----------------------------------------------------------------------------
(* Pieces laid end to end                                                  *)

(* A non-empty set of numbers has a least member.                          *)
LEMMA LeastExists ==
    ASSUME NEW S \in SUBSET Nat, S # {}
    PROVE  \E k \in S : \A j \in S : k <= j
<1> DEFINE T == {0 .. x : x \in S}
<1>1. IsWellFoundedOn(StrictSubsetOrdering(Nat), FiniteSubsetsOf(Nat))
  BY FS_StrictSubsetOrderingWellFounded
<1>2. T \subseteq FiniteSubsetsOf(Nat)
  <2>1. ASSUME NEW x \in S  PROVE IsFiniteSet(0 .. x) /\ 0 .. x \subseteq Nat
    BY FS_Interval
  <2> QED
    BY <2>1 DEF FiniteSubsetsOf
<1>3. PICK I \in T : \A J \in T : ~(<<J, I>> \in StrictSubsetOrdering(Nat))
  <2>1. T # {}
    OBVIOUS
  <2> QED
    BY <1>1, <1>2, <2>1, WFMin
<1>4. PICK i \in S : I = 0 .. i
  OBVIOUS
<1>5. ASSUME NEW j \in S, j < i  PROVE FALSE
  <2>1. 0 .. j \in T /\ 0 .. j \subseteq I /\ 0 .. j # I /\ 0 .. j \subseteq Nat
    BY <1>4, <1>5
  <2>2. <<0 .. j, I>> \in StrictSubsetOrdering(Nat)
    BY <1>4, <2>1 DEF StrictSubsetOrdering
  <2> QED
    BY <1>3, <2>1, <2>2
<1> QED
  BY <1>5

(* Two functions that are the same at a and continue alike end alike.      *)
LEMMA SameFrom ==
    ASSUME NEW a \in Nat, NEW N \in Nat, a <= N, NEW f, NEW g, f[a] = g[a],
           \A i \in a + 1 .. N : f[i - 1] = g[i - 1] => f[i] = g[i]
    PROVE  f[N] = g[N]
  <1> DEFINE Bad == {i \in a .. N : f[i] # g[i]}
  <1>1. ASSUME Bad # {}  PROVE FALSE
    <2>1. Bad \in SUBSET Nat
      OBVIOUS
    <2> HIDE DEF Bad
    <2>2. PICK k \in Bad : \A j \in Bad : k <= j
      BY <1>1, <2>1, LeastExists
    <2>3. k \in a .. N /\ f[k] # g[k]
      BY DEF Bad
    <2>4. k \in a + 1 .. N /\ k - 1 \in a .. N /\ ~(k <= k - 1)
      BY <2>3
    <2>5. f[k - 1] = g[k - 1]
      BY <2>2, <2>4 DEF Bad
    <2> QED
      BY <2>3, <2>4, <2>5
  <1> QED
    BY <1>1

(* g[i] is the first i sequences of s, one behind the other.               *)
Joined(g, s, n, X) ==
    /\ g \in [1 .. n -> Seq(X)]
    /\ \A i \in 1 .. n : g[i] = IF i = 1 THEN s[i] ELSE g[i - 1] \o s[i]

LEMMA JoinedExtends ==
    ASSUME NEW X, NEW n \in Nat, NEW s, NEW g, Joined(g, s, n, X), s[n + 1] \in Seq(X),
           NEW h, h = [i \in 1 .. n + 1 |-> IF i <= n THEN g[i]
                          ELSE IF n = 0 THEN s[n + 1] ELSE g[n] \o s[n + 1]]
    PROVE  Joined(h, s, n + 1, X)
  <1>1. n > 0 => g[n] \in Seq(X) /\ n \in 1 .. n
    BY DEF Joined
  <1>2. n > 0 => g[n] \o s[n + 1] \in Seq(X)
    BY <1>1, ConcatProperties
  <1>3. ASSUME NEW i \in 1 .. n + 1  PROVE h[i] \in Seq(X)
    BY <1>2 DEF Joined
  <1>4. ASSUME NEW i \in 1 .. n + 1
        PROVE  h[i] = IF i = 1 THEN s[i] ELSE h[i - 1] \o s[i]
    <2>1. CASE i <= n
      <3>1. i \in 1 .. n /\ h[i] = g[i]
        BY <2>1
      <3>2. i # 1 => i - 1 \in 1 .. n /\ h[i - 1] = g[i - 1]
        BY <2>1
      <3> QED
        BY <3>1, <3>2 DEF Joined
    <2>2. CASE i > n
      <3>1. i = n + 1 /\ i - 1 = n
        BY <2>2
      <3>2. n > 0 => h[n] = g[n] /\ i # 1
        BY <3>1
      <3>3. h[i] = IF n = 0 THEN s[i] ELSE g[n] \o s[i]
        BY <3>1, <2>2
      <3> QED
        BY <3>1, <3>2, <3>3
    <2> QED
      BY <2>1, <2>2
  <1>5. h \in [1 .. n + 1 -> Seq(X)]
    BY <1>3
  <1> QED
    BY <1>4, <1>5 DEF Joined

LEMMA JoinedExists ==
    ASSUME NEW X, NEW N \in Nat, NEW s, \A i \in 1 .. N : s[i] \in Seq(X)
    PROVE  \E g : Joined(g, s, N, X)
  <1> DEFINE Bad == {n \in 0 .. N : ~\E g : Joined(g, s, n, X)}
  <1>1. ASSUME Bad # {}  PROVE FALSE
    <2>1. Bad \in SUBSET Nat
      OBVIOUS
    <2> HIDE DEF Bad
    <2>2. PICK k \in Bad : \A j \in Bad : k <= j
      BY <1>1, <2>1, LeastExists
    <2>3. k \in 0 .. N /\ ~\E g : Joined(g, s, k, X)
      BY DEF Bad
    <2>4. Joined([i \in 1 .. 0 |-> <<>>], s, 0, X)
      BY DEF Joined
    <2>5. k # 0
      BY <2>3, <2>4
    <2>6. k - 1 \in 0 .. N /\ ~(k <= k - 1) /\ k - 1 \in Nat /\ (k - 1) + 1 = k /\ k \in 1 .. N
      BY <2>3, <2>5
    <2>7. PICK g : Joined(g, s, k - 1, X)
      BY <2>2, <2>6 DEF Bad
    <2>8. \E h : Joined(h, s, (k - 1) + 1, X)
      <3>1. s[(k - 1) + 1] \in Seq(X)
        BY <2>6
      <3> QED
        BY <2>6, <2>7, <3>1, JoinedExtends
    <2> QED
      BY <2>3, <2>6, <2>8
  <1>2. N \in 0 .. N
    OBVIOUS
  <1> QED
    BY <1>1, <1>2

(* FlattenSeq is the last of them.                                         *)
LEMMA FlattenJoins ==
    ASSUME NEW X, NEW s, Len(s) \in Nat \ {0}, NEW g, Joined(g, s, Len(s), X)
    PROVE  FlattenSeq(s) = g[Len(s)]
  <1> DEFINE N == Len(s)
             Flatten(f) == f = [i \in 1 .. N |-> IF i = 1 THEN s[i] ELSE f[i - 1] \o s[i]]
             w == CHOOSE f : Flatten(f)
  <1>1. FlattenSeq(s) = w[N]
    BY DEF FlattenSeq
  <1>2. Flatten(g)
    BY DEF Joined
  <1>3. Flatten(w)
    BY <1>2
  <1> HIDE DEF w
  <1>4. \A i \in 1 .. N : w[i] = IF i = 1 THEN s[i] ELSE w[i - 1] \o s[i]
    BY <1>3
  <1>5. \A i \in 1 .. N : g[i] = IF i = 1 THEN s[i] ELSE g[i - 1] \o s[i]
    BY <1>2
  <1> HIDE DEF Flatten, N
  <1>6. N \in Nat \ {0}
    BY DEF N
  <1>7. w[1] = g[1]
    BY <1>4, <1>5, <1>6
  <1>8. \A i \in 2 .. N : w[i - 1] = g[i - 1] => w[i] = g[i]
    <2>1. \A i \in 2 .. N : i \in 1 .. N /\ i # 1
      BY <1>6
    <2> QED
      BY <1>4, <1>5, <2>1
  <1>9. w[N] = g[N]
    BY <1>6, <1>7, <1>8, SameFrom
  <1> QED
    BY <1>1, <1>9 DEF N

(* Flattening, of sequences of sequences over X.                           *)
LEMMA FlattenNothing == FlattenSeq(<<>>) = <<>>
  BY DEF FlattenSeq

LEMMA FlattenIsSeq ==
    ASSUME NEW X, NEW s \in Seq(Seq(X))
    PROVE  FlattenSeq(s) \in Seq(X)
  <1>1. CASE s = <<>>
    <2>1. <<>> \in Seq(X)
      BY EmptySeq
    <2> QED
      BY <1>1, <2>1, FlattenNothing
  <1>2. CASE s # <<>>
    <2>1. Len(s) \in Nat \ {0} /\ \A i \in 1 .. Len(s) : s[i] \in Seq(X)
      BY <1>2
    <2>2. PICK g : Joined(g, s, Len(s), X)
      BY <2>1, JoinedExists
    <2>3. FlattenSeq(s) = g[Len(s)]
      BY <2>1, <2>2, FlattenJoins
    <2> QED
      BY <2>1, <2>2, <2>3 DEF Joined
  <1> QED
    BY <1>1, <1>2

LEMMA FlattenAppend ==
    ASSUME NEW X, NEW s \in Seq(Seq(X)), NEW x \in Seq(X)
    PROVE  FlattenSeq(Append(s, x)) = FlattenSeq(s) \o x
  <1> DEFINE t == Append(s, x)
             n == Len(s)
  <1>1. /\ t \in Seq(Seq(X)) /\ n \in Nat /\ Len(t) = n + 1 /\ t[n + 1] = x
        /\ \A i \in 1 .. n : t[i] = s[i] /\ s[i] \in Seq(X)
    OBVIOUS
  <1> HIDE DEF t
  <1>2. PICK g : Joined(g, s, n, X)
    BY <1>1, JoinedExists
  <1>3. Joined(g, t, n, X)
    BY <1>1, <1>2 DEF Joined
  <1>4. PICK h : h = [i \in 1 .. n + 1 |-> IF i <= n THEN g[i]
                         ELSE IF n = 0 THEN t[n + 1] ELSE g[n] \o t[n + 1]]
    OBVIOUS
  <1>5. Joined(h, t, n + 1, X)
    BY <1>1, <1>3, <1>4, JoinedExtends
  <1>6. FlattenSeq(t) = h[n + 1]
    BY <1>1, <1>5, FlattenJoins
  <1>7. CASE n = 0
    <2>1. s = <<>> /\ <<>> \o x = x
      BY <1>7
    <2>2. h[n + 1] = x
      BY <1>1, <1>4, <1>7
    <2> QED
      BY <1>6, <2>1, <2>2, FlattenNothing DEF t
  <1>8. CASE n > 0
    <2>1. FlattenSeq(s) = g[n]
      BY <1>1, <1>2, <1>8, FlattenJoins
    <2>2. h[n + 1] = g[n] \o x
      <3>1. n + 1 \in 1 .. n + 1 /\ ~(n + 1 <= n) /\ n # 0 /\ t[n + 1] = x
        BY <1>1, <1>8
      <3> HIDE DEF n
      <3> QED
        BY <1>4, <3>1
    <2> QED
      BY <1>6, <2>1, <2>2 DEF t
  <1> QED
    BY <1>1, <1>7, <1>8

-----------------------------------------------------------------------------
(* What is read back from a set of blocks                                  *)

Byte == Files \X Nat
Bytes(f, a, b) == [k \in 1 .. b - a |-> <<f, a + k - 1>>]

PieceOf(b) == [k \in 1 .. b.usage |-> <<b.of, b.first + k - 1>>]
DataIn(img, blks) == FlattenSeq([i \in DOMAIN blks |-> PieceOf(img[blks[i]])])
IndexIn(img, blks) == FlattenSeq([i \in DOMAIN blks |-> DataIn(img, img[blks[i]].blks)])
EntriesIn(img, blks) == FlattenSeq([i \in DOMAIN blks |-> img[blks[i]].blks])
ContentsIn(img, ino) == DataIn(img, ino.d_blks) \o IndexIn(img, ino.i_blks)

DataBlocks(img, blks) ==
    /\ blks \in Seq(Nat)
    /\ \A i \in DOMAIN blks :
          /\ blks[i] \in DOMAIN img
          /\ img[blks[i]].usage \in Nat /\ img[blks[i]].first \in Nat
          /\ img[blks[i]].of \in Files
IndexBlocks(img, blks) ==
    /\ blks \in Seq(Nat)
    /\ \A i \in DOMAIN blks :
          blks[i] \in DOMAIN img /\ DataBlocks(img, img[blks[i]].blks)
InodeBlocks(img, ino) == DataBlocks(img, ino.d_blks) /\ IndexBlocks(img, ino.i_blks)

InodeFields == [file_sz : Nat, blk_cnt : Nat, next_inode : Nat,
                d_blks : Seq(Nat), i_blks : Seq(Nat)]
NextOf(f) == IF f = NbFiles THEN 0 ELSE f + 1
Filling == {"direct", "indirect", "inode"}

(* The inode in the image gives back the first n bytes of file f.          *)
Holds(img, ino, f, n) ==
    /\ InodeBlocks(img, ino)
    /\ ContentsIn(img, ino) = Bytes(f, 0, n)
    /\ ino.next_inode = NextOf(f)

Fields ==
    /\ offset \in Nat /\ length \in Nat /\ inode \in InodeFields
    /\ taken \in [Files -> Nat] /\ iblock \in Seq(Nat)
    /\ pc \in {"open", "direct", "inode"} => iblock = <<>>
    /\ pc = "direct" => inode.i_blks = <<>>
    /\ \A f \in Files : f > file \/ (f = file /\ pc = "open") => taken[f] = 0

(* What was read of the open file is in the blocks it has so far.          *)
Underway ==
    pc \in Filling =>
        /\ InodeBlocks(image, inode) /\ DataBlocks(image, iblock)
        /\ ContentsIn(image, inode) \o DataIn(image, iblock) = Bytes(file, 0, offset)
        /\ inode.next_inode = NextOf(file)
        /\ taken[file] = offset

Written == \A f \in 1 .. file - 1 : Holds(image, image[f].inode, f, taken[f])

ReadInv ==
    /\ Layout /\ Fields /\ Underway /\ Written
    /\ pc = "done" => image[0].inode_idx = 1

(* How many blocks the open file has, and how far they reach into it.      *)
Count(img, ino) == Len(ino.d_blks) + Len(EntriesIn(img, ino.i_blks))
Soundly(n) ==
    /\ offset <= length /\ length <= MaxFileSize
    /\ inode.file_sz = length /\ inode.blk_cnt = BlkCnt(length)
    /\ IF offset < length THEN offset = n * DataSize ELSE n = BlkCnt(length)

Full ==
    /\ Len(inode.d_blks) <= Direct /\ Len(inode.i_blks) <= Indirect
    /\ Len(iblock) <= IndirectCnt
    /\ offset < length /\ pc = "inode" => Len(inode.i_blks) = Indirect
    /\ pc = "indirect" => Len(inode.i_blks) < Indirect
    /\ offset < length =>
         /\ pc # "direct" => Len(inode.d_blks) = Direct
         /\ Len(EntriesIn(image, inode.i_blks)) = Len(inode.i_blks) * IndirectCnt

SizesUnderway ==
    pc \in Filling /\ file \notin changed =>
        Full /\ Soundly(Count(image, inode) + Len(iblock))

SizesWritten ==
    \A f \in 1 .. file - 1 : f \notin changed =>
        /\ image[f].inode.file_sz = taken[f]
        /\ image[f].inode.blk_cnt = Count(image, image[f].inode)

LEMMA PieceIsSeq ==
    ASSUME NEW b, b.usage \in Nat, b.first \in Nat, b.of \in Files
    PROVE  PieceOf(b) \in Seq(Byte) /\ Len(PieceOf(b)) = b.usage
  <1>1. \A k \in 1 .. b.usage : <<b.of, b.first + k - 1>> \in Byte
    <2>1. \A k \in 1 .. b.usage : b.first + k - 1 \in Nat
      OBVIOUS
    <2> QED
      BY <2>1 DEF Byte
  <1> QED
    BY <1>1 DEF PieceOf

(* Two sequences, one behind the other.                                    *)
Follows(s, t, u, a, n) ==
    /\ a \in Nat /\ n \in Nat /\ Len(s) = a /\ Len(t) = n /\ Len(u) = a + n
    /\ \A k \in 1 .. a : u[k] = s[k]
    /\ \A k \in 1 .. n : u[a + k] = t[k]

LEMMA ConcatIs ==
    ASSUME NEW X, NEW s \in Seq(X), NEW t \in Seq(X), NEW u \in Seq(X),
           NEW a, NEW n, Follows(s, t, u, a, n)
    PROVE  s \o t = u
  <1>0. /\ a \in Nat /\ n \in Nat /\ Len(s) = a /\ Len(t) = n /\ Len(u) = a + n
        /\ \A k \in 1 .. a : u[k] = s[k]
        /\ \A k \in 1 .. n : u[a + k] = t[k]
    BY DEF Follows
  <1>1. s \o t \in Seq(X) /\ Len(s \o t) = a + n
    BY <1>0, ConcatProperties
  <1>2. ASSUME NEW k \in 1 .. a + n  PROVE (s \o t)[k] = u[k]
    <2>1. CASE k <= a
      <3>1. k \in 1 .. a
        BY <1>0, <2>1
      <3> QED
        BY <1>0, <3>1, ConcatProperties
    <2>2. CASE k > a
      <3>1. k - a \in 1 .. n /\ a + (k - a) = k
        BY <1>0, <2>2
      <3>2. (s \o t)[k] = t[k - a]
        <4>1. \A i \in 1 .. Len(s) + Len(t) :
                 (s \o t)[i] = IF i <= Len(s) THEN s[i] ELSE t[i - Len(s)]
          BY <1>0, ConcatProperties
        <4>2. k \in 1 .. Len(s) + Len(t) /\ ~(k <= Len(s)) /\ k - a = k - Len(s)
          BY <1>0, <2>2
        <4>3. (s \o t)[k] = IF k <= Len(s) THEN s[k] ELSE t[k - Len(s)]
          BY <4>1, <4>2
        <4> QED
          BY <4>2, <4>3
      <3> QED
        BY <1>0, <3>1, <3>2
    <2> QED
      BY <1>0, <2>1, <2>2
  <1> QED
    BY <1>0, <1>1, <1>2, SeqEqual

LEMMA BytesAre ==
    ASSUME NEW f \in Files, NEW a \in Nat
    PROVE  /\ Bytes(f, 0, a) \in Seq(Byte) /\ Len(Bytes(f, 0, a)) = a
           /\ \A k \in 1 .. a : Bytes(f, 0, a)[k] = <<f, k - 1>>
  BY DEF Bytes, Byte

(* The bytes up to a, and the piece that follows.                          *)
LEMMA BytesJoin ==
    ASSUME NEW f \in Files, NEW a \in Nat, NEW b, b.usage \in Nat, b.first = a, b.of = f
    PROVE  Bytes(f, 0, a) \o PieceOf(b) = Bytes(f, 0, a + b.usage)
  <1>1. PICK n \in Nat : n = b.usage
    OBVIOUS
  <1>2. PICK m \in Nat : m = a + n
    BY <1>1
  <1>3. /\ PieceOf(b) \in Seq(Byte) /\ Len(PieceOf(b)) = n
        /\ \A k \in 1 .. n : PieceOf(b)[k] = <<f, a + k - 1>>
    BY <1>1, PieceIsSeq DEF PieceOf
  <1>4. /\ Bytes(f, 0, m) \in Seq(Byte) /\ Len(Bytes(f, 0, m)) = m
        /\ \A k \in 1 .. m : Bytes(f, 0, m)[k] = <<f, k - 1>>
    BY <1>2, BytesAre
  <1>5. /\ Bytes(f, 0, a) \in Seq(Byte) /\ Len(Bytes(f, 0, a)) = a
        /\ \A k \in 1 .. a : Bytes(f, 0, a)[k] = <<f, k - 1>>
    BY BytesAre
  <1>6. /\ \A k \in 1 .. a : k \in 1 .. m
        /\ \A k \in 1 .. n : a + k \in 1 .. m
    BY <1>1, <1>2
  <1>7. \A k \in 1 .. a : Bytes(f, 0, m)[k] = Bytes(f, 0, a)[k]
    BY <1>4, <1>5, <1>6
  <1>8. ASSUME NEW k \in 1 .. n  PROVE Bytes(f, 0, m)[a + k] = PieceOf(b)[k]
    <2>1. Bytes(f, 0, m)[a + k] = <<f, (a + k) - 1>>
      BY <1>4, <1>6
    <2>2. PieceOf(b)[k] = <<f, (a + k) - 1>>
      BY <1>3
    <2> QED
      BY <2>1, <2>2
  <1>9. Len(Bytes(f, 0, m)) = a + n
    BY <1>2, <1>4
  <1>10. Bytes(f, 0, a) \o PieceOf(b) = Bytes(f, 0, m)
    <2>1. PICK s \in Seq(Byte) : s = Bytes(f, 0, a)
      BY <1>5
    <2>2. PICK t \in Seq(Byte) : t = PieceOf(b)
      BY <1>3
    <2>3. PICK u \in Seq(Byte) : u = Bytes(f, 0, m)
      BY <1>4
    <2>4. Follows(s, t, u, a, n)
      BY <1>1, <1>3, <1>5, <1>7, <1>8, <1>9, <2>1, <2>2, <2>3 DEF Follows
    <2>5. s \o t = u
      BY <2>1, <2>2, <2>3, <2>4, ConcatIs
    <2> QED
      BY <2>1, <2>2, <2>3, <2>5
  <1> QED
    BY <1>1, <1>2, <1>10

LEMMA NothingRead ==
    ASSUME NEW img
    PROVE  /\ DataBlocks(img, <<>>) /\ DataIn(img, <<>>) = <<>>
           /\ IndexBlocks(img, <<>>) /\ IndexIn(img, <<>>) = <<>>
           /\ EntriesIn(img, <<>>) = <<>>
  <1>1. <<>> \in Seq(Nat) /\ DOMAIN <<>> = {}
    BY EmptySeq
  <1>2. /\ [i \in DOMAIN <<>> |-> PieceOf(img[<<>>[i]])] = <<>>
        /\ [i \in DOMAIN <<>> |-> DataIn(img, img[<<>>[i]].blks)] = <<>>
        /\ [i \in DOMAIN <<>> |-> img[<<>>[i]].blks] = <<>>
    BY <1>1
  <1> QED
    BY <1>1, <1>2, FlattenNothing DEF DataBlocks, IndexBlocks, DataIn, IndexIn, EntriesIn

(* Blocks taken one behind the other, each as F has it.                    *)
Through(F, blks) == FlattenSeq([i \in DOMAIN blks |-> F[blks[i]]])

LEMMA ThroughIsSeq ==
    ASSUME NEW X, NEW F, NEW blks \in Seq(Nat), \A i \in DOMAIN blks : F[blks[i]] \in Seq(X)
    PROVE  /\ [i \in DOMAIN blks |-> F[blks[i]]] \in Seq(Seq(X))
           /\ Through(F, blks) \in Seq(X)
  <1>1. Len(blks) \in Nat /\ DOMAIN blks = 1 .. Len(blks)
    OBVIOUS
  <1>2. [i \in DOMAIN blks |-> F[blks[i]]] \in Seq(Seq(X))
    BY <1>1
  <1> QED
    BY <1>2, FlattenIsSeq DEF Through

LEMMA ThroughAppend ==
    ASSUME NEW X, NEW F, NEW blks \in Seq(Nat), \A i \in DOMAIN blks : F[blks[i]] \in Seq(X),
           NEW b \in Nat, F[b] \in Seq(X)
    PROVE  Through(F, Append(blks, b)) = Through(F, blks) \o F[b]
  <1> DEFINE t == Append(blks, b)
             s == [i \in DOMAIN blks |-> F[blks[i]]]
             u == [i \in DOMAIN t |-> F[t[i]]]
             n == Len(blks)
  <1>1. /\ t \in Seq(Nat) /\ DOMAIN t = 1 .. n + 1 /\ t[n + 1] = b
        /\ DOMAIN blks = 1 .. n /\ n \in Nat
        /\ \A i \in 1 .. n : t[i] = blks[i]
    OBVIOUS
  <1> HIDE DEF t, n
  <1>2. s \in Seq(Seq(X)) /\ Len(s) = n /\ \A i \in 1 .. n : s[i] = F[blks[i]]
    <2>1. s \in Seq(Seq(X))
      BY ThroughIsSeq
    <2>2. DOMAIN s = 1 .. n /\ \A i \in 1 .. n : s[i] = F[blks[i]]
      BY <1>1
    <2> HIDE DEF s
    <2> QED
      BY <1>1, <2>1, <2>2
  <1>3. u \in Seq(Seq(X)) /\ Len(u) = n + 1 /\ \A i \in 1 .. n + 1 : u[i] = F[t[i]]
    <2>1. \A i \in DOMAIN t : F[t[i]] \in Seq(X)
      <3>1. ASSUME NEW i \in 1 .. n + 1  PROVE F[t[i]] \in Seq(X)
        <4>1. i = n + 1 \/ i \in 1 .. n
          BY <1>1
        <4> QED
          BY <1>1, <4>1
      <3> QED
        BY <1>1, <3>1
    <2>2. u \in Seq(Seq(X))
      BY <1>1, <2>1, ThroughIsSeq
    <2>3. DOMAIN u = 1 .. n + 1 /\ \A i \in 1 .. n + 1 : u[i] = F[t[i]]
      BY <1>1
    <2> HIDE DEF u
    <2> QED
      BY <1>1, <2>2, <2>3
  <1> HIDE DEF s, u
  <1>4. u = Append(s, F[b])
    <2>1. /\ Append(s, F[b]) \in Seq(Seq(X)) /\ Len(Append(s, F[b])) = n + 1
          /\ \A i \in 1 .. n : Append(s, F[b])[i] = s[i]
          /\ Append(s, F[b])[n + 1] = F[b]
      BY <1>1, <1>2, AppendProperties
    <2>2. \A i \in 1 .. n + 1 : i \in 1 .. n \/ i = n + 1
      BY <1>1
    <2>3. ASSUME NEW i \in 1 .. n + 1  PROVE u[i] = Append(s, F[b])[i]
      <3>1. CASE i = n + 1
        BY <1>1, <1>3, <2>1, <3>1
      <3>2. CASE i \in 1 .. n
        <4>1. u[i] = F[blks[i]] /\ Append(s, F[b])[i] = F[blks[i]]
          BY <1>1, <1>2, <1>3, <2>1, <3>2
        <4> QED
          BY <4>1
      <3> QED
        BY <2>2, <3>1, <3>2
    <2> QED
      BY <1>3, <2>1, <2>3, SeqEqual
  <1>5. FlattenSeq(u) = FlattenSeq(s) \o F[b]
    BY <1>2, <1>4, FlattenAppend
  <1> QED
    BY <1>5 DEF Through, s, t, u

LEMMA ThroughFrame ==
    ASSUME NEW F, NEW G, NEW blks, \A i \in DOMAIN blks : F[blks[i]] = G[blks[i]]
    PROVE  Through(F, blks) = Through(G, blks)
  <1>1. [i \in DOMAIN blks |-> F[blks[i]]] = [i \in DOMAIN blks |-> G[blks[i]]]
    OBVIOUS
  <1> QED
    BY <1>1 DEF Through

(* The three readings of an image are of that kind.                        *)
Pieces(img) == [c \in DOMAIN img |-> PieceOf(img[c])]
Indexed(img) == [c \in DOMAIN img |-> DataIn(img, img[c].blks)]
Entries(img) == [c \in DOMAIN img |-> img[c].blks]

LEMMA DataThrough ==
    ASSUME NEW img, NEW blks, DataBlocks(img, blks)
    PROVE  /\ blks \in Seq(Nat) /\ DataIn(img, blks) = Through(Pieces(img), blks)
           /\ \A i \in DOMAIN blks : Pieces(img)[blks[i]] \in Seq(Byte)
           /\ DataIn(img, blks) \in Seq(Byte)
  <1>1. blks \in Seq(Nat)
    BY DEF DataBlocks
  <1>2. ASSUME NEW i \in DOMAIN blks
        PROVE  /\ Pieces(img)[blks[i]] = PieceOf(img[blks[i]])
               /\ Pieces(img)[blks[i]] \in Seq(Byte)
    BY <1>2, PieceIsSeq DEF DataBlocks, Pieces
  <1>3. [i \in DOMAIN blks |-> PieceOf(img[blks[i]])]
            = [i \in DOMAIN blks |-> Pieces(img)[blks[i]]]
    BY <1>2
  <1>4. DataIn(img, blks) = Through(Pieces(img), blks)
    BY <1>3 DEF DataIn, Through
  <1>5. Through(Pieces(img), blks) \in Seq(Byte)
    BY <1>1, <1>2, ThroughIsSeq
  <1> QED
    BY <1>1, <1>2, <1>4, <1>5

LEMMA IndexThrough ==
    ASSUME NEW img, NEW blks, IndexBlocks(img, blks)
    PROVE  /\ blks \in Seq(Nat)
           /\ IndexIn(img, blks) = Through(Indexed(img), blks)
           /\ EntriesIn(img, blks) = Through(Entries(img), blks)
           /\ \A i \in DOMAIN blks : /\ Indexed(img)[blks[i]] \in Seq(Byte)
                                     /\ Entries(img)[blks[i]] \in Seq(Nat)
           /\ IndexIn(img, blks) \in Seq(Byte) /\ EntriesIn(img, blks) \in Seq(Nat)
  <1>1. blks \in Seq(Nat)
    BY DEF IndexBlocks
  <1>2. ASSUME NEW i \in DOMAIN blks
        PROVE  /\ Indexed(img)[blks[i]] = DataIn(img, img[blks[i]].blks)
               /\ Entries(img)[blks[i]] = img[blks[i]].blks
               /\ Indexed(img)[blks[i]] \in Seq(Byte) /\ Entries(img)[blks[i]] \in Seq(Nat)
    BY <1>2, DataThrough DEF IndexBlocks, Indexed, Entries
  <1>3. /\ [i \in DOMAIN blks |-> DataIn(img, img[blks[i]].blks)]
               = [i \in DOMAIN blks |-> Indexed(img)[blks[i]]]
        /\ [i \in DOMAIN blks |-> img[blks[i]].blks]
               = [i \in DOMAIN blks |-> Entries(img)[blks[i]]]
    BY <1>2
  <1>4. /\ IndexIn(img, blks) = Through(Indexed(img), blks)
        /\ EntriesIn(img, blks) = Through(Entries(img), blks)
    BY <1>3 DEF IndexIn, EntriesIn, Through
  <1>5. Through(Indexed(img), blks) \in Seq(Byte) /\ Through(Entries(img), blks) \in Seq(Nat)
    BY <1>1, <1>2, ThroughIsSeq
  <1> QED
    BY <1>1, <1>2, <1>4, <1>5

LEMMA ContentsAreBytes ==
    ASSUME NEW img, NEW ino, InodeBlocks(img, ino)
    PROVE  ContentsIn(img, ino) \in Seq(Byte)
  <1>1. DataIn(img, ino.d_blks) \in Seq(Byte) /\ IndexIn(img, ino.i_blks) \in Seq(Byte)
    BY DataThrough, IndexThrough DEF InodeBlocks
  <1> QED
    BY <1>1, ConcatProperties DEF ContentsIn

(* A sequence of blocks with one more.                                     *)
LEMMA AppendedIs ==
    ASSUME NEW blks \in Seq(Nat), NEW b \in Nat
    PROVE  /\ Append(blks, b) \in Seq(Nat) /\ Len(Append(blks, b)) = Len(blks) + 1
           /\ \A i \in DOMAIN Append(blks, b) :
                 \/ Append(blks, b)[i] = b
                 \/ i \in DOMAIN blks /\ Append(blks, b)[i] = blks[i]
  <1>1. \A i \in 1 .. Len(blks) + 1 : i = Len(blks) + 1 \/ i \in 1 .. Len(blks)
    OBVIOUS
  <1> QED
    BY <1>1

LEMMA DataAppend ==
    ASSUME NEW img, NEW blks, DataBlocks(img, blks), NEW b \in Nat, b \in DOMAIN img,
           img[b].usage \in Nat, img[b].first \in Nat, img[b].of \in Files
    PROVE  /\ DataBlocks(img, Append(blks, b))
           /\ DataIn(img, Append(blks, b)) = DataIn(img, blks) \o PieceOf(img[b])
  <1>1. blks \in Seq(Nat) /\ Pieces(img)[b] = PieceOf(img[b])
    BY DEF DataBlocks, Pieces
  <1>2. DataBlocks(img, Append(blks, b))
    BY <1>1, AppendedIs DEF DataBlocks
  <1>3. /\ Pieces(img)[b] \in Seq(Byte)
        /\ \A i \in DOMAIN blks : Pieces(img)[blks[i]] \in Seq(Byte)
    BY <1>1, PieceIsSeq, DataThrough
  <1>4. Through(Pieces(img), Append(blks, b)) = Through(Pieces(img), blks) \o Pieces(img)[b]
    BY <1>1, <1>3, ThroughAppend
  <1> QED
    BY <1>1, <1>2, <1>4, DataThrough

LEMMA IndexAppend ==
    ASSUME NEW img, NEW blks, IndexBlocks(img, blks), NEW b \in Nat, b \in DOMAIN img,
           DataBlocks(img, img[b].blks)
    PROVE  /\ IndexBlocks(img, Append(blks, b))
           /\ IndexIn(img, Append(blks, b)) = IndexIn(img, blks) \o DataIn(img, img[b].blks)
           /\ EntriesIn(img, Append(blks, b)) = EntriesIn(img, blks) \o img[b].blks
  <1>1. /\ blks \in Seq(Nat) /\ Indexed(img)[b] = DataIn(img, img[b].blks)
        /\ Entries(img)[b] = img[b].blks
    BY DEF IndexBlocks, Indexed, Entries
  <1>2. IndexBlocks(img, Append(blks, b))
    BY <1>1, AppendedIs DEF IndexBlocks
  <1>3. /\ Indexed(img)[b] \in Seq(Byte) /\ Entries(img)[b] \in Seq(Nat)
        /\ \A i \in DOMAIN blks : Indexed(img)[blks[i]] \in Seq(Byte)
        /\ \A i \in DOMAIN blks : Entries(img)[blks[i]] \in Seq(Nat)
    BY <1>1, DataThrough, IndexThrough
  <1> PICK F : F = Indexed(img)
    OBVIOUS
  <1> PICK G : G = Entries(img)
    OBVIOUS
  <1>4. Through(F, Append(blks, b)) = Through(F, blks) \o F[b]
    BY <1>1, <1>3, ThroughAppend
  <1>5. Through(G, Append(blks, b)) = Through(G, blks) \o G[b]
    BY <1>1, <1>3, ThroughAppend
  <1> QED
    BY <1>1, <1>2, <1>4, <1>5, IndexThrough

(* Blocks that stay as they are read as before.                            *)
Extends(img, old) == \A b \in DOMAIN old : b \in DOMAIN img /\ img[b] = old[b]

LEMMA DataKept ==
    ASSUME NEW old, NEW img, Extends(img, old), NEW blks, DataBlocks(old, blks)
    PROVE  DataBlocks(img, blks) /\ DataIn(img, blks) = DataIn(old, blks)
  <1>1. DataBlocks(img, blks)
    BY DEF Extends, DataBlocks
  <1>2. \A i \in DOMAIN blks : Pieces(img)[blks[i]] = Pieces(old)[blks[i]]
    BY DEF Extends, DataBlocks, Pieces
  <1> QED
    BY <1>1, <1>2, DataThrough, ThroughFrame

LEMMA IndexKept ==
    ASSUME NEW old, NEW img, Extends(img, old), NEW blks, IndexBlocks(old, blks)
    PROVE  /\ IndexBlocks(img, blks) /\ IndexIn(img, blks) = IndexIn(old, blks)
           /\ EntriesIn(img, blks) = EntriesIn(old, blks)
  <1>1. ASSUME NEW i \in DOMAIN blks
        PROVE  /\ blks[i] \in DOMAIN img /\ blks[i] \in DOMAIN old
               /\ img[blks[i]].blks = old[blks[i]].blks
               /\ DataBlocks(img, img[blks[i]].blks)
               /\ DataIn(img, img[blks[i]].blks) = DataIn(old, old[blks[i]].blks)
    BY <1>1, DataKept DEF Extends, IndexBlocks
  <1>2. IndexBlocks(img, blks)
    BY <1>1 DEF IndexBlocks
  <1>3. \A i \in DOMAIN blks : /\ Indexed(img)[blks[i]] = Indexed(old)[blks[i]]
                               /\ Entries(img)[blks[i]] = Entries(old)[blks[i]]
    BY <1>1 DEF Indexed, Entries
  <1> QED
    BY <1>2, <1>3, IndexThrough, ThroughFrame

LEMMA HoldsKept ==
    ASSUME NEW old, NEW img, Extends(img, old), NEW ino, InodeBlocks(old, ino)
    PROVE  /\ InodeBlocks(img, ino) /\ ContentsIn(img, ino) = ContentsIn(old, ino)
           /\ Count(img, ino) = Count(old, ino)
           /\ \A f, n : Holds(old, ino, f, n) => Holds(img, ino, f, n)
  <1>1. /\ DataBlocks(img, ino.d_blks) /\ DataIn(img, ino.d_blks) = DataIn(old, ino.d_blks)
        /\ IndexBlocks(img, ino.i_blks) /\ IndexIn(img, ino.i_blks) = IndexIn(old, ino.i_blks)
        /\ EntriesIn(img, ino.i_blks) = EntriesIn(old, ino.i_blks)
    BY DataKept, IndexKept DEF InodeBlocks
  <1>2. InodeBlocks(img, ino) /\ ContentsIn(img, ino) = ContentsIn(old, ino)
    BY <1>1 DEF InodeBlocks, ContentsIn
  <1>3. Count(img, ino) = Count(old, ino)
    BY <1>1 DEF Count
  <1> QED
    BY <1>2, <1>3 DEF Holds

-----------------------------------------------------------------------------
(* What was read of each file can be read back                             *)

LEMMA Sizes ==
    /\ NbFiles \in Nat \ {0} /\ Direct \in Nat \ {0} /\ Indirect \in Nat \ {0}
    /\ IndirectCnt \in Nat \ {0} /\ DataSize \in Nat \ {0} /\ MaxLength \in Nat
  BY SizesAssumption

LEMMA Quotient ==
    ASSUME NEW d \in Nat \ {0}, NEW a \in Nat, NEW q \in Nat, q * d <= a, a < (q + 1) * d
    PROVE  a \div d = q
  OBVIOUS

(* n blocks of DataSize hold a file exactly when one less does not.        *)
LEMMA BlkCntIs ==
    ASSUME NEW size \in Nat
    PROVE  /\ BlkCnt(size) \in Nat
           /\ \A n \in Nat : /\ n * DataSize < size /\ size <= n * DataSize + DataSize
                                   => BlkCnt(size) = n + 1
           /\ size = 0 => BlkCnt(size) = 0
  <1>1. PICK d \in Nat \ {0} : d = DataSize
    BY Sizes
  <1>2. BlkCnt(size) = (size + d - 1) \div d /\ size + d - 1 \in Nat
    BY <1>1 DEF BlkCnt
  <1>3. (size + d - 1) \div d \in Nat
    BY <1>2
  <1>4. ASSUME NEW n \in Nat, n * d < size, size <= n * d + d
        PROVE  (size + d - 1) \div d = n + 1
    <2>1. n * d \in Nat /\ (n + 1) * d = n * d + d /\ (n + 1 + 1) * d = n * d + d + d
      OBVIOUS
    <2>2. (n + 1) * d <= size + d - 1 /\ size + d - 1 < (n + 1 + 1) * d
      BY <1>4, <2>1
    <2>3. PICK q \in Nat, a \in Nat : q = n + 1 /\ a = size + d - 1
      BY <1>2
    <2>4. a \div d = q
      BY <2>2, <2>3, Quotient
    <2> QED
      BY <2>3, <2>4
  <1>5. size = 0 => (size + d - 1) \div d = 0
    <2>1. 0 * d = 0 /\ (0 + 1) * d = d
      OBVIOUS
    <2> QED
      BY <2>1, Quotient
  <1> QED
    BY <1>1, <1>2, <1>3, <1>4, <1>5

LEMMA StepExtends ==
    ASSUME Layout, [Next]_vars
    PROVE  Layout' /\ Extends(image', image)
  BY StepLayout DEF Extends

LEMMA InitReading == Init => ReadInv
  <1> SUFFICES ASSUME Init PROVE ReadInv
    OBVIOUS
  <1>1. Layout /\ pc = "open" /\ file = 1 /\ 1 .. file - 1 = {}
    BY InitLayout DEF Init
  <1>2. <<>> \in Seq(Nat)
    BY EmptySeq
  <1>3. Fields
    BY <1>1, <1>2 DEF Init, Fields, InodeFields, EmptyInode
  <1>4. Underway /\ Written
    BY <1>1 DEF Underway, Written, Filling
  <1> QED
    BY <1>1, <1>3, <1>4 DEF ReadInv

(* The inodes written stay, and what they lead to.                         *)
LEMMA WrittenKept ==
    ASSUME Layout, Written, Extends(image', image), UNCHANGED file,
           \A f \in 1 .. file - 1 : taken'[f] = taken[f]
    PROVE  Written'
  <1>1. ASSUME NEW f \in 1 .. file - 1
        PROVE  Holds(image', image'[f].inode, f, taken'[f])
    <2>1. f \in DOMAIN image
      BY Sizes DEF Layout
    <2>2. image'[f].inode = image[f].inode
      BY <2>1 DEF Extends
    <2>3. Holds(image, image[f].inode, f, taken[f])
      BY DEF Written
    <2>4. Holds(image', image[f].inode, f, taken[f])
      BY <2>3, HoldsKept DEF Holds
    <2> QED
      BY <2>2, <2>4
  <1> QED
    BY <1>1 DEF Written

(* A step that writes nothing of the open file.                            *)
LEMMA UnderwayKept ==
    ASSUME Underway, pc \in Filling, Extends(image', image),
           UNCHANGED <<file, offset, inode, iblock, taken>>
    PROVE  Underway'
  <1>1. /\ InodeBlocks(image', inode) /\ ContentsIn(image', inode) = ContentsIn(image, inode)
        /\ DataBlocks(image', iblock) /\ DataIn(image', iblock) = DataIn(image, iblock)
    BY HoldsKept, DataKept DEF Underway
  <1> QED
    BY <1>1 DEF Underway

(* kfs_read_block, kfs_write: a block holds the bytes that follow.         *)
LEMMA WriteDataEffect ==
    ASSUME Layout, Fields, Underway, pc \in {"direct", "indirect"}, WriteData
    PROVE  /\ file \in Files /\ blk_idx \in Nat /\ blk_idx \in DOMAIN image'
           /\ image'[blk_idx].usage \in Nat /\ image'[blk_idx].first \in Nat
           /\ image'[blk_idx].of \in Files
           /\ Bytes(file, 0, offset) \o PieceOf(image'[blk_idx]) = Bytes(file, 0, offset')
           /\ Extends(image', image) /\ offset' \in Nat /\ UNCHANGED <<pc, file, length>>
           /\ taken' \in [Files -> Nat] /\ taken'[file] = offset'
           /\ \A f \in Files : f # file => taken'[f] = taken[f]
           /\ ReadSize \in Nat /\ ReadSize > 0 /\ offset' = offset + ReadSize
  <1>1. ReadSize \in Nat /\ ReadSize > 0
    BY Sizes DEF WriteData, Eof, ReadSize, Remaining, Fields
  <1>2. /\ file \in Files /\ blk_idx \in Nat /\ offset \in Nat
        /\ taken \in [Files -> Nat] /\ taken[file] = offset
    BY DEF Layout, Fields, Underway, Filling
  <1>3. /\ kfs_write(blk_idx, DataBlock) /\ blk_idx' = blk_idx + 1
        /\ offset' = offset + ReadSize
        /\ taken' = [taken EXCEPT ![file] = taken[file] + ReadSize]
        /\ UNCHANGED <<length, changed, pc, file>>
    BY DEF WriteData
  <1>4. Extends(image', image)
    BY <1>3, AppendLayout DEF Extends
  <1>5. blk_idx \in DOMAIN image' /\ image'[blk_idx] = DataBlock
    BY <1>3, WriteAdds
  <1>6. DataBlock.usage = ReadSize /\ DataBlock.first = offset /\ DataBlock.of = file
    BY DEF DataBlock
  <1>7. Bytes(file, 0, offset) \o PieceOf(DataBlock) = Bytes(file, 0, offset + ReadSize)
    BY <1>1, <1>2, <1>6, BytesJoin
  <1> HIDE DEF WriteData
  <1>8. taken' \in [Files -> Nat] /\ taken'[file] = offset + ReadSize
    BY <1>1, <1>2, <1>3
  <1>9. \A f \in Files : f # file => taken'[f] = taken[f]
    BY <1>2, <1>3
  <1>10. offset + ReadSize \in Nat
    BY <1>1, <1>2
  <1> QED
    BY <1>1, <1>2, <1>3, <1>4, <1>5, <1>6, <1>7, <1>8, <1>9, <1>10

LEMMA NotBefore ==
    ASSUME Layout, file \in Files
    PROVE  \A f \in 1 .. file - 1 : f \in Files /\ f # file
  BY Sizes DEF Files

LEMMA DirectReading ==
    ASSUME ReadInv, DirectBlock
    PROVE  Fields' /\ Underway' /\ Written'
  <1>1. /\ pc = "direct" /\ WriteData
        /\ inode' = [inode EXCEPT !.d_blks = Append(inode.d_blks, blk_idx)]
        /\ UNCHANGED iblock /\ iblock = <<>> /\ inode.i_blks = <<>>
    BY DEF DirectBlock, ReadInv, Fields
  <1>2. /\ file \in Files /\ blk_idx \in Nat /\ blk_idx \in DOMAIN image'
        /\ image'[blk_idx].usage \in Nat /\ image'[blk_idx].first \in Nat
        /\ image'[blk_idx].of \in Files
        /\ Bytes(file, 0, offset) \o PieceOf(image'[blk_idx]) = Bytes(file, 0, offset')
        /\ Extends(image', image) /\ offset' \in Nat /\ UNCHANGED <<pc, file, length>>
        /\ taken' \in [Files -> Nat] /\ taken'[file] = offset'
        /\ \A f \in Files : f # file => taken'[f] = taken[f]
    BY <1>1, WriteDataEffect DEF ReadInv
  <1>3. /\ inode' \in InodeFields /\ inode'.d_blks = Append(inode.d_blks, blk_idx)
        /\ inode'.i_blks = <<>> /\ inode'.next_inode = inode.next_inode
    <2>1. inode \in InodeFields
      BY DEF ReadInv, Fields
    <2>2. Append(inode.d_blks, blk_idx) \in Seq(Nat)
      BY <1>2, <2>1 DEF InodeFields
    <2>3. PICK d \in Seq(Nat) : d = Append(inode.d_blks, blk_idx)
      BY <2>2
    <2> QED
      BY <1>1, <2>1, <2>3 DEF InodeFields
  <1>4. Fields'
    <2>1. \A f \in Files : f > file => taken'[f] = 0
      BY <1>2 DEF ReadInv, Fields, Files
    <2> QED
      BY <1>1, <1>2, <1>3, <2>1 DEF ReadInv, Fields
  <1>5. Written'
    BY <1>2, NotBefore, WrittenKept DEF ReadInv
  <1>6. Underway'
    <2> DEFINE d == inode.d_blks
    <2>1. /\ DataBlocks(image, d) /\ inode.next_inode = NextOf(file)
          /\ ContentsIn(image, inode) \o DataIn(image, iblock) = Bytes(file, 0, offset)
      BY <1>1 DEF ReadInv, Underway, Filling, InodeBlocks
    <2>2. DataIn(image, d) \in Seq(Byte)
      BY <2>1, DataThrough
    <2>3. DataIn(image, d) = Bytes(file, 0, offset)
      BY <1>1, <2>1, <2>2, NothingRead, ConcatEmptySeq DEF ContentsIn
    <2>4. DataBlocks(image', d) /\ DataIn(image', d) = DataIn(image, d)
      BY <1>2, <2>1, DataKept
    <2>5. /\ DataBlocks(image', Append(d, blk_idx))
          /\ DataIn(image', Append(d, blk_idx)) = DataIn(image', d) \o PieceOf(image'[blk_idx])
      BY <1>2, <2>4, DataAppend
    <2>6. DataIn(image', inode'.d_blks) = Bytes(file, 0, offset')
      BY <1>2, <1>3, <2>3, <2>4, <2>5
    <2>7. InodeBlocks(image', inode') /\ DataBlocks(image', iblock')
      BY <1>1, <1>3, <2>5, NothingRead DEF InodeBlocks
    <2>8. DataIn(image', inode'.d_blks) \in Seq(Byte)
      BY <2>7, DataThrough DEF InodeBlocks
    <2>9. ContentsIn(image', inode') \o DataIn(image', iblock') = DataIn(image', inode'.d_blks)
      BY <1>1, <1>3, <2>8, NothingRead, ConcatEmptySeq DEF ContentsIn
    <2> QED
      BY <1>2, <1>3, <2>1, <2>6, <2>7, <2>9 DEF Underway
  <1> QED
    BY <1>4, <1>5, <1>6

(* A data block of an indirect block under construction.                   *)
LEMMA IndirectReading ==
    ASSUME ReadInv, IndirectBlock
    PROVE  Fields' /\ Underway' /\ Written'
  <1>1. /\ pc = "indirect" /\ WriteData /\ iblock' = Append(iblock, blk_idx)
        /\ UNCHANGED inode
    BY DEF IndirectBlock
  <1>2. /\ file \in Files /\ blk_idx \in Nat /\ blk_idx \in DOMAIN image'
        /\ image'[blk_idx].usage \in Nat /\ image'[blk_idx].first \in Nat
        /\ image'[blk_idx].of \in Files
        /\ Bytes(file, 0, offset) \o PieceOf(image'[blk_idx]) = Bytes(file, 0, offset')
        /\ Extends(image', image) /\ offset' \in Nat /\ UNCHANGED <<pc, file, length>>
        /\ taken' \in [Files -> Nat] /\ taken'[file] = offset'
        /\ \A f \in Files : f # file => taken'[f] = taken[f]
    BY <1>1, WriteDataEffect DEF ReadInv
  <1>3. iblock' \in Seq(Nat)
    BY <1>1, <1>2 DEF ReadInv, Fields
  <1>4. Fields'
    <2>1. \A f \in Files : f > file => taken'[f] = 0
      BY <1>2 DEF ReadInv, Fields, Files
    <2> QED
      BY <1>1, <1>2, <1>3, <2>1 DEF ReadInv, Fields
  <1>5. Written'
    BY <1>2, NotBefore, WrittenKept DEF ReadInv
  <1>6. Underway'
    <2>1. /\ InodeBlocks(image, inode) /\ DataBlocks(image, iblock)
          /\ inode.next_inode = NextOf(file)
          /\ ContentsIn(image, inode) \o DataIn(image, iblock) = Bytes(file, 0, offset)
      BY <1>1 DEF ReadInv, Underway, Filling
    <2>2. /\ InodeBlocks(image', inode) /\ DataBlocks(image', iblock)
          /\ ContentsIn(image', inode) = ContentsIn(image, inode)
          /\ DataIn(image', iblock) = DataIn(image, iblock)
      BY <1>2, <2>1, HoldsKept, DataKept
    <2>3. /\ DataBlocks(image', Append(iblock, blk_idx))
          /\ DataIn(image', Append(iblock, blk_idx))
               = DataIn(image', iblock) \o PieceOf(image'[blk_idx])
      BY <1>2, <2>2, DataAppend
    <2>4. PICK c \in Seq(Byte) : c = ContentsIn(image', inode)
      BY <2>2, ContentsAreBytes
    <2>5. PICK d \in Seq(Byte) : d = DataIn(image', iblock)
      BY <2>2, DataThrough
    <2>6. PICK e \in Seq(Byte) : e = PieceOf(image'[blk_idx])
      BY <1>2, PieceIsSeq
    <2>7. c \o (d \o e) = (c \o d) \o e
      BY ConcatAssociative
    <2>8. ContentsIn(image', inode) \o DataIn(image', iblock') = Bytes(file, 0, offset')
      BY <1>1, <1>2, <2>1, <2>2, <2>3, <2>4, <2>5, <2>6, <2>7
    <2> QED
      BY <1>1, <1>2, <2>1, <2>2, <2>3, <2>8 DEF Underway
  <1> QED
    BY <1>4, <1>5, <1>6

(* The index block behind its data blocks: it gives them back.             *)
LEMMA LinkReading ==
    ASSUME ReadInv, IndirectLink
    PROVE  Fields' /\ Underway' /\ Written'
  <1> DEFINE block == [kind |-> "indirect", blks |-> iblock]
  <1>1. /\ pc = "indirect" /\ kfs_write(blk_idx, block) /\ blk_idx' = blk_idx + 1
        /\ inode' = [inode EXCEPT !.i_blks = Append(inode.i_blks, blk_idx)]
        /\ pc' \in {"inode", "indirect"} /\ iblock' = <<>>
        /\ UNCHANGED <<length, changed, file, offset, taken>>
    BY DEF IndirectLink
  <1>2. block.blks = iblock
    OBVIOUS
  <1> HIDE DEF block
  <1>3. /\ blk_idx \in Nat /\ file \in Files /\ blk_idx \in DOMAIN image'
        /\ image'[blk_idx].blks = iblock /\ Extends(image', image)
    <2>1. Layout /\ blk_idx \in Nat /\ file \in Files
      BY <1>1 DEF ReadInv, Layout
    <2>2. blk_idx \in DOMAIN image' /\ image'[blk_idx] = block
      BY <1>1, WriteAdds
    <2>3. Extends(image', image)
      BY <1>1, <2>1, AppendLayout DEF Extends
    <2> QED
      BY <1>2, <2>1, <2>2, <2>3
  <1>4. /\ inode' \in InodeFields /\ inode'.i_blks = Append(inode.i_blks, blk_idx)
        /\ inode'.d_blks = inode.d_blks /\ inode'.next_inode = inode.next_inode
    <2>1. inode \in InodeFields
      BY DEF ReadInv, Fields
    <2>2. PICK b \in Seq(Nat) : b = Append(inode.i_blks, blk_idx)
      <3>1. inode.i_blks \in Seq(Nat)
        BY <2>1 DEF InodeFields
      <3>2. Append(inode.i_blks, blk_idx) \in Seq(Nat)
        BY <1>3, <3>1, AppendProperties
      <3> QED
        BY <3>2
    <2> QED
      BY <1>1, <2>1, <2>2 DEF InodeFields
  <1>5. Fields'
    <2>1. <<>> \in Seq(Nat)
      BY EmptySeq
    <2> QED
      BY <1>1, <1>4, <2>1 DEF ReadInv, Fields
  <1>6. Written'
    BY <1>1, <1>3, WrittenKept DEF ReadInv
  <1>7. Underway'
    <2>1. /\ InodeBlocks(image, inode) /\ DataBlocks(image, iblock)
          /\ inode.next_inode = NextOf(file) /\ taken[file] = offset
          /\ ContentsIn(image, inode) \o DataIn(image, iblock) = Bytes(file, 0, offset)
      BY <1>1 DEF ReadInv, Underway, Filling
    <2>2. /\ DataBlocks(image', inode.d_blks) /\ IndexBlocks(image', inode.i_blks)
          /\ DataBlocks(image', iblock)
          /\ ContentsIn(image', inode) = ContentsIn(image, inode)
          /\ DataIn(image', iblock) = DataIn(image, iblock)
      BY <1>3, <2>1, HoldsKept, DataKept DEF InodeBlocks
    <2>3. /\ IndexBlocks(image', Append(inode.i_blks, blk_idx))
          /\ IndexIn(image', Append(inode.i_blks, blk_idx))
               = IndexIn(image', inode.i_blks) \o DataIn(image', iblock)
      BY <1>3, <2>2, IndexAppend
    <2>4. PICK c \in Seq(Byte) : c = DataIn(image', inode.d_blks)
      BY <2>2, DataThrough
    <2>5. PICK d \in Seq(Byte) : d = IndexIn(image', inode.i_blks)
      BY <2>2, IndexThrough
    <2>6. PICK e \in Seq(Byte) : e = DataIn(image', iblock)
      BY <2>2, DataThrough
    <2>7. c \o (d \o e) = (c \o d) \o e
      BY ConcatAssociative
    <2>8. ContentsIn(image', inode') = Bytes(file, 0, offset)
      BY <1>4, <2>1, <2>2, <2>3, <2>4, <2>5, <2>6, <2>7 DEF ContentsIn
    <2>9. InodeBlocks(image', inode')
      BY <1>4, <2>2, <2>3 DEF InodeBlocks
    <2>10. ContentsIn(image', inode') \o <<>> = ContentsIn(image', inode')
      BY <2>9, ContentsAreBytes, ConcatEmptySeq
    <2>11. DataBlocks(image', iblock') /\ DataIn(image', iblock') = <<>>
      BY <1>1, NothingRead
    <2> QED
      BY <1>1, <1>4, <2>1, <2>8, <2>9, <2>10, <2>11 DEF Underway
  <1> QED
    BY <1>5, <1>6, <1>7

(* A file is opened: nothing was read of it yet.                           *)
LEMMA OpenReading ==
    ASSUME ReadInv, Open
    PROVE  Fields' /\ Underway' /\ Written'
  <1>1. /\ pc = "open" /\ iblock = <<>> /\ file \in Files /\ taken[file] = 0
        /\ UNCHANGED <<changed, image, file, blk_idx, iblock, taken>>
        /\ offset' = 0 /\ length' \in Nat
    BY Sizes DEF ReadInv, Layout, Fields, Open
  <1>2. Written'
    <2>1. Extends(image', image)
      BY <1>1 DEF Extends
    <2> QED
      BY <1>1, <2>1, WrittenKept DEF ReadInv
  <1>3. CASE pc' = "failed" /\ UNCHANGED inode
    BY <1>1, <1>2, <1>3 DEF ReadInv, Fields, Underway, Filling
  <1>4. CASE pc' = "direct" /\ \E size \in 0 .. MaxLength :
               inode' = [EmptyInode EXCEPT !.file_sz = size, !.blk_cnt = BlkCnt(size),
                            !.next_inode = IF file = NbFiles THEN 0 ELSE file + 1]
    <2>1. PICK size \in 0 .. MaxLength :
               inode' = [EmptyInode EXCEPT !.file_sz = size, !.blk_cnt = BlkCnt(size),
                            !.next_inode = IF file = NbFiles THEN 0 ELSE file + 1]
      BY <1>4
    <2>2. size \in Nat /\ BlkCnt(size) \in Nat /\ NextOf(file) \in Nat
      <3>1. size \in Nat /\ file \in Nat
        BY <1>1, Sizes DEF Files
      <3>2. BlkCnt(size) \in Nat
        BY <3>1, BlkCntIs
      <3> QED
        BY <3>1, <3>2 DEF NextOf
    <2>3. inode' = [file_sz |-> size, blk_cnt |-> BlkCnt(size), next_inode |-> NextOf(file),
                    d_blks |-> <<>>, i_blks |-> <<>>]
      BY <2>1 DEF EmptyInode, NextOf
    <2>4. <<>> \in Seq(Nat)
      BY EmptySeq
    <2>5. /\ inode' \in InodeFields /\ inode'.d_blks = <<>> /\ inode'.i_blks = <<>>
          /\ inode'.next_inode = NextOf(file)
      BY <2>2, <2>3, <2>4 DEF InodeFields
    <2>6. Fields'
      <3>1. \A f \in Files : f > file => taken[f] = 0
        BY DEF ReadInv, Fields
      <3> QED
        BY <1>1, <1>4, <2>5, <3>1 DEF ReadInv, Fields
    <2>7. /\ InodeBlocks(image', inode') /\ DataBlocks(image', iblock')
          /\ DataIn(image', iblock') = <<>> /\ DataIn(image', inode'.d_blks) = <<>>
          /\ IndexIn(image', inode'.i_blks) = <<>>
      BY <1>1, <2>5, NothingRead DEF InodeBlocks
    <2>8. <<>> \o <<>> = <<>> /\ Bytes(file, 0, 0) = <<>>
      <3>1. Bytes(file, 0, 0) \in Seq(Byte) /\ Len(Bytes(file, 0, 0)) = 0
        BY <1>1, BytesAre
      <3>2. Bytes(file, 0, 0) = <<>>
        BY <3>1, EmptySeq
      <3> QED
        BY <2>4, <3>2, ConcatEmptySeq
    <2>9. ContentsIn(image', inode') \o DataIn(image', iblock') = Bytes(file, 0, 0)
      BY <2>7, <2>8 DEF ContentsIn
    <2> QED
      BY <1>1, <1>2, <2>5, <2>6, <2>7, <2>9 DEF Underway
  <1> QED
    BY <1>3, <1>4 DEF Open

(* An inode is written when its blocks hold all that was read.             *)
LEMMA InodeReading ==
    ASSUME ReadInv, WriteInode
    PROVE  Fields' /\ Underway' /\ Written'
  <1> DEFINE block == [kind |-> "inode", inode |-> inode]
  <1>1. /\ pc = "inode" /\ kfs_write(file, block) /\ file' = file + 1
        /\ pc' = (IF file = NbFiles THEN "super" ELSE "open") /\ length' = 0
        /\ UNCHANGED <<changed, blk_idx, offset, inode, iblock, taken>>
    BY DEF WriteInode
  <1>2. block.inode = inode
    OBVIOUS
  <1> HIDE DEF block
  <1>3. /\ file \in 1 .. NbFiles /\ file \in DOMAIN image' /\ image'[file].inode = inode
        /\ Extends(image', image) /\ iblock = <<>>
    BY <1>1, <1>2, WriteAdds, InodeLayout DEF ReadInv, Layout, Fields, Extends, Files
  <1>4. Fields'
    <2>1. \A f \in Files : (f > file + 1 \/ f = file + 1) => taken[f] = 0
      BY <1>3 DEF ReadInv, Fields, Files
    <2>2. pc' \in {"super", "open"}
      BY <1>1
    <2> QED
      BY <1>1, <1>3, <2>1, <2>2 DEF ReadInv, Fields
  <1>5. Underway'
    BY <1>1 DEF Underway, Filling
  <1>6. Holds(image', image'[file].inode, file, taken[file])
    <2>1. /\ InodeBlocks(image, inode) /\ inode.next_inode = NextOf(file)
          /\ taken[file] = offset
          /\ ContentsIn(image, inode) \o DataIn(image, iblock) = Bytes(file, 0, offset)
      BY <1>1 DEF ReadInv, Underway, Filling
    <2>2. ContentsIn(image, inode) \in Seq(Byte)
      BY <2>1, ContentsAreBytes
    <2>3. ContentsIn(image, inode) = Bytes(file, 0, offset)
      BY <1>3, <2>1, <2>2, NothingRead, ConcatEmptySeq
    <2>4. Holds(image, inode, file, offset)
      BY <2>1, <2>3 DEF Holds
    <2> QED
      BY <1>3, <2>1, <2>4, HoldsKept
  <1>7. ASSUME NEW f \in 1 .. file' - 1
        PROVE  Holds(image', image'[f].inode, f, taken'[f])
    <2>1. CASE f = file
      BY <1>1, <1>6, <2>1
    <2>2. CASE f # file
      <3>1. f \in 1 .. file - 1
        BY <1>1, <1>3, <2>2
      <3>2. f \in DOMAIN image
        BY <1>3, <3>1 DEF ReadInv, Layout
      <3>3. image'[f].inode = image[f].inode
        BY <1>3, <3>2 DEF Extends
      <3>4. Holds(image, image[f].inode, f, taken[f])
        BY <3>1 DEF ReadInv, Written
      <3>5. Holds(image', image[f].inode, f, taken[f])
        BY <1>3, <3>4, HoldsKept DEF Holds
      <3> QED
        BY <1>1, <3>3, <3>5
    <2> QED
      BY <2>1, <2>2
  <1> QED
    BY <1>4, <1>5, <1>7 DEF Written

LEMMA StepReading ==
    ASSUME ReadInv, [Next]_vars
    PROVE  ReadInv'
  <1>1. Layout' /\ Extends(image', image)
    BY StepExtends DEF ReadInv
  <1>2. CASE Open
    BY <1>1, <1>2, OpenReading DEF ReadInv, Open
  <1>3. CASE DirectBlock
    BY <1>1, <1>3, DirectReading DEF ReadInv, DirectBlock, WriteData
  <1>4. CASE IndirectBlock
    BY <1>1, <1>4, IndirectReading DEF ReadInv, IndirectBlock, WriteData
  <1>5. CASE IndirectLink
    BY <1>1, <1>5, LinkReading DEF ReadInv, IndirectLink
  <1>6. CASE WriteInode
    BY <1>1, <1>6, InodeReading DEF ReadInv, WriteInode
  <1>7. CASE DirectDone \/ IndirectDone \/ Change
    <2>1. /\ pc \in Filling /\ pc' \in Filling \ {"open", "done"}
          /\ pc' \in {"direct", "inode"} => iblock = <<>>
          /\ pc' = "direct" => inode.i_blks = <<>>
          /\ UNCHANGED <<image, file, offset, inode, iblock, taken>> /\ length' \in Nat
      BY <1>7, Sizes DEF DirectDone, IndirectDone, Change, Filling, ReadInv, Fields
    <2>2. Fields'
      BY <2>1 DEF ReadInv, Fields, Filling
    <2>3. Underway' /\ Written'
      BY <1>1, <2>1, UnderwayKept, WrittenKept DEF ReadInv
    <2> QED
      BY <1>1, <2>1, <2>2, <2>3 DEF ReadInv
  <1>8. CASE Fail
    <2>1. /\ pc' = "failed"
          /\ UNCHANGED <<length, image, file, offset, inode, iblock, taken>>
      BY <1>8 DEF Fail
    <2>2. Fields' /\ Underway'
      BY <2>1 DEF ReadInv, Fields, Underway, Filling
    <2>3. Written'
      BY <1>1, <2>1, WrittenKept DEF ReadInv
    <2> QED
      BY <1>1, <2>1, <2>2, <2>3 DEF ReadInv
  <1>9. CASE WriteSuperblock
    <2> DEFINE block == [kind |-> "super", inode_idx |-> 1, inode_cnt |-> NbFiles,
                         blk_cnt |-> blk_idx]
    <2>1. /\ pc' = "done" /\ kfs_write(0, block)
          /\ UNCHANGED <<length, file, offset, inode, iblock, taken>>
      BY <1>9 DEF WriteSuperblock
    <2>2. block.inode_idx = 1
      OBVIOUS
    <2> HIDE DEF block
    <2>3. image'[0].inode_idx = 1
      BY <2>1, <2>2, WriteAdds
    <2>4. Fields' /\ Underway'
      BY <2>1 DEF ReadInv, Fields, Underway, Filling
    <2>5. Written'
      BY <1>1, <2>1, WrittenKept DEF ReadInv
    <2> QED
      BY <1>1, <2>3, <2>4, <2>5 DEF ReadInv
  <1>10. CASE UNCHANGED vars
    <2>1. /\ UNCHANGED <<length, image, file, offset, inode, iblock, taken, pc>>
      BY <1>10 DEF vars
    <2>2. Fields'
      BY <2>1 DEF ReadInv, Fields
    <2>3. Underway'
      BY <1>1, <2>1, UnderwayKept DEF ReadInv, Underway
    <2>4. Written'
      BY <1>1, <2>1, WrittenKept DEF ReadInv
    <2> QED
      BY <1>1, <2>1, <2>2, <2>3, <2>4 DEF ReadInv
  <1> QED
    BY <1>2, <1>3, <1>4, <1>5, <1>6, <1>7, <1>8, <1>9, <1>10 DEF Next

-----------------------------------------------------------------------------
(* Sizes                                                                   *)

LEMMA CountIs ==
    ASSUME NEW img, NEW ino, InodeBlocks(img, ino)
    PROVE  /\ Len(ino.d_blks) \in Nat /\ Len(ino.i_blks) \in Nat
           /\ Len(EntriesIn(img, ino.i_blks)) \in Nat
           /\ Count(img, ino) = Len(ino.d_blks) + Len(EntriesIn(img, ino.i_blks))
           /\ Count(img, ino) \in Nat
  <1>1. /\ ino.d_blks \in Seq(Nat) /\ ino.i_blks \in Seq(Nat)
        /\ EntriesIn(img, ino.i_blks) \in Seq(Nat)
    BY DataThrough, IndexThrough DEF InodeBlocks
  <1>2. /\ Len(ino.d_blks) \in Nat /\ Len(ino.i_blks) \in Nat
        /\ Len(EntriesIn(img, ino.i_blks)) \in Nat
    BY <1>1, LenProperties
  <1>3. Count(img, ino) = Len(ino.d_blks) + Len(EntriesIn(img, ino.i_blks))
    BY DEF Count
  <1>4. PICK a \in Nat, b \in Nat :
           a = Len(ino.d_blks) /\ b = Len(EntriesIn(img, ino.i_blks))
    BY <1>2
  <1>5. Count(img, ino) = a + b
    BY <1>3, <1>4
  <1>6. Count(img, ino) \in Nat
    BY <1>5
  <1> QED
    BY <1>2, <1>3, <1>6

LEMMA SizesWrittenKept ==
    ASSUME Layout, Written, SizesWritten, Extends(image', image), UNCHANGED file,
           changed \subseteq changed', \A f \in 1 .. file - 1 : taken'[f] = taken[f]
    PROVE  SizesWritten'
  <1>1. ASSUME NEW f \in 1 .. file - 1, f \notin changed'
        PROVE  /\ image'[f].inode.file_sz = taken'[f]
               /\ image'[f].inode.blk_cnt = Count(image', image'[f].inode)
    <2>1. f \in DOMAIN image
      BY Sizes DEF Layout
    <2>2. image'[f].inode = image[f].inode
      BY <2>1 DEF Extends
    <2>3. InodeBlocks(image, image[f].inode)
      BY DEF Written, Holds
    <2>4. Count(image', image[f].inode) = Count(image, image[f].inode)
      BY <2>3, HoldsKept
    <2>5. /\ image[f].inode.file_sz = taken[f]
          /\ image[f].inode.blk_cnt = Count(image, image[f].inode)
      BY <1>1 DEF SizesWritten
    <2> QED
      BY <2>2, <2>4, <2>5
  <1> QED
    BY <1>1 DEF SizesWritten

(* A block more: DataSize bytes, or the rest of the file.                  *)
LEMMA ReadsOne ==
    ASSUME NEW n \in Nat, NEW l \in Nat, NEW o \in Nat, NEW r \in Nat,
           o < l, o = n * DataSize,
           r = IF l - o < DataSize THEN l - o ELSE DataSize
    PROVE  /\ o + r <= l
           /\ IF o + r < l THEN o + r = (n + 1) * DataSize ELSE n + 1 = BlkCnt(l)
  <1>1. PICK d \in Nat \ {0} : d = DataSize
    BY Sizes
  <1>2. (n + 1) * d = n * d + d /\ n * d \in Nat
    OBVIOUS
  <1>3. CASE l - o > d
    BY <1>1, <1>2, <1>3
  <1>4. CASE l - o <= d
    <2>1. o + r = l
      BY <1>1, <1>4
    <2>2. n * DataSize < l /\ l <= n * DataSize + DataSize
      BY <1>1, <1>2, <1>4
    <2>3. BlkCnt(l) = n + 1
      BY <2>2, BlkCntIs
    <2> QED
      BY <2>1, <2>3
  <1> QED
    BY <1>3, <1>4

LEMMA SoundlyStep ==
    ASSUME NEW n \in Nat, Soundly(n), Fields, WriteData,
           inode'.file_sz = inode.file_sz, inode'.blk_cnt = inode.blk_cnt
    PROVE  Soundly(n + 1)'
  <1>1. /\ offset \in Nat /\ length \in Nat /\ offset < length
        /\ offset' = offset + ReadSize /\ length' = length
        /\ ReadSize = IF length - offset < DataSize THEN length - offset ELSE DataSize
    BY DEF Fields, WriteData, Eof, Remaining, ReadSize
  <1>2. ReadSize \in Nat
    BY <1>1, Sizes
  <1>3. offset = n * DataSize
    BY <1>1 DEF Soundly
  <1>4. PICK r \in Nat : r = ReadSize
    BY <1>2
  <1>5. /\ offset + r <= length
        /\ IF offset + r < length THEN offset + r = (n + 1) * DataSize
                                  ELSE n + 1 = BlkCnt(length)
    BY <1>1, <1>3, <1>4, ReadsOne
  <1> QED
    BY <1>1, <1>4, <1>5 DEF Soundly, BlkCnt

LEMMA DirectSizes ==
    ASSUME ReadInv, ReadInv', SizesUnderway, DirectBlock
    PROVE  SizesUnderway'
  <1>1. /\ pc = "direct" /\ pc' = "direct" /\ WriteData
        /\ inode' = [inode EXCEPT !.d_blks = Append(inode.d_blks, blk_idx)]
        /\ UNCHANGED <<iblock, changed, file, length>> /\ iblock = <<>> /\ inode.i_blks = <<>>
        /\ Len(inode.d_blks) < Direct
    BY DEF DirectBlock, WriteData, ReadInv, Fields
  <1>2. /\ inode'.d_blks = Append(inode.d_blks, blk_idx) /\ inode'.i_blks = inode.i_blks
        /\ inode'.file_sz = inode.file_sz /\ inode'.blk_cnt = inode.blk_cnt
    BY <1>1 DEF ReadInv, Fields, InodeFields
  <1>3. SUFFICES ASSUME file \notin changed
                 PROVE  Full' /\ Soundly(Count(image, inode) + Len(iblock))'
    BY <1>1 DEF SizesUnderway
  <1>4. Full /\ Soundly(Count(image, inode) + Len(iblock))
    BY <1>1, <1>3 DEF SizesUnderway, Filling
  <1>5. PICK n \in Nat : n = Len(inode.d_blks)
    BY <1>1, CountIs DEF ReadInv, Underway, Filling
  <1>6. Len(inode'.d_blks) = n + 1
    BY <1>2, <1>5 DEF ReadInv, Fields, InodeFields, Layout
  <1>7. Len(<<>>) = 0 /\ EntriesIn(image, <<>>) = <<>> /\ EntriesIn(image', <<>>) = <<>>
    BY EmptySeq, NothingRead
  <1>8. Count(image, inode) + Len(iblock) = n /\ Count(image', inode') + Len(iblock') = n + 1
    <2>1. /\ Len(EntriesIn(image, inode.i_blks)) = 0
          /\ Len(EntriesIn(image', inode'.i_blks)) = 0
          /\ Len(iblock) = 0 /\ Len(iblock') = 0
      BY <1>1, <1>2, <1>7
    <2>2. Count(image, inode) = n + 0 /\ Count(image', inode') = (n + 1) + 0
      BY <1>5, <1>6, <2>1 DEF Count
    <2> QED
      BY <2>1, <2>2
  <1>9. Soundly(n + 1)'
    BY <1>1, <1>2, <1>4, <1>8, SoundlyStep DEF ReadInv
  <1>10. Full'
    <2>1. n + 1 <= Direct /\ 0 <= Indirect /\ 0 <= IndirectCnt /\ 0 = 0 * IndirectCnt
      BY <1>1, <1>5, Sizes
    <2>2. /\ Len(inode'.d_blks) = n + 1 /\ Len(inode'.i_blks) = 0 /\ Len(iblock') = 0
          /\ Len(EntriesIn(image', inode'.i_blks)) = 0 /\ pc' = "direct"
      BY <1>1, <1>2, <1>6, <1>7
    <2> QED
      BY <2>1, <2>2 DEF Full
  <1> QED
    BY <1>8, <1>9, <1>10 DEF Soundly

LEMMA IndirectSizes ==
    ASSUME ReadInv, SizesUnderway, IndirectBlock
    PROVE  SizesUnderway'
  <1>1. /\ pc = "indirect" /\ pc' = "indirect" /\ WriteData
        /\ iblock' = Append(iblock, blk_idx) /\ Len(iblock) < IndirectCnt
        /\ UNCHANGED <<inode, changed, file, length>>
    BY DEF IndirectBlock, WriteData
  <1>2. SUFFICES ASSUME file \notin changed
                 PROVE  Full' /\ Soundly(Count(image, inode) + Len(iblock))'
    BY <1>1 DEF SizesUnderway
  <1>3. Full /\ Soundly(Count(image, inode) + Len(iblock))
    BY <1>1, <1>2 DEF SizesUnderway, Filling
  <1>4. InodeBlocks(image, inode) /\ iblock \in Seq(Nat) /\ blk_idx \in Nat
    BY <1>1 DEF ReadInv, Underway, Filling, Fields, Layout
  <1>5. Extends(image', image) /\ offset' \in Nat /\ offset \in Nat /\ offset <= offset'
    BY <1>1, WriteDataEffect DEF ReadInv, Fields
  <1>6. /\ Count(image', inode) = Count(image, inode)
        /\ EntriesIn(image', inode.i_blks) = EntriesIn(image, inode.i_blks)
    BY <1>4, <1>5, HoldsKept, IndexKept DEF InodeBlocks
  <1>7. PICK c \in Nat : c = Count(image, inode)
    BY <1>4, CountIs
  <1>8. PICK k \in Nat : k = Len(iblock) /\ Len(iblock') = k + 1
    BY <1>1, <1>4
  <1>9. PICK n \in Nat : n = c + k
    OBVIOUS
  <1>10. Soundly(n + 1)'
    BY <1>1, <1>3, <1>7, <1>8, <1>9, SoundlyStep DEF ReadInv
  <1>11. Soundly(Count(image, inode) + Len(iblock))'
    <2>1. Count(image', inode') + Len(iblock') = n + 1
      BY <1>1, <1>6, <1>7, <1>8, <1>9
    <2> QED
      BY <1>10, <2>1 DEF Soundly
  <1>12. offset' < length' => offset < length
    BY <1>1, <1>5 DEF ReadInv, Fields
  <1>13. Full'
    BY <1>1, <1>3, <1>6, <1>8, <1>12, Sizes DEF Full
  <1> QED
    BY <1>11, <1>13

LEMMA LinkSizes ==
    ASSUME ReadInv, ReadInv', SizesUnderway, IndirectLink
    PROVE  SizesUnderway'
  <1> DEFINE block == [kind |-> "indirect", blks |-> iblock]
  <1>1. /\ pc = "indirect" /\ kfs_write(blk_idx, block) /\ blk_idx' = blk_idx + 1
        /\ Len(iblock) = IndirectCnt \/ Eof
        /\ inode' = [inode EXCEPT !.i_blks = Append(inode.i_blks, blk_idx)]
        /\ pc' = IF Len(inode.i_blks) + 1 = Indirect THEN "inode" ELSE "indirect"
        /\ iblock' = <<>>
        /\ UNCHANGED <<length, changed, file, offset, taken>>
    BY DEF IndirectLink
  <1>2. block.blks = iblock
    OBVIOUS
  <1> HIDE DEF block
  <1>3. /\ inode'.i_blks = Append(inode.i_blks, blk_idx) /\ inode'.d_blks = inode.d_blks
        /\ inode'.file_sz = inode.file_sz /\ inode'.blk_cnt = inode.blk_cnt
    BY <1>1 DEF ReadInv, Fields, InodeFields
  <1>4. SUFFICES ASSUME file \notin changed
                 PROVE  Full' /\ Soundly(Count(image, inode) + Len(iblock))'
    BY <1>1 DEF SizesUnderway
  <1>5. Full /\ Soundly(Count(image, inode) + Len(iblock))
    BY <1>1, <1>4 DEF SizesUnderway, Filling
  <1>6. /\ InodeBlocks(image, inode) /\ DataBlocks(image, iblock)
        /\ iblock \in Seq(Nat) /\ blk_idx \in Nat /\ offset \in Nat /\ length \in Nat
    BY <1>1 DEF ReadInv, Underway, Filling, Fields, Layout
  <1>7. /\ Extends(image', image) /\ blk_idx \in DOMAIN image'
        /\ image'[blk_idx].blks = iblock
    <2>1. blk_idx \in DOMAIN image' /\ image'[blk_idx] = block
      BY <1>1, WriteAdds
    <2>2. Extends(image', image)
      <3>1. pc' \in {"direct", "indirect", "inode"}
        BY <1>1
      <3> QED
        BY <1>1, <3>1, AppendLayout DEF ReadInv, Extends
    <2> QED
      BY <1>2, <2>1, <2>2
  <1>8. /\ IndexBlocks(image', inode.i_blks) /\ DataBlocks(image', iblock)
        /\ EntriesIn(image', inode.i_blks) = EntriesIn(image, inode.i_blks)
    BY <1>6, <1>7, IndexKept, DataKept DEF InodeBlocks
  <1>9. EntriesIn(image', inode'.i_blks) = EntriesIn(image, inode.i_blks) \o iblock
    BY <1>3, <1>6, <1>7, <1>8, IndexAppend
  <1>10. PICK e \in Nat : e = Len(EntriesIn(image, inode.i_blks))
    BY <1>6, CountIs
  <1>11. PICK k \in Nat : k = Len(iblock)
    BY <1>6
  <1>12. Len(EntriesIn(image', inode'.i_blks)) = e + k
    <2>1. EntriesIn(image, inode.i_blks) \in Seq(Nat)
      BY <1>6, IndexThrough DEF InodeBlocks
    <2> QED
      BY <1>6, <1>9, <1>10, <1>11, <2>1, ConcatProperties
  <1>13. PICK d \in Nat : d = Len(inode.d_blks)
    BY <1>6, CountIs
  <1>14. Len(<<>>) = 0
    BY EmptySeq
  <1>15. /\ Count(image, inode) + Len(iblock) = (d + e) + k
         /\ Count(image', inode') + Len(iblock') = (d + (e + k)) + 0
    BY <1>1, <1>3, <1>10, <1>11, <1>12, <1>13, <1>14 DEF Count
  <1>16. Soundly(Count(image, inode) + Len(iblock))'
    <2>1. Count(image', inode') + Len(iblock') = Count(image, inode) + Len(iblock)
      BY <1>15
    <2> HIDE DEF Count
    <2> QED
      BY <1>1, <1>3, <1>5, <2>1 DEF Soundly, BlkCnt
  <1>17. PICK i \in Nat : i = Len(inode.i_blks) /\ Len(inode'.i_blks) = i + 1
    BY <1>3, <1>6, AppendProperties DEF InodeBlocks, IndexBlocks
  <1>18. offset < length => e + k = (i + 1) * IndirectCnt
    <2>1. offset < length => k = IndirectCnt
      BY <1>1, <1>6, <1>11 DEF Eof, Remaining
    <2>2. offset < length => e = i * IndirectCnt
      BY <1>5, <1>10, <1>17 DEF Full
    <2>3. (i + 1) * IndirectCnt = i * IndirectCnt + IndirectCnt
      BY Sizes
    <2> QED
      BY <2>1, <2>2, <2>3
  <1>19. /\ i < Indirect /\ d <= Direct
         /\ offset < length => d = Direct
    BY <1>1, <1>5, <1>13, <1>17 DEF Full
  <1>20. Full'
    <2>1. /\ d <= Direct /\ i + 1 <= Indirect /\ 0 <= IndirectCnt
          /\ i + 1 # Indirect => i + 1 < Indirect
      BY <1>19, Sizes
    <2>2. /\ Len(inode'.d_blks) = d /\ Len(inode'.i_blks) = i + 1 /\ Len(iblock') = 0
          /\ Len(EntriesIn(image', inode'.i_blks)) = e + k
          /\ pc' = (IF i + 1 = Indirect THEN "inode" ELSE "indirect")
          /\ offset' = offset /\ length' = length
      BY <1>1, <1>3, <1>12, <1>13, <1>14, <1>17
    <2> QED
      BY <1>18, <1>19, <2>1, <2>2 DEF Full
  <1> QED
    BY <1>16, <1>20

LEMMA OpenSizes ==
    ASSUME ReadInv, ReadInv', Open
    PROVE  SizesUnderway'
  <1>1. CASE pc' = "failed"
    BY <1>1 DEF SizesUnderway, Filling
  <1>2. CASE pc' = "direct"
    <2>1. PICK size \in 0 .. MaxLength :
             /\ length' = size /\ size <= MaxFileSize
             /\ inode' = [EmptyInode EXCEPT !.file_sz = size, !.blk_cnt = BlkCnt(size),
                            !.next_inode = IF file = NbFiles THEN 0 ELSE file + 1]
      BY <1>2 DEF Open
    <2>2. /\ inode'.file_sz = size /\ inode'.blk_cnt = BlkCnt(size)
          /\ inode'.d_blks = <<>> /\ inode'.i_blks = <<>>
      BY <2>1 DEF EmptyInode
    <2>3. iblock' = <<>> /\ offset' = 0 /\ size \in Nat
      BY <1>2, <2>1, Sizes DEF ReadInv, Fields, Open
    <2>4. /\ EntriesIn(image', inode'.i_blks) = <<>> /\ Len(<<>>) = 0
      BY <2>2, NothingRead, EmptySeq
    <2>5. Count(image', inode') + Len(iblock') = 0
      BY <2>2, <2>3, <2>4 DEF Count
    <2>6. 0 * DataSize = 0 /\ 0 * IndirectCnt = 0
      BY Sizes
    <2>7. size = 0 => BlkCnt(size) = 0
      BY <2>3, BlkCntIs
    <2>8. Soundly(Count(image, inode) + Len(iblock))'
      <3>1. /\ offset' <= length' /\ length' <= MaxFileSize
            /\ inode'.file_sz = length' /\ inode'.blk_cnt = BlkCnt(length')
        BY <2>1, <2>2, <2>3
      <3>2. IF offset' < length' THEN offset' = 0 * DataSize ELSE 0 = BlkCnt(length')
        BY <2>1, <2>3, <2>6, <2>7
      <3> QED
        BY <2>5, <3>1, <3>2 DEF Soundly, BlkCnt, MaxFileSize
    <2>9. Full'
      BY <1>2, <2>2, <2>3, <2>4, <2>6, Sizes DEF Full
    <2> QED
      BY <2>8, <2>9 DEF SizesUnderway
  <1> QED
    BY <1>1, <1>2 DEF Open

(* The loops end with the file, or with the last block an inode can have.  *)
LEMMA LoopsEnd ==
    ASSUME ReadInv, SizesUnderway, pc = "inode", file \notin changed
    PROVE  /\ inode.file_sz = taken[file] /\ inode.blk_cnt = Count(image, inode)
  <1>1. /\ Full /\ Soundly(Count(image, inode) + Len(iblock)) /\ iblock = <<>>
        /\ InodeBlocks(image, inode) /\ taken[file] = offset
        /\ offset \in Nat /\ length \in Nat
    BY DEF SizesUnderway, ReadInv, Fields, Underway, Filling
  <1>2. Len(<<>>) = 0
    BY EmptySeq
  <1>3. PICK n \in Nat : n = Count(image, inode) /\ Count(image, inode) + Len(iblock) = n
    <2>1. Count(image, inode) \in Nat /\ Len(iblock) = 0
      BY <1>1, <1>2, CountIs
    <2> QED
      BY <2>1
  <1>4. ASSUME offset < length  PROVE FALSE
    <2>1. /\ Len(inode.d_blks) = Direct
          /\ Len(EntriesIn(image, inode.i_blks)) = Indirect * IndirectCnt
      BY <1>1, <1>4 DEF Full
    <2>2. n = Direct + Indirect * IndirectCnt
      BY <1>3, <2>1 DEF Count
    <2>3. offset = n * DataSize /\ length <= (Direct + Indirect * IndirectCnt) * DataSize
      BY <1>1, <1>3, <1>4 DEF Soundly, MaxFileSize
    <2>4. PICK m \in Nat : m = n * DataSize
      BY Sizes
    <2> QED
      BY <1>1, <1>4, <2>2, <2>3, <2>4
  <1>5. offset <= length
    BY <1>1 DEF Soundly
  <1>6. offset = length
    BY <1>1, <1>4, <1>5
  <1> QED
    BY <1>1, <1>3, <1>6 DEF Soundly

LEMMA InodeSizes ==
    ASSUME ReadInv, SizesUnderway, SizesWritten, WriteInode
    PROVE  SizesWritten'
  <1> DEFINE block == [kind |-> "inode", inode |-> inode]
  <1>1. /\ pc = "inode" /\ kfs_write(file, block) /\ file' = file + 1
        /\ UNCHANGED <<changed, taken>>
    BY DEF WriteInode
  <1>2. block.inode = inode
    OBVIOUS
  <1> HIDE DEF block
  <1>3. /\ file \in 1 .. NbFiles /\ image'[file].inode = inode
        /\ Extends(image', image) /\ InodeBlocks(image, inode)
    BY <1>1, <1>2, WriteAdds, InodeLayout DEF ReadInv, Layout, Underway, Filling, Extends, Files
  <1>4. ASSUME NEW f \in 1 .. file' - 1, f \notin changed'
        PROVE  /\ image'[f].inode.file_sz = taken'[f]
               /\ image'[f].inode.blk_cnt = Count(image', image'[f].inode)
    <2>1. CASE f = file
      <3>1. inode.file_sz = taken[file] /\ inode.blk_cnt = Count(image, inode)
        BY <1>1, <1>4, <2>1, LoopsEnd
      <3>2. Count(image', inode) = Count(image, inode)
        BY <1>3, HoldsKept
      <3> QED
        BY <1>1, <1>3, <2>1, <3>1, <3>2
    <2>2. CASE f # file
      <3>1. f \in 1 .. file - 1
        BY <1>1, <1>3, <2>2
      <3>2. f \in DOMAIN image
        BY <1>3, <3>1 DEF ReadInv, Layout
      <3>3. image'[f].inode = image[f].inode
        BY <1>3, <3>2 DEF Extends
      <3>4. InodeBlocks(image, image[f].inode)
        BY <3>1 DEF ReadInv, Written, Holds
      <3>5. Count(image', image[f].inode) = Count(image, image[f].inode)
        BY <1>3, <3>4, HoldsKept
      <3>6. /\ image[f].inode.file_sz = taken[f]
            /\ image[f].inode.blk_cnt = Count(image, image[f].inode)
        BY <1>1, <1>4, <3>1 DEF SizesWritten
      <3> QED
        BY <1>1, <3>3, <3>5, <3>6
    <2> QED
      BY <2>1, <2>2
  <1> QED
    BY <1>4 DEF SizesWritten

SizeInv == ReadInv /\ SizesUnderway /\ SizesWritten

LEMMA StepSizes ==
    ASSUME SizeInv, [Next]_vars
    PROVE  SizeInv'
  <1>1. ReadInv' /\ Layout' /\ Extends(image', image)
    BY StepReading, StepExtends DEF SizeInv, ReadInv
  <1>2. CASE WriteInode
    <2>1. SizesUnderway'
      BY <1>2 DEF WriteInode, SizesUnderway, Filling
    <2> QED
      BY <1>1, <1>2, <2>1, InodeSizes DEF SizeInv
  <1>3. ASSUME ~WriteInode  PROVE SizesWritten'
    <2>1. UNCHANGED file /\ changed \subseteq changed'
      BY <1>3 DEF Next, vars, Open, DirectBlock, DirectDone, IndirectBlock, IndirectLink,
                  IndirectDone, WriteSuperblock, Fail, Change, WriteData
    <2>2. \A f \in 1 .. file - 1 : taken'[f] = taken[f]
      <3>1. CASE WriteData /\ pc \in {"direct", "indirect"}
        <4>1. file \in Files
          BY <3>1 DEF SizeInv, ReadInv, Layout
        <4>2. \A f \in Files : f # file => taken'[f] = taken[f]
          BY <3>1, WriteDataEffect DEF SizeInv, ReadInv
        <4> QED
          BY <4>1, <4>2, NotBefore DEF SizeInv, ReadInv
      <3>2. CASE UNCHANGED taken
        BY <3>2
      <3>3. (WriteData /\ pc \in {"direct", "indirect"}) \/ UNCHANGED taken
        BY <1>3 DEF Next, vars, Open, DirectBlock, DirectDone, IndirectBlock, IndirectLink,
                    IndirectDone, WriteSuperblock, Fail, Change
      <3> QED
        BY <3>1, <3>2, <3>3
    <2> QED
      BY <1>1, <2>1, <2>2, SizesWrittenKept DEF SizeInv, ReadInv
  <1>4. ASSUME ~WriteInode  PROVE SizesUnderway'
    <2>1. CASE Open
      BY <1>1, <2>1, OpenSizes DEF SizeInv
    <2>2. CASE DirectBlock
      BY <1>1, <2>2, DirectSizes DEF SizeInv
    <2>3. CASE IndirectBlock
      BY <1>1, <2>3, IndirectSizes DEF SizeInv
    <2>4. CASE IndirectLink
      BY <1>1, <2>4, LinkSizes DEF SizeInv
    <2>5. CASE DirectDone \/ IndirectDone
      <3>1. /\ pc \in Filling
            /\ UNCHANGED <<length, changed, image, file, offset, inode, iblock>>
        BY <2>5 DEF DirectDone, IndirectDone, Filling
      <3>2. SUFFICES ASSUME file \notin changed
                     PROVE  Full' /\ Soundly(Count(image, inode) + Len(iblock))'
        BY <3>1 DEF SizesUnderway
      <3>3. Full /\ Soundly(Count(image, inode) + Len(iblock))
        BY <3>1, <3>2 DEF SizeInv, SizesUnderway
      <3>4. Soundly(Count(image, inode) + Len(iblock))'
        BY <3>1, <3>3 DEF Soundly, Count, BlkCnt, EntriesIn
      <3>5. offset \in Nat /\ length \in Nat
        BY DEF SizeInv, ReadInv, Fields
      <3>6. CASE Eof /\ pc' = "inode"
        <4>1. ~(offset < length)
          BY <3>5, <3>6 DEF Eof, Remaining
        <4> QED
          BY <3>1, <3>3, <3>4, <3>6, <4>1 DEF Full
      <3>7. CASE pc = "direct" /\ Len(inode.d_blks) = Direct /\ pc' = "indirect"
        <4>1. inode.i_blks = <<>> /\ Len(<<>>) = 0
          BY <3>7, EmptySeq DEF SizeInv, ReadInv, Fields
        <4>2. EntriesIn(image', inode'.i_blks) = EntriesIn(image, inode.i_blks)
          BY <3>1
        <4> QED
          BY <3>1, <3>3, <3>4, <3>7, <4>1, <4>2, Sizes DEF Full
      <3> QED
        BY <2>5, <3>6, <3>7 DEF DirectDone, IndirectDone
    <2>6. CASE Change
      BY <2>6 DEF Change, SizesUnderway
    <2>7. CASE Fail \/ WriteSuperblock
      BY <2>7 DEF Fail, WriteSuperblock, SizesUnderway, Filling
    <2>8. CASE UNCHANGED vars
      <3>1. UNCHANGED <<length, changed, image, pc, file, offset, inode, iblock>>
        BY <2>8 DEF vars
      <3> QED
        BY <3>1 DEF SizeInv, SizesUnderway, Full, Soundly, Count, BlkCnt, EntriesIn
    <2> QED
      BY <1>4, <2>1, <2>2, <2>3, <2>4, <2>5, <2>6, <2>7, <2>8 DEF Next
  <1> QED
    BY <1>1, <1>2, <1>3, <1>4 DEF SizeInv

LEMMA InitSizes == Init => SizeInv
  <1> SUFFICES ASSUME Init PROVE SizeInv
    OBVIOUS
  <1>1. pc = "open" /\ 1 .. file - 1 = {}
    BY DEF Init
  <1> QED
    BY <1>1, InitReading DEF SizeInv, SizesUnderway, SizesWritten, Filling

LEMMA SizesHold == Spec => []SizeInv
  <1>1. SizeInv /\ [Next]_vars => SizeInv'
    BY StepSizes
  <1> QED
    BY InitSizes, <1>1, PTL DEF Spec

(* The chain of inodes is the files in order.                              *)
LEMMA ChainReads ==
    ASSUME image[0].inode_idx = 1, \A f \in Files : image[f].inode.next_inode = NextOf(f)
    PROVE  InodeChain = [f \in Files |-> f]
  <1> DEFINE Follow(seq) ==
               LET next == IF seq = <<>> THEN image[0].inode_idx
                           ELSE image[Last(seq)].inode.next_inode
               IN  IF next = 0 THEN seq ELSE Append(seq, next)
             upto(i) == [f \in 1 .. i |-> f]
             N == NbFiles + 1
             g == [i \in 0 .. N |-> IF i <= NbFiles THEN upto(i) ELSE upto(NbFiles)]
             Step(c, i) == IF i = 0 THEN <<>> ELSE Follow(c[i - 1])
             Walked(c) == c = [i \in 0 .. N |-> Step(c, i)]
             w == CHOOSE c : Walked(c)
  <1>1. InodeChain = w[N]
    BY DEF InodeChain
  <1>2. NbFiles \in Nat \ {0} /\ Files = 1 .. NbFiles
    BY Sizes DEF Files
  <1>3. ASSUME NEW i \in 0 .. NbFiles
        PROVE  /\ upto(i) \in Seq(Nat) /\ Len(upto(i)) = i
               /\ \A j \in 1 .. i : upto(i)[j] = j
    BY <1>2, <1>3
  <1>4. ASSUME NEW i \in 0 .. NbFiles
        PROVE  Follow(upto(i)) = IF i < NbFiles THEN upto(i + 1) ELSE upto(i)
    <2> DEFINE next == IF upto(i) = <<>> THEN image[0].inode_idx
                       ELSE image[Last(upto(i))].inode.next_inode
    <2>1. next = IF i < NbFiles THEN i + 1 ELSE 0
      <3>1. CASE i = 0
        <4>1. upto(i) = <<>>
          BY <3>1
        <4> QED
          BY <1>2, <3>1, <4>1
      <3>2. CASE i # 0
        <4>1. Len(upto(i)) = i /\ i \in 1 .. i /\ i \in Files
          BY <1>2, <1>3, <3>2
        <4>2. upto(i) # <<>> /\ Last(upto(i)) = i
          <5>1. upto(i)[i] = i
            BY <1>3, <4>1
          <5> HIDE DEF upto
          <5>2. Len(<<>>) = 0
            BY EmptySeq
          <5> QED
            BY <3>2, <4>1, <5>1, <5>2 DEF Last
        <4> HIDE DEF upto
        <4>3. next = NextOf(i)
          BY <4>1, <4>2
        <4> QED
          BY <1>2, <4>1, <4>3 DEF NextOf
      <3> QED
        BY <3>1, <3>2
    <2>2. CASE i = NbFiles
      <3> HIDE DEF upto
      <3> QED
        BY <1>2, <2>1, <2>2
    <2>3. CASE i < NbFiles
      <3>1. i + 1 \in 0 .. NbFiles /\ i + 1 # 0 /\ i \in Nat
        BY <1>2, <2>3
      <3>2. Append(upto(i), i + 1) = upto(i + 1)
        <4>1. /\ upto(i) \in Seq(Nat) /\ Len(upto(i)) = i
              /\ \A j \in 1 .. i : upto(i)[j] = j
          BY <1>3
        <4>2. /\ upto(i + 1) \in Seq(Nat) /\ Len(upto(i + 1)) = i + 1
              /\ \A j \in 1 .. i + 1 : upto(i + 1)[j] = j
          BY <1>3, <3>1
        <4> HIDE DEF upto
        <4>3. /\ Append(upto(i), i + 1) \in Seq(Nat) /\ Len(Append(upto(i), i + 1)) = i + 1
              /\ \A j \in 1 .. i : Append(upto(i), i + 1)[j] = upto(i)[j]
              /\ Append(upto(i), i + 1)[i + 1] = i + 1
          BY <3>1, <4>1, AppendProperties
        <4>4. ASSUME NEW j \in 1 .. i + 1
              PROVE  Append(upto(i), i + 1)[j] = upto(i + 1)[j]
          <5>1. j = i + 1 \/ j \in 1 .. i
            BY <3>1
          <5> QED
            BY <4>1, <4>2, <4>3, <5>1
        <4> QED
          BY <4>2, <4>3, <4>4, SeqEqual
      <3> HIDE DEF upto
      <3>3. Follow(upto(i)) = IF next = 0 THEN upto(i) ELSE Append(upto(i), next)
        OBVIOUS
      <3> HIDE DEF next, Follow
      <3> QED
        BY <2>1, <2>3, <3>1, <3>2, <3>3
    <2>4. i = NbFiles \/ i < NbFiles
      BY <1>2
    <2> HIDE DEF Follow, upto
    <2> QED
      BY <2>2, <2>3, <2>4
  <1>5. upto(0) = <<>>
    OBVIOUS
  <1> HIDE DEF Follow, upto
  <1>6. Walked(g)
    <2>1. ASSUME NEW i \in 0 .. N  PROVE g[i] = Step(g, i)
      <3>1. CASE i = 0
        BY <1>2, <1>5, <3>1
      <3>2. CASE i > 0
        <4>1. i - 1 \in 0 .. N /\ i - 1 \in 0 .. NbFiles /\ (i - 1) + 1 = i
          BY <1>2, <3>2
        <4>2. g[i - 1] = upto(i - 1)
          BY <4>1
        <4>3. g[i] = IF i - 1 < NbFiles THEN upto(i) ELSE upto(i - 1)
          <5>1. CASE i <= NbFiles
            <6>1. i - 1 < NbFiles
              BY <1>2, <5>1
            <6> QED
              BY <5>1, <6>1
          <5>2. CASE i > NbFiles
            <6>1. i - 1 = NbFiles /\ ~(i <= NbFiles) /\ ~(i - 1 < NbFiles)
              BY <1>2, <5>2
            <6> QED
              BY <6>1
          <5> QED
            BY <1>2, <5>1, <5>2
        <4> HIDE DEF g
        <4> QED
          BY <1>4, <3>2, <4>1, <4>2, <4>3
      <3> QED
        BY <1>2, <3>1, <3>2
    <2> HIDE DEF Step
    <2> QED
      BY <2>1
  <1>7. Walked(w)
    BY <1>6
  <1> HIDE DEF w
  <1>8. \A i \in 0 .. N : w[i] = Step(w, i) /\ g[i] = Step(g, i)
    BY <1>6, <1>7
  <1>9. g[N] = upto(NbFiles)
    BY <1>2
  <1> HIDE DEF g, Walked
  <1>10. w[0] = g[0]
    <2>1. 0 \in 0 .. N
      BY <1>2
    <2> QED
      BY <1>8, <2>1
  <1>11. \A i \in 1 .. N : w[i - 1] = g[i - 1] => w[i] = g[i]
    <2>1. \A i \in 1 .. N : i \in 0 .. N /\ i # 0
      BY <1>2
    <2> QED
      BY <1>8, <2>1
  <1>12. w[N] = g[N]
    <2> N \in Nat
      BY <1>2
    <2> HIDE DEF N
    <2> QED
      BY <1>10, <1>11, SameFrom
  <1> QED
    BY <1>1, <1>2, <1>9, <1>12 DEF upto

(* An image with a superblock is readable, whatever other programs did to  *)
(* the files while it was made: its inodes are one chain in the order of   *)
(* the files, and each gives back the bytes that were read, in order.      *)
THEOREM ImagesReadBack == Spec => []Readable
  <1>1. ASSUME SizeInv, Complete
        PROVE  /\ InodeChain = [f \in Files |-> f]
               /\ \A f \in Files :
                     Contents(image[f].inode) = [k \in 1 .. taken[f] |-> <<f, k - 1>>]
    <2>1. /\ pc = "done" /\ file = NbFiles + 1 /\ image[0].inode_idx = 1
          /\ NbFiles \in Nat /\ Files = 1 .. file - 1 /\ taken \in [Files -> Nat]
      BY <1>1, Sizes DEF SizeInv, ReadInv, Layout, Complete, Files, Fields
    <2>2. \A f \in Files : Holds(image, image[f].inode, f, taken[f])
      BY <1>1, <2>1 DEF SizeInv, ReadInv, Written
    <2>3. InodeChain = [f \in Files |-> f]
      BY <2>1, <2>2, ChainReads DEF Holds
    <2>4. ASSUME NEW f \in Files
          PROVE  Contents(image[f].inode) = [k \in 1 .. taken[f] |-> <<f, k - 1>>]
      <3>1. \A blks : DataOf(blks) = DataIn(image, blks)
        BY DEF DataOf, DataIn, PieceOf
      <3>2. Contents(image[f].inode) = ContentsIn(image, image[f].inode)
        BY <3>1 DEF Contents, ContentsIn, IndexIn
      <3>3. ContentsIn(image, image[f].inode) = Bytes(f, 0, taken[f])
        BY <2>2 DEF Holds
      <3>4. Bytes(f, 0, taken[f]) = [k \in 1 .. taken[f] |-> <<f, k - 1>>]
        <4>1. PICK n \in Nat : n = taken[f]
          BY <2>1
        <4>2. n - 0 = n /\ \A k \in 1 .. n : 0 + k - 1 = k - 1
          BY <4>1
        <4>3. Bytes(f, 0, n) = [k \in 1 .. n |-> <<f, k - 1>>]
          BY <4>2 DEF Bytes
        <4> QED
          BY <4>1, <4>3
      <3> QED
        BY <3>2, <3>3, <3>4
    <2> QED
      BY <2>3, <2>4
  <1>2. SizeInv => Readable
    BY <1>1 DEF Readable
  <1> QED
    BY SizesHold, <1>2, PTL

(* Of a file nobody else touched, the inode's size and block count, filled *)
(* in before the first read, are those of the blocks it was given.         *)
THEOREM InodesCountTheirBlocks == Spec => []SizesAgree
  <1>1. ASSUME SizeInv, NEW f \in Files \ changed, f \in DOMAIN image
        PROVE  /\ image[f].inode.file_sz = taken[f]
               /\ image[f].inode.blk_cnt = Count(image, image[f].inode)
    <2>1. f \in 1 .. file - 1
      BY <1>1, Sizes DEF SizeInv, ReadInv, Layout, Files
    <2> QED
      BY <1>1, <2>1 DEF SizeInv, SizesWritten
  <1>2. SizeInv => SizesAgree
    BY <1>1 DEF SizesAgree, Count, EntriesIn
  <1> QED
    BY SizesHold, <1>2, PTL

=============================================================================
