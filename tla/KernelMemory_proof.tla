------------------------- MODULE KernelMemory_proof -------------------------
(***************************************************************************)
(* Theorems about KernelMemory, for every value of its constants.          *)
(***************************************************************************)
EXTENDS KernelMemory, SequenceTheorems, FiniteSetTheorems,
        WellFoundedInduction, TLAPS

-----------------------------------------------------------------------------
(* A non-empty set of naturals has a smallest element, so that First, the  *)
(* element a scan in list order finds, is in the set it is chosen from.    *)
LEMMA FirstIsIn ==
    ASSUME NEW S, S \subseteq Nat, S # {}
    PROVE  First(S) \in S /\ \A j \in S : First(S) <= j
<1> DEFINE T == {0 .. x : x \in S}
<1>1. IsWellFoundedOn(StrictSubsetOrdering(Nat), FiniteSubsetsOf(Nat))
  BY FS_StrictSubsetOrderingWellFounded
<1>2. T \subseteq FiniteSubsetsOf(Nat)
  <2>1. ASSUME NEW x \in S  PROVE IsFiniteSet(0 .. x) /\ 0 .. x \subseteq Nat
    BY FS_Interval
  <2>2. QED
    BY <2>1 DEF FiniteSubsetsOf
<1>3. PICK I \in T : \A J \in T : ~(<<J, I>> \in StrictSubsetOrdering(Nat))
  <2>1. T # {}
    OBVIOUS
  <2>2. QED
    BY <1>1, <1>2, <2>1, WFMin
<1>4. PICK i \in S : I = 0 .. i
  OBVIOUS
<1>5. ASSUME NEW j \in S, j < i  PROVE FALSE
  <2>1. 0 .. j \in T /\ 0 .. j \subseteq I /\ 0 .. j # I /\ 0 .. j \subseteq Nat
    BY <1>4, <1>5
  <2>2. <<0 .. j, I>> \in StrictSubsetOrdering(Nat)
    BY <1>4, <2>1 DEF StrictSubsetOrdering
  <2>3. QED
    BY <1>3, <2>1, <2>2
<1>6. \A j \in S : i <= j
  BY <1>5
<1>7. QED
  BY <1>6 DEF First

(* The stack after a call, after a jump and after a return, frame by frame.*)
LEMMA PushedStack ==
    ASSUME NEW F, NEW s \in Seq(F), s # <<>>, NEW a \in F, NEW b \in F
    PROVE  LET t == <<a, b>> \o Tail(s)
           IN  /\ t \in Seq(F) /\ Len(t) = Len(s) + 1
               /\ t[1] = a /\ t[2] = b
               /\ \A i \in 3 .. Len(t) : t[i] = s[i - 1]
OBVIOUS

LEMMA JumpedStack ==
    ASSUME NEW F, NEW s \in Seq(F), s # <<>>, NEW a \in F
    PROVE  LET t == <<a>> \o Tail(s)
           IN  /\ t \in Seq(F) /\ Len(t) = Len(s)
               /\ t[1] = a
               /\ \A i \in 2 .. Len(t) : t[i] = s[i]
OBVIOUS

LEMMA PoppedStack ==
    ASSUME NEW F, NEW s \in Seq(F), s # <<>>
    PROVE  LET t == Tail(s)
           IN  /\ t \in Seq(F) /\ Len(t) = Len(s) - 1
               /\ \A i \in 1 .. Len(t) : t[i] = s[i + 1]
OBVIOUS

LEMMA InsertAtType ==
    ASSUME NEW S, NEW s \in Seq(S), NEW i \in 1 .. Len(s), NEW e \in S
    PROVE  LET t == InsertAt(s, i, e)
           IN  /\ t \in Seq(S) /\ Len(t) = Len(s) + 1
               /\ t[i] = e
               /\ \A j \in 1 .. i - 1 : t[j] = s[j]
               /\ \A j \in i .. Len(s) : t[j + 1] = s[j]
<1> DEFINE a == SubSeq(s, 1, i - 1)
           b == SubSeq(s, i, Len(s))
<1>1. /\ a \in Seq(S) /\ Len(a) = i - 1
      /\ \A j \in 1 .. i - 1 : a[j] = s[j]
  OBVIOUS
<1>2. /\ b \in Seq(S) /\ Len(b) = Len(s) - i + 1
      /\ \A j \in 1 .. Len(s) - i + 1 : b[j] = s[i + j - 1]
  OBVIOUS
<1>3. InsertAt(s, i, e) = (a \o <<e>>) \o b
  BY DEF InsertAt
<1> HIDE DEF a, b
<1>4. LET c == a \o <<e>>
      IN  /\ c \in Seq(S) /\ Len(c) = i /\ c[i] = e
          /\ \A j \in 1 .. i - 1 : c[j] = s[j]
  BY <1>1
<1> DEFINE c == a \o <<e>>
           t == c \o b
<1>5. c \in Seq(S) /\ Len(c) = i /\ c[i] = e /\ \A j \in 1 .. i - 1 : c[j] = s[j]
  BY <1>4
<1> HIDE DEF c
<1>6. /\ t \in Seq(S) /\ Len(t) = Len(s) + 1
      /\ \A k \in 1 .. Len(s) + 1 : t[k] = IF k <= i THEN c[k] ELSE b[k - i]
  BY <1>2, <1>5
<1> HIDE DEF t
<1>7. t[i] = e /\ \A j \in 1 .. i - 1 : t[j] = s[j]
  BY <1>5, <1>6
<1>8. ASSUME NEW j \in i .. Len(s)  PROVE t[j + 1] = s[j]
  <2>1. t[j + 1] = b[j + 1 - i]
    BY <1>6
  <2>2. b[j + 1 - i] = s[i + (j + 1 - i) - 1]
    BY <1>2
  <2>3. QED
    BY <2>1, <2>2
<1>9. QED
  BY <1>3, <1>6, <1>7, <1>8 DEF t, c

-----------------------------------------------------------------------------
(* Frames and what may be made of them.                                    *)
LEMMA WordIsPositive ==
    /\ Word \in Nat /\ Word > 0 /\ NULL \in Address
    /\ \A n \in Int : n % Word \in Address
BY SizesAssumption DEF Address, NULL

LEMMA ReserveIsLive ==
    ASSUME NEW b \in Address, NEW n \in Address, NEW x \in BOOLEAN
    PROVE  Reserve(b, n, x) \in LiveFrame
BY DEF Reserve, LiveFrame, Frame, ReserveFrame, SplitPc, CachePc

LEMMA SplitIsLive ==
    ASSUME NEW m \in 1 .. Len(blocks), NEW n \in Address, Len(blocks) \in Nat
    PROVE  Split(m, n) \in LiveFrame
BY DEF Split, LiveFrame, Frame, SplitFrame, SplitPc, CachePc

LEMMA AllocIsLive ==
    ASSUME NEW c \in Caches, NEW x \in BOOLEAN, slabs[c] # <<>>
    PROVE  Alloc(c, x) \in LiveFrame
BY DEF Alloc, LiveFrame, Frame, AllocFrame, SplitPc, CachePc

LEMMA ExtendIsLive ==
    ASSUME NEW c \in Caches, NEW p \in Address, NEW n \in Address,
           NEW k \in Nat, NEW x \in BOOLEAN, slabs[c] # <<>>
    PROVE  Extend(c, p, n, k, x) \in LiveFrame
BY DEF Extend, LiveFrame, Frame, ExtendFrame, SplitPc, CachePc

(* A frame's pc tells which procedure it belongs to; the procedure may     *)
(* resume it at any of its points.                                         *)
AllocPc == {"alloc_try", "alloc_meta", "alloc_own", "alloc_grow"}
ExtPc == {"ext_alloc", "ext_link"}

LEMMA ReserveByPc ==
    ASSUME NEW f \in LiveFrame, f.pc \in ReservePc
    PROVE  /\ f \in ReserveFrame
           /\ \A pc \in ReservePc : [f EXCEPT !.pc = pc] \in LiveFrame
BY DEF LiveFrame, Frame, ReserveFrame, SplitFrame, AllocFrame, ExtendFrame,
       SplitPc, CachePc, ReservePc

LEMMA SplitByPc ==
    ASSUME NEW f \in LiveFrame, f.pc \in SplitPc
    PROVE  /\ f \in SplitFrame /\ f.m \in 1 .. Len(blocks)
           /\ \A pc \in SplitPc : [f EXCEPT !.pc = pc] \in LiveFrame
BY DEF LiveFrame, Frame, ReserveFrame, SplitFrame, AllocFrame, ExtendFrame,
       SplitPc, CachePc

LEMMA AllocByPc ==
    ASSUME NEW f \in LiveFrame, f.pc \in AllocPc
    PROVE  /\ f \in AllocFrame /\ slabs[f.cache] # <<>>
           /\ \A pc \in AllocPc : [f EXCEPT !.pc = pc] \in LiveFrame
BY DEF LiveFrame, Frame, ReserveFrame, SplitFrame, AllocFrame, ExtendFrame,
       SplitPc, CachePc, AllocPc

LEMMA ExtendByPc ==
    ASSUME NEW f \in LiveFrame, f.pc \in ExtPc
    PROVE  /\ f \in ExtendFrame /\ slabs[f.cache] # <<>>
           /\ \A pc \in ExtPc : [f EXCEPT !.pc = pc] \in LiveFrame
BY DEF LiveFrame, Frame, ReserveFrame, SplitFrame, AllocFrame, ExtendFrame,
       SplitPc, CachePc, ExtPc

(* The sizes the constants fix are addresses.                              *)
LEMMA Products ==
    ASSUME NEW a \in Nat, NEW b \in Nat
    PROVE  a * b \in Nat /\ (a + 1) * b = a * b + b
OBVIOUS

LEMMA SizesFit ==
    /\ MetaSize \in Address /\ ExtSize \in Address /\ LowSize \in Address
    /\ UserNmemb * UserBsize \in Address /\ CacheDataSize \in Address
    /\ Len(Zones) * 2 * MapSize \in Address
    /\ LastLoaded \in Address /\ KernelBase \in Address
    /\ Nmemb \in Nat /\ Nmemb - 1 \in Nat /\ CacheSize \in Nat /\ MapSize \in Nat
    /\ ExtNmemb \in Nat /\ UserNmemb \in Nat
    /\ Len(Zones) \in Nat /\ (Nmemb + 1) * CacheSize \in Nat
    /\ KernelBase <= LastLoaded /\ LastLoaded + CacheDataSize < Word
<1> DEFINE data == Nmemb * CacheSize
           maps == Len(Zones) * 2 * MapSize
<1>1. /\ Nmemb \in Nat /\ Nmemb - 1 \in Nat /\ CacheSize \in Nat /\ MapSize \in Nat
      /\ ExtNmemb \in Nat /\ UserNmemb \in Nat /\ UserBsize \in Nat
      /\ LowSize \in Address /\ KernelBase \in Address /\ Word \in Nat
      /\ KernelEnd \in Nat /\ KernelBase \in Nat
  BY SizesAssumption DEF Address
<1>2. LastLoaded \in Nat /\ Len(Zones) \in Nat /\ KernelEnd <= LastLoaded
  <2> DEFINE modEnd == IF ModEnds = <<>> THEN 0 ELSE ModEnds[Len(ModEnds)]
  <2>1. modEnd \in Nat
    <3>1. ModEnds \in Seq(Address)
      BY SizesAssumption
    <3>2. ModEnds # <<>> => ModEnds[Len(ModEnds)] \in Address
      <4>1. ModEnds # <<>> => Len(ModEnds) \in 1 .. Len(ModEnds)
        BY <3>1, EmptySeq
      <4>2. QED
        BY <3>1, <4>1, ElementOfSeq
    <3>3. QED
      BY <3>2 DEF Address
  <2>2. LastLoaded = IF modEnd < KernelEnd THEN KernelEnd ELSE modEnd
    BY DEF LastLoaded
  <2> HIDE DEF modEnd
  <2>3. LastLoaded \in Nat /\ KernelEnd <= LastLoaded
    BY <1>1, <2>1, <2>2
  <2>4. Len(Zones) \in Nat
    BY ZonesAssumption, LenProperties
  <2>5. QED
    BY <2>3, <2>4
<1>3. data \in Nat /\ (Nmemb + 1) * CacheSize = data + CacheSize
  BY <1>1, Products
<1>4. maps \in Nat
  BY <1>1, <1>2, Products
<1>5. ExtNmemb * CacheSize \in Nat /\ UserNmemb * UserBsize \in Nat
  BY <1>1, Products
<1>6. CacheDataSize = (data + CacheSize) + maps
  BY <1>3 DEF CacheDataSize
<1> HIDE DEF data, maps
<1>7. /\ LastLoaded + CacheDataSize < Word /\ CacheDataSize \in Nat
      /\ data < Word /\ maps < Word /\ LastLoaded < Word /\ CacheDataSize < Word
      /\ KernelBase <= LastLoaded
  <2>1. LastLoaded + CacheDataSize < Word /\ KernelBase <= KernelEnd
    BY DataAssumption
  <2> HIDE DEF CacheDataSize
  <2>2. QED
    BY <1>1, <1>2, <1>3, <1>4, <1>6, <2>1
<1>8. /\ ExtNmemb * CacheSize \in Address /\ UserNmemb * UserBsize \in Address
      /\ data \in Address /\ maps \in Address
      /\ LastLoaded \in Address /\ CacheDataSize \in Address
  <2>1. ExtNmemb * CacheSize < Word /\ UserNmemb * UserBsize < Word
    BY DataAssumption DEF ExtSize
  <2>2. QED
    BY <1>1, <1>2, <1>3, <1>4, <1>5, <1>7, <2>1 DEF Address
<1>9. QED
  <2>1. MetaSize \in Address /\ ExtSize \in Address
    BY <1>8 DEF MetaSize, ExtSize, data
  <2>2. Len(Zones) * 2 * MapSize \in Address
    BY <1>8 DEF maps
  <2>3. (Nmemb + 1) * CacheSize \in Nat
    BY <1>1, <1>3
  <2>4. QED
    BY <1>1, <1>2, <1>7, <1>8, <2>1, <2>2, <2>3

-----------------------------------------------------------------------------
(* Type correctness.                                                       *)
TypeInv == TypeOK /\ LiveReferences

LEMMA TypeInit == Init => TypeInv
<1> SUFFICES ASSUME Init PROVE TypeInv
  OBVIOUS
<1>1. blocks = [i \in 1 .. Len(Zones) |-> ZoneBlock(Zones[i])] /\ Len(Zones) \in Nat
  BY SizesFit DEF Init
<1>2. blocks \in Seq(Block) /\ Len(blocks) = Len(Zones)
  <2>1. ASSUME NEW i \in 1 .. Len(Zones)  PROVE ZoneBlock(Zones[i]) \in Block
    <3>1. Zones[i] \in [addr : Nat, len : Nat, type : Nat \ {0}]
      BY ZonesAssumption, ElementOfSeq
    <3>2. Zones[i].addr % Word \in Address /\ Zones[i].len % Word \in Address
      <4>1. Zones[i].addr \in Int /\ Zones[i].len \in Int
        BY <3>1
      <4>2. QED
        BY <4>1, WordIsPositive
    <3>3. Zones[i].type - 1 \in Nat
      BY <3>1
    <3>4. QED
      BY <3>2, <3>3 DEF ZoneBlock, Block
  <2>2. QED
    BY <1>1, <2>1
<1>3. /\ order \in Seq(1 .. Len(blocks))
      /\ \A d \in 1 .. Len(blocks) : \E i \in 1 .. Len(order) : order[i] = d
  <2>1. order = [i \in 1 .. Len(blocks) |-> i] /\ Len(blocks) \in Nat
    BY <1>1, <1>2 DEF Init
  <2>2. order \in Seq(1 .. Len(blocks)) /\ Len(order) = Len(blocks)
    BY <2>1
  <2>3. QED
    BY <2>1, <2>2
<1>4. /\ slabs \in [Caches -> Seq(Slab)]
      /\ slabs["meta"] # <<>> /\ slabs["mmap"] # <<>>
  <2> DEFINE meta == [NewSlab((LastLoaded + CacheSize) % Word, MetaSize, Nmemb)
                        EXCEPT !.free = Nmemb - 1]
             mmap == [NewSlab((LastLoaded + (Nmemb + 1) * CacheSize) % Word,
                              Len(Zones) * 2 * MapSize, Len(Zones) * 2)
                        EXCEPT !.free = Len(Zones)]
  <2>1. slabs = [c \in Caches |-> CASE c = "meta" -> <<meta>>
                                   [] c = "mmap" -> <<mmap>>
                                   [] OTHER -> <<>>]
    BY DEF Init
  <2>2. /\ (LastLoaded + CacheSize) % Word \in Address
        /\ (LastLoaded + (Nmemb + 1) * CacheSize) % Word \in Address
    <3>1. LastLoaded \in Nat
      BY SizesFit DEF Address
    <3>2. /\ LastLoaded + CacheSize \in Int
          /\ LastLoaded + (Nmemb + 1) * CacheSize \in Int
      BY <3>1, SizesFit
    <3>3. QED
      BY <3>2, WordIsPositive
  <2>3. meta \in Slab
    BY <2>2, SizesFit DEF Slab, NewSlab
  <2>4. mmap \in Slab
    <3>1. Len(Zones) * 2 \in Nat
      BY SizesFit
    <3>2. QED
      BY <2>2, <3>1, SizesFit DEF Slab, NewSlab
  <2> HIDE DEF meta, mmap
  <2>5. "meta" \in Caches /\ "mmap" \in Caches
    BY DEF Caches
  <2>6. \A c \in Caches : slabs[c] \in Seq(Slab)
    BY <2>1, <2>3, <2>4
  <2>7. slabs["meta"] # <<>> /\ slabs["mmap"] # <<>>
    BY <2>1, <2>5
  <2>8. QED
    BY <2>1, <2>6, <2>7
<1>5. /\ call \in PendingCall /\ phase \in BootPhases /\ ret \in Address
      /\ owned = {} /\ starved \in BOOLEAN /\ nullSlab \in BOOLEAN /\ stack = <<>>
  BY WordIsPositive DEF Init, PendingCall, NoCall, BootPhases
<1>6. stack \in Seq(Frame) /\ stack \in Seq(LiveFrame)
  BY <1>5
<1>7. QED
  BY <1>2, <1>3, <1>4, <1>5, <1>6 DEF TypeInv, TypeOK, LiveReferences

(* The frame on top, and the data the constants fix.                       *)
LEMMA TopIsLive ==
    ASSUME TypeInv, stack # <<>>
    PROVE  Top \in LiveFrame /\ Tail(stack) \in Seq(LiveFrame)
BY DEF TypeInv, LiveReferences, Top

(* An action that only calls, or only jumps, keeps the types.              *)
LEMMA CallKeepsTypes ==
    ASSUME TypeInv, stack # <<>>,
           NEW callee \in LiveFrame, NEW pc, [Top EXCEPT !.pc = pc] \in LiveFrame,
           Call(callee, pc), starved' \in BOOLEAN,
           UNCHANGED <<blocks, order, slabs, ret, Control, owned, nullSlab>>
    PROVE  TypeInv'
<1>1. stack' \in Seq(LiveFrame)
  BY PushedStack DEF Call, TypeInv, LiveReferences
<1>2. LiveFrame' = LiveFrame
  BY DEF LiveFrame
<1>3. stack' \in Seq(Frame)
  BY <1>1 DEF LiveFrame
<1>4. QED
  BY <1>1, <1>2, <1>3 DEF TypeInv, TypeOK, LiveReferences, Control

LEMMA GotoKeepsTypes ==
    ASSUME TypeInv, stack # <<>>, NEW frame \in LiveFrame, Goto(frame),
           UNCHANGED <<blocks, order, slabs, ret, Control, History>>
    PROVE  TypeInv'
<1>1. stack' \in Seq(LiveFrame)
  BY JumpedStack DEF Goto, TypeInv, LiveReferences
<1>2. LiveFrame' = LiveFrame
  BY DEF LiveFrame
<1>3. stack' \in Seq(Frame)
  BY <1>1 DEF LiveFrame
<1>4. QED
  BY <1>1, <1>2, <1>3 DEF TypeInv, TypeOK, LiveReferences, Control, History

(* What was live stays live while blocks and slabs are only added.         *)
LEMMA LiveFramesStay ==
    ASSUME TypeInv, Len(blocks) <= Len(blocks)', Len(blocks)' \in Nat,
           \A c \in Caches : slabs[c] # <<>> => slabs'[c] # <<>>
    PROVE  LiveFrame \subseteq LiveFrame'
<1>1. Len(blocks) \in Nat
  BY DEF TypeInv, TypeOK
<1>2. ASSUME NEW f \in LiveFrame  PROVE f \in LiveFrame'
  <2>1. f.pc \in CachePc => f.cache \in Caches
    BY DEF LiveFrame, Frame, ReserveFrame, SplitFrame, AllocFrame, ExtendFrame,
           CachePc
  <2>2. QED
    BY <1>1, <2>1 DEF LiveFrame
<1>3. QED
  BY <1>2

LEMMA ReturnKeepsStack ==
    ASSUME TypeInv, stack # <<>>, stack' = Tail(stack), LiveFrame \subseteq LiveFrame'
    PROVE  (stack \in Seq(LiveFrame) /\ stack \in Seq(Frame))'
<1>1. stack' \in Seq(LiveFrame)
  BY PoppedStack DEF TypeInv, LiveReferences
<1>2. stack' \in Seq(LiveFrame') /\ stack' \in Seq(Frame)
  BY <1>1, SeqMonotonic DEF LiveFrame
<1>3. QED
  BY <1>2 DEF LiveFrame

-----------------------------------------------------------------------------
(* The steps of the slab caches keep the types.                            *)
LEMMA AllocTop ==
    ASSUME TypeInv, NEW pc \in AllocPc, At(pc)
    PROVE  /\ stack # <<>> /\ Top \in AllocFrame /\ Top \in LiveFrame
           /\ Top.cache \in Caches /\ slabs[Top.cache] # <<>>
           /\ \A q \in AllocPc : [Top EXCEPT !.pc = q] \in LiveFrame
           /\ slabs[Top.cache][1] \in Slab
<1>1. stack # <<>> /\ Top \in LiveFrame /\ Top.pc \in AllocPc
  BY TopIsLive DEF At
<1>2. /\ Top \in AllocFrame /\ slabs[Top.cache] # <<>>
      /\ \A q \in AllocPc : [Top EXCEPT !.pc = q] \in LiveFrame
  BY <1>1, AllocByPc
<1>3. Top.cache \in Caches
  BY <1>2 DEF AllocFrame
<1>4. slabs[Top.cache] \in Seq(Slab)
  BY <1>3 DEF TypeInv, TypeOK
<1>5. slabs[Top.cache][1] \in Slab
  BY <1>2, <1>4
<1>6. QED
  BY <1>1, <1>2, <1>3, <1>5

LEMMA AllocHitKeepsTypes == ASSUME TypeInv, AllocHit PROVE TypeInv'
<1> DEFINE c == Top.cache
           i == First(HasFree(c))
<1>1. stack # <<>> /\ c \in Caches /\ slabs[c] \in Seq(Slab) /\ slabs[c] # <<>>
  BY AllocTop DEF AllocHit, AllocPc, TypeInv, TypeOK
<1>2. i \in 1 .. Len(slabs[c]) /\ slabs[c][i].free > 0
  <2>1. HasFree(c) \subseteq Nat /\ HasFree(c) # {}
    <3>1. DOMAIN slabs[c] \subseteq Nat
      BY <1>1
    <3>2. HasFree(c) \subseteq DOMAIN slabs[c]
      BY DEF HasFree
    <3>3. HasFree(c) # {}
      BY DEF AllocHit
    <3>4. QED
      BY <3>1, <3>2, <3>3
  <2>2. i \in HasFree(c)
    BY <2>1, FirstIsIn
  <2>3. QED
    BY <1>1, <2>2 DEF HasFree
<1>3. [slabs[c][i] EXCEPT !.free = @ - 1] \in Slab
  <2>1. slabs[c][i] \in Slab
    BY <1>1, <1>2
  <2>2. QED
    BY <1>2, <2>1 DEF Slab
<1>4. /\ [slabs[c] EXCEPT ![i] = [slabs[c][i] EXCEPT !.free = @ - 1]] \in Seq(Slab)
      /\ [slabs[c] EXCEPT ![i] = [slabs[c][i] EXCEPT !.free = @ - 1]] # <<>>
  BY <1>1, <1>2, <1>3, ExceptSeq
<1>5. slabs' = [slabs EXCEPT ![c] =
                  [slabs[c] EXCEPT ![i] = [slabs[c][i] EXCEPT !.free = @ - 1]]]
  BY DEF AllocHit
<1> HIDE DEF c, i
<1>6. /\ slabs' \in [Caches -> Seq(Slab)]
      /\ \A d \in Caches : slabs[d] # <<>> => slabs'[d] # <<>>
  BY <1>1, <1>4, <1>5 DEF TypeInv, TypeOK
<1>7. /\ stack' = Tail(stack) /\ ret' = NULL
      /\ UNCHANGED <<blocks, order, call, phase, owned, starved, nullSlab>>
  BY DEF AllocHit, Return, Control, History
<1>8. LiveFrame \subseteq LiveFrame'
  BY <1>6, <1>7, LiveFramesStay DEF TypeInv, TypeOK
<1>9. (stack \in Seq(LiveFrame) /\ stack \in Seq(Frame))'
  BY <1>1, <1>7, <1>8, ReturnKeepsStack
<1>10. ret' \in Address
  BY <1>7, WordIsPositive
<1>11. slabs'["meta"] # <<>> /\ slabs'["mmap"] # <<>>
  BY <1>6 DEF TypeInv, LiveReferences, Caches
<1>12. QED
  BY <1>6, <1>7, <1>9, <1>10, <1>11 DEF TypeInv, TypeOK, LiveReferences

LEMMA AllocCallsKeepTypes ==
    ASSUME TypeInv, AllocRefill \/ AllocMiss \/ AllocMeta \/ AllocOwn \/ AllocGrow
    PROVE  TypeInv'
<1> DEFINE root == slabs[Top.cache][1]
<1>1. PICK pc \in AllocPc : At(pc)
  BY DEF AllocPc, AllocRefill, AllocMiss, AllocMeta, AllocOwn, AllocGrow
<1>2. /\ stack # <<>> /\ Top.cache \in Caches /\ slabs[Top.cache] # <<>>
      /\ \A q \in AllocPc : [Top EXCEPT !.pc = q] \in LiveFrame
      /\ root \in Slab
  BY <1>1, AllocTop
<1>3. /\ root.size \in Address /\ root.nmemb \in Nat
      /\ MetaSize \in Address /\ Nmemb \in Nat /\ 0 \in Address
      /\ ret \in Address /\ "meta" \in Caches /\ slabs["meta"] # <<>>
      /\ starved \in BOOLEAN
  BY <1>2, SizesFit, WordIsPositive
     DEF Slab, NULL, TypeInv, TypeOK, LiveReferences, Caches
<1>4. CASE AllocRefill
  <2>1. Reserve(0, MetaSize, TRUE) \in LiveFrame
    BY <1>3, ReserveIsLive
  <2>2. QED
    BY <1>2, <1>3, <1>4, <2>1, CallKeepsTypes DEF AllocRefill, AllocPc
<1>5. CASE AllocMiss
  <2>1. Reserve(0, root.size, FALSE) \in LiveFrame
    BY <1>3, ReserveIsLive
  <2>2. QED
    BY <1>2, <1>3, <1>5, <2>1, CallKeepsTypes DEF AllocMiss, AllocPc
<1>6. CASE AllocMeta
  <2>1. Extend("meta", ret, MetaSize, Nmemb, TRUE) \in LiveFrame
    BY <1>3, ExtendIsLive
  <2>2. QED
    BY <1>2, <1>3, <1>6, <2>1, CallKeepsTypes DEF AllocMeta, AllocPc, History
<1>7. CASE AllocOwn
  <2>1. Reserve(0, root.size, FALSE) \in LiveFrame
    BY <1>3, ReserveIsLive
  <2>2. QED
    BY <1>2, <1>3, <1>7, <2>1, CallKeepsTypes DEF AllocOwn, AllocPc, History
<1>8. CASE AllocGrow
  <2>1. Extend(Top.cache, ret, root.size, root.nmemb, FALSE) \in LiveFrame
    BY <1>2, <1>3, ExtendIsLive
  <2>2. QED
    BY <1>2, <1>3, <1>8, <2>1, CallKeepsTypes DEF AllocGrow, AllocPc, History
<1>9. QED
  BY <1>4, <1>5, <1>6, <1>7, <1>8

LEMMA ExtendAllocKeepsTypes == ASSUME TypeInv, ExtendAlloc PROVE TypeInv'
<1>1. stack # <<>> /\ Top \in LiveFrame /\ Top.pc \in ExtPc
  BY TopIsLive DEF ExtendAlloc, At, ExtPc
<1>2. Top \in ExtendFrame /\ [Top EXCEPT !.pc = "ext_link"] \in LiveFrame
  BY <1>1, ExtendByPc DEF ExtPc
<1>3. Top.ext \in BOOLEAN /\ "meta" \in Caches /\ slabs["meta"] # <<>>
  BY <1>2 DEF ExtendFrame, Caches, TypeInv, LiveReferences
<1>4. Alloc("meta", Top.ext) \in LiveFrame
  BY <1>3, AllocIsLive
<1>5. QED
  BY <1>1, <1>2, <1>4, CallKeepsTypes DEF ExtendAlloc, History, TypeInv, TypeOK

LEMMA ExtendLinkKeepsTypes == ASSUME TypeInv, ExtendLink PROVE TypeInv'
<1> DEFINE c == Top.cache
           slab == NewSlab(Top.p, Top.size, Top.nmemb)
<1>1. stack # <<>> /\ Top \in LiveFrame /\ Top.pc \in ExtPc
  BY TopIsLive DEF ExtendLink, At, ExtPc
<1>2. Top \in ExtendFrame
  BY <1>1, ExtendByPc
<1>3. c \in Caches /\ slab \in Slab
  BY <1>2 DEF ExtendFrame, NewSlab, Slab
<1>4. slabs' = [slabs EXCEPT ![c] = Append(slabs[c], slab)]
  BY DEF ExtendLink
<1> HIDE DEF c, slab
<1>5. Append(slabs[c], slab) \in Seq(Slab) /\ Append(slabs[c], slab) # <<>>
  <2>1. slabs[c] \in Seq(Slab)
    BY <1>3 DEF TypeInv, TypeOK
  <2>2. QED
    BY <1>3, <2>1, AppendProperties, EmptySeq
<1>6. /\ slabs' \in [Caches -> Seq(Slab)]
      /\ \A d \in Caches : slabs[d] # <<>> => slabs'[d] # <<>>
  BY <1>3, <1>4, <1>5 DEF TypeInv, TypeOK
<1>7. /\ stack' = Tail(stack) /\ ret' = NULL /\ nullSlab' \in BOOLEAN
      /\ UNCHANGED <<blocks, order, call, phase, owned, starved>>
  BY DEF ExtendLink, Return, Control, TypeInv, TypeOK
<1>8. LiveFrame \subseteq LiveFrame'
  BY <1>6, <1>7, LiveFramesStay DEF TypeInv, TypeOK
<1>9. (stack \in Seq(LiveFrame) /\ stack \in Seq(Frame))'
  BY <1>1, <1>7, <1>8, ReturnKeepsStack
<1>10. ret' \in Address
  BY <1>7, WordIsPositive
<1>11. slabs'["meta"] # <<>> /\ slabs'["mmap"] # <<>>
  BY <1>6 DEF TypeInv, LiveReferences, Caches
<1>12. QED
  BY <1>6, <1>7, <1>9, <1>10, <1>11 DEF TypeInv, TypeOK, LiveReferences

-----------------------------------------------------------------------------
(* The steps of the memory map keep the types.                             *)
LEMMA SplitAllocKeepsTypes == ASSUME TypeInv, SplitAlloc PROVE TypeInv'
<1>1. stack # <<>> /\ Top \in LiveFrame /\ Top.pc \in SplitPc
  BY TopIsLive DEF SplitAlloc, At, SplitPc
<1>2. [Top EXCEPT !.pc = "split_link"] \in LiveFrame
  BY <1>1, SplitByPc DEF SplitPc
<1>3. Alloc("mmap", FALSE) \in LiveFrame
  BY AllocIsLive DEF Caches, TypeInv, LiveReferences
<1>4. QED
  BY <1>1, <1>2, <1>3, CallKeepsTypes DEF SplitAlloc, History, TypeInv, TypeOK

(* What SplitLink does to the list and the blocks.                         *)
LEMMA SplitLinkEffect ==
    ASSUME TypeInv, SplitLink
    PROVE  /\ stack # <<>> /\ Top \in SplitFrame /\ Top.m \in 1 .. Len(blocks)
           /\ blocks[Top.m] \in Block
           /\ Len(blocks) \in Nat /\ Len(blocks)' = Len(blocks) + 1
           /\ blocks' \in Seq(Block)
           /\ \A d \in 1 .. Len(blocks) : blocks'[d] =
                  IF d = Top.m THEN Shrink(blocks[d], Top.size) ELSE blocks[d]
           /\ blocks'[Len(blocks) + 1] = FrontOf(blocks[Top.m], Top.size)
           /\ Shrink(blocks[Top.m], Top.size) \in Block
           /\ FrontOf(blocks[Top.m], Top.size) \in Block
<1> DEFINE m == Top.m
<1>1. stack # <<>> /\ Top \in LiveFrame /\ Top.pc \in SplitPc
  BY TopIsLive DEF SplitLink, At, SplitPc
<1>2. Top \in SplitFrame /\ m \in 1 .. Len(blocks)
  BY <1>1, SplitByPc
<1>3. blocks \in Seq(Block) /\ Len(blocks) \in Nat /\ blocks[m] \in Block
  BY <1>2 DEF TypeInv, TypeOK
<1>4. /\ Shrink(blocks[m], Top.size) \in Block
      /\ FrontOf(blocks[m], Top.size) \in Block
  <2>1. /\ blocks[m].base + Top.size \in Int
        /\ blocks[m].size - Top.size \in Int
        /\ Top.size \in Int
    <3>1. Top.size \in Int
      BY <1>2 DEF SplitFrame, Address
    <3>2. blocks[m].base \in Int /\ blocks[m].size \in Int
      BY <1>3 DEF Block, Address
    <3>3. QED
      BY <3>1, <3>2
  <2>2. /\ (blocks[m].base + Top.size) % Word \in Address
        /\ (blocks[m].size - Top.size) % Word \in Address
        /\ Top.size % Word \in Address
    BY <2>1, WordIsPositive
  <2>3. QED
    BY <1>3, <2>2 DEF Shrink, FrontOf, Block, Reserved
<1> DEFINE shrunk == [blocks EXCEPT ![m] = Shrink(blocks[m], Top.size)]
<1>5. /\ shrunk \in Seq(Block) /\ Len(shrunk) = Len(blocks)
      /\ \A d \in 1 .. Len(blocks) : shrunk[d] =
            IF d = m THEN Shrink(blocks[m], Top.size) ELSE blocks[d]
  BY <1>2, <1>3, <1>4, ExceptSeq
<1>6. blocks' = Append(shrunk, FrontOf(blocks[m], Top.size))
  BY DEF SplitLink
<1> HIDE DEF shrunk
<1>7. /\ blocks' \in Seq(Block) /\ Len(blocks') = Len(blocks) + 1
      /\ \A d \in 1 .. Len(blocks) : blocks'[d] = shrunk[d]
      /\ blocks'[Len(blocks) + 1] = FrontOf(blocks[m], Top.size)
  BY <1>3, <1>4, <1>5, <1>6, AppendProperties
<1>8. QED
  BY <1>1, <1>2, <1>3, <1>4, <1>5, <1>7

LEMMA SplitLinkKeepsTypes == ASSUME TypeInv, SplitLink PROVE TypeInv'
<1> DEFINE n == Len(blocks)
           p == Position(Top.m)
<1>1. /\ stack # <<>> /\ Top.m \in 1 .. n /\ n \in Nat /\ Len(blocks') = n + 1
      /\ blocks' \in Seq(Block) /\ blocks[Top.m] \in Block
  BY SplitLinkEffect
<1>2. order \in Seq(1 .. n + 1) /\ n + 1 \in 1 .. n + 1
  BY <1>1, SeqMonotonic DEF TypeInv, TypeOK
<1>3. Len(order) \in Nat /\ DOMAIN order = 1 .. Len(order) /\ p \in 1 .. Len(order)
  <2>1. Len(order) \in Nat /\ DOMAIN order = 1 .. Len(order)
    BY <1>2, LenProperties
  <2>2. PICK i \in DOMAIN order : order[i] = Top.m
    BY <1>1, <2>1 DEF TypeInv, LiveReferences
  <2>3. QED
    BY <2>1, <2>2 DEF Position
<1>4. order' = InsertAt(order, p, n + 1)
  BY DEF SplitLink
<1> HIDE DEF p
<1>5. /\ order' \in Seq(1 .. n + 1) /\ Len(order') = Len(order) + 1
      /\ order'[p] = n + 1
      /\ \A j \in 1 .. p - 1 : order'[j] = order[j]
      /\ \A j \in p .. Len(order) : order'[j + 1] = order[j]
  <2> DEFINE S == 1 .. n + 1
             e == n + 1
  <2>1. order \in Seq(S) /\ p \in 1 .. Len(order) /\ e \in S
    BY <1>2, <1>3
  <2> HIDE DEF S, e
  <2>2. LET t == InsertAt(order, p, e)
        IN  /\ t \in Seq(S) /\ Len(t) = Len(order) + 1
            /\ t[p] = e
            /\ \A j \in 1 .. p - 1 : t[j] = order[j]
            /\ \A j \in p .. Len(order) : t[j + 1] = order[j]
    BY <2>1, InsertAtType
  <2>3. QED
    BY <1>4, <2>2 DEF S, e
<1>6. ASSUME NEW d \in 1 .. n + 1  PROVE \E i \in 1 .. Len(order') : order'[i] = d
  <2>1. CASE d = n + 1
    BY <1>2, <1>3, <1>5, <2>1
  <2>2. CASE d # n + 1
    <3>1. PICK j \in 1 .. Len(order) : order[j] = d
      BY <1>1, <2>2 DEF TypeInv, LiveReferences
    <3>2. CASE j < p
      <4>1. j \in 1 .. Len(order') /\ order'[j] = d
        BY <1>3, <1>5, <3>1, <3>2
      <4>2. QED
        BY <4>1
    <3>3. CASE j >= p
      <4>1. j + 1 \in 1 .. Len(order') /\ order'[j + 1] = d
        BY <1>3, <1>5, <3>1, <3>3
      <4>2. QED
        BY <4>1
    <3>4. QED
      BY <1>3, <3>1, <3>2, <3>3
  <2>3. QED
    BY <2>1, <2>2
<1>7. /\ stack' = Tail(stack) /\ ret' = blocks[Top.m].base
      /\ UNCHANGED <<slabs, call, phase, owned, starved, nullSlab>>
  BY DEF SplitLink, Return, Control, History
<1>8. LiveFrame \subseteq LiveFrame'
  BY <1>1, <1>7, LiveFramesStay
<1>9. (stack \in Seq(LiveFrame) /\ stack \in Seq(Frame))'
  BY <1>1, <1>7, <1>8, ReturnKeepsStack
<1>10. ret' \in Address
  BY <1>1, <1>7 DEF Block
<1>11. QED
  BY <1>1, <1>5, <1>6, <1>7, <1>9, <1>10 DEF TypeInv, TypeOK, LiveReferences

LEMMA ReserveTop ==
    ASSUME TypeInv, NEW pc \in ReservePc, At(pc)
    PROVE  /\ stack # <<>> /\ Top \in ReserveFrame /\ Top \in LiveFrame
           /\ Top.base \in Address /\ Top.size \in Address /\ Top.ext \in BOOLEAN
           /\ \A q \in ReservePc : [Top EXCEPT !.pc = q] \in LiveFrame
<1>1. stack # <<>> /\ Top \in LiveFrame /\ Top.pc \in ReservePc
  BY TopIsLive DEF At
<1>2. Top \in ReserveFrame /\ \A q \in ReservePc : [Top EXCEPT !.pc = q] \in LiveFrame
  BY <1>1, ReserveByPc
<1>3. QED
  BY <1>1, <1>2 DEF ReserveFrame

LEMMA ReserveStepsKeepTypes ==
    ASSUME TypeInv,
           \/ ReserveExtendFirst \/ ReserveEnough \/ ReserveExtend \/ ReserveAgain
    PROVE  TypeInv'
<1>1. PICK pc \in ReservePc : At(pc)
  BY DEF ReservePc, ReserveExtendFirst, ReserveEnough, ReserveExtend, ReserveAgain
<1>2. /\ stack # <<>> /\ Top.base \in Address /\ Top.size \in Address
      /\ \A q \in ReservePc : [Top EXCEPT !.pc = q] \in LiveFrame
  BY <1>1, ReserveTop
<1>3. /\ ExtSize \in Address /\ ExtNmemb \in Nat /\ 0 \in Address
      /\ ret \in Address /\ "mmap" \in Caches /\ slabs["mmap"] # <<>>
      /\ starved \in BOOLEAN
  BY SizesFit, WordIsPositive
     DEF NULL, TypeInv, TypeOK, LiveReferences, Caches
<1>4. CASE ReserveExtendFirst
  <2>1. Reserve(0, ExtSize, TRUE) \in LiveFrame
    BY <1>3, ReserveIsLive
  <2>2. QED
    BY <1>2, <1>3, <1>4, <2>1, CallKeepsTypes
       DEF ReserveExtendFirst, ReservePc, History
<1>5. CASE ReserveEnough
  BY <1>2, <1>5, GotoKeepsTypes DEF ReserveEnough, ReservePc
<1>6. CASE ReserveExtend
  <2>1. Extend("mmap", ret, ExtSize, ExtNmemb, FALSE) \in LiveFrame
    BY <1>3, ExtendIsLive
  <2>2. QED
    BY <1>2, <1>3, <1>6, <2>1, CallKeepsTypes DEF ReserveExtend, ReservePc, History
<1>7. CASE ReserveAgain
  <2>1. Reserve(Top.base, Top.size, FALSE) \in LiveFrame
    BY <1>2, ReserveIsLive
  <2>2. QED
    BY <1>2, <1>7, <2>1, GotoKeepsTypes DEF ReserveAgain
<1>8. QED
  BY <1>4, <1>5, <1>6, <1>7

(* The block a scan stops at exists.                                       *)
LEMMA HitExists ==
    ASSUME TypeInv, Hits # {}
    PROVE  /\ Hit \in 1 .. Len(blocks) /\ blocks[Hit] \in Block
           /\ First(Hits) \in Hits
           /\ blocks[Hit].type = Available
           /\ AnyFit(blocks[Hit]) \/ Covers(blocks[Hit])
<1>1. order \in Seq(1 .. Len(blocks)) /\ blocks \in Seq(Block)
  BY DEF TypeInv, TypeOK
<1>2. DOMAIN order = 1 .. Len(order) /\ Len(order) \in Nat
  BY <1>1, LenProperties
<1>3. Hits \subseteq DOMAIN order /\ Hits \subseteq Nat
  BY <1>2 DEF Hits
<1>4. First(Hits) \in Hits
  BY <1>3, FirstIsIn
<1>5. Hit \in 1 .. Len(blocks)
  BY <1>1, <1>2, <1>3, <1>4, ElementOfSeq DEF Hit
<1>6. blocks[Hit] \in Block
  BY <1>1, <1>5, ElementOfSeq
<1>7. blocks[Hit].type = Available /\ (AnyFit(blocks[Hit]) \/ Covers(blocks[Hit]))
  BY <1>4 DEF Hits, Hit
<1>8. QED
  BY <1>4, <1>5, <1>6, <1>7

LEMMA ScanFailsKeepsTypes == ASSUME TypeInv, ScanFails PROVE TypeInv'
<1>1. /\ stack # <<>> /\ stack' = Tail(stack) /\ ret' = NULL
      /\ UNCHANGED <<blocks, order, slabs, call, phase, owned, starved, nullSlab>>
  BY DEF ScanFails, At, Return, Control, History
<1>2. LiveFrame \subseteq LiveFrame'
  BY <1>1, LiveFramesStay DEF TypeInv, TypeOK
<1>3. (stack \in Seq(LiveFrame) /\ stack \in Seq(Frame))'
  BY <1>1, <1>2, ReturnKeepsStack
<1>4. ret' \in Address
  BY <1>1, WordIsPositive
<1>5. QED
  BY <1>1, <1>3, <1>4 DEF TypeInv, TypeOK, LiveReferences

(* A change of one block's type.                                           *)
LEMMA RetypedBlocks ==
    ASSUME TypeInv, NEW d \in 1 .. Len(blocks), NEW type \in Nat,
           blocks' = [blocks EXCEPT ![d].type = type]
    PROVE  /\ blocks' \in Seq(Block) /\ Len(blocks') = Len(blocks)
           /\ \A e \in 1 .. Len(blocks) :
                 /\ blocks'[e].base = blocks[e].base
                 /\ blocks'[e].size = blocks[e].size
                 /\ blocks'[e].type = IF e = d THEN type ELSE blocks[e].type
<1>1. blocks \in Seq(Block) /\ blocks[d] \in Block
  BY DEF TypeInv, TypeOK
<1> DEFINE b == [blocks[d] EXCEPT !.type = type]
<1>2. b \in Block /\ b.base = blocks[d].base /\ b.size = blocks[d].size /\ b.type = type
  BY <1>1 DEF Block
<1>3. blocks' = [blocks EXCEPT ![d] = b]
  OBVIOUS
<1> HIDE DEF b
<1>4. /\ blocks' \in Seq(Block) /\ Len(blocks') = Len(blocks)
      /\ \A e \in 1 .. Len(blocks) : blocks'[e] = IF e = d THEN b ELSE blocks[e]
  BY <1>1, <1>2, <1>3, ExceptSeq
<1>5. QED
  BY <1>2, <1>4

LEMMA ScanExactKeepsTypes == ASSUME TypeInv, ScanExact PROVE TypeInv'
<1>1. /\ stack # <<>> /\ stack' = Tail(stack) /\ ret' = blocks[Hit].base
      /\ UNCHANGED <<order, slabs, call, phase, owned, starved, nullSlab>>
      /\ Hits # {} /\ blocks' = [blocks EXCEPT ![Hit].type = Reserved]
  BY DEF ScanExact, At, Return, Control, History
<1>2. Hit \in 1 .. Len(blocks) /\ blocks[Hit] \in Block
  BY <1>1, HitExists
<1>3. blocks' \in Seq(Block) /\ Len(blocks') = Len(blocks) /\ Len(blocks) \in Nat
  <2>1. Reserved \in Nat /\ Len(blocks) \in Nat
    BY DEF Reserved, TypeInv, TypeOK
  <2>2. QED
    BY <1>1, <1>2, <2>1, RetypedBlocks
<1>4. LiveFrame \subseteq LiveFrame'
  BY <1>1, <1>3, LiveFramesStay
<1>5. (stack \in Seq(LiveFrame) /\ stack \in Seq(Frame))'
  BY <1>1, <1>4, ReturnKeepsStack
<1>6. ret' \in Address
  BY <1>1, <1>2 DEF Block
<1>7. QED
  BY <1>1, <1>3, <1>5, <1>6 DEF TypeInv, TypeOK, LiveReferences

LEMMA ScanSplitsKeepsTypes == ASSUME TypeInv, ScanSplits PROVE TypeInv'
<1>1. stack # <<>> /\ Top.size \in Address
  BY ReserveTop DEF ScanSplits, ReservePc
<1>2. Hit \in 1 .. Len(blocks) /\ Len(blocks) \in Nat
  BY HitExists DEF ScanSplits, TypeInv, TypeOK
<1>3. Split(Hit, Top.size) \in LiveFrame
  BY <1>1, <1>2, SplitIsLive
<1>4. QED
  BY <1>1, <1>3, GotoKeepsTypes DEF ScanSplits

LEMMA PrefixIsLive ==
    ASSUME TypeInv, ScanPrefix
    PROVE  Split(Hit, Top.base - blocks[Hit].base) \in LiveFrame
<1> DEFINE b == blocks[Hit]
<1>1. Top.base \in Address
  BY ReserveTop DEF ScanPrefix, ReservePc
<1>2. /\ Hit \in 1 .. Len(blocks) /\ Len(blocks) \in Nat /\ b.base \in Address
      /\ AnyFit(b) \/ Covers(b)
  BY HitExists DEF ScanPrefix, TypeInv, TypeOK, Block
<1>3. Top.base - b.base \in Address
  <2>1. Top.base >= b.base
    BY <1>2 DEF ScanPrefix, Covers
  <2> HIDE DEF b
  <2>2. QED
    BY <1>1, <1>2, <2>1, WordIsPositive DEF Address
<1>4. QED
  BY <1>2, <1>3, SplitIsLive

LEMMA ScanPrefixKeepsTypes == ASSUME TypeInv, ScanPrefix PROVE TypeInv'
<1>1. stack # <<>> /\ [Top EXCEPT !.pc = "res_again"] \in LiveFrame
  BY ReserveTop DEF ScanPrefix, ReservePc
<1>2. QED
  BY <1>1, PrefixIsLive, CallKeepsTypes DEF ScanPrefix, History, TypeInv, TypeOK

-----------------------------------------------------------------------------
(* Boot and the clients' calls keep the types.                             *)
LEMMA StartKeepsTypes ==
    ASSUME TypeInv, NEW frame \in LiveFrame, stack' = <<frame>>,
           call' \in PendingCall,
           UNCHANGED <<blocks, order, slabs, ret, phase, History>>
    PROVE  TypeInv'
<1>1. stack' \in Seq(LiveFrame)
  OBVIOUS
<1>2. LiveFrame' = LiveFrame
  BY DEF LiveFrame
<1>3. stack' \in Seq(Frame)
  BY <1>1 DEF LiveFrame
<1>4. QED
  BY <1>1, <1>2, <1>3 DEF TypeInv, TypeOK, LiveReferences, History

LEMMA NoCallPends == NoCall \in PendingCall
BY DEF NoCall, PendingCall

LEMMA BootKeepsTypes == ASSUME TypeInv, BootCall \/ BootDone PROVE TypeInv'
<1>1. CASE BootCall
  <2> DEFINE len == (LastLoaded - KernelBase) % Word
             frame == CASE phase = "low" -> Reserve(0, LowSize, FALSE)
                       [] phase = "kernel" -> Reserve(KernelBase, len, FALSE)
                       [] phase = "caches" ->
                            Reserve(LastLoaded, CacheDataSize, FALSE)
  <2>1. /\ LowSize \in Address /\ KernelBase \in Address /\ LastLoaded \in Address
        /\ CacheDataSize \in Address /\ 0 \in Address
    BY SizesFit, WordIsPositive DEF NULL
  <2>2. len \in Address
    <3>1. LastLoaded - KernelBase \in Int
      BY <2>1 DEF Address
    <3>2. QED
      BY <3>1, WordIsPositive
  <2>3. /\ Reserve(0, LowSize, FALSE) \in LiveFrame
        /\ Reserve(KernelBase, len, FALSE) \in LiveFrame
        /\ Reserve(LastLoaded, CacheDataSize, FALSE) \in LiveFrame
    BY <2>1, <2>2, ReserveIsLive
  <2>4. frame \in LiveFrame
    BY <1>1, <2>3 DEF BootCall, BootPhases
  <2>5. stack' = <<frame>> /\ call' \in PendingCall
    BY <1>1 DEF BootCall, PendingCall
  <2> HIDE DEF frame
  <2>6. QED
    BY <1>1, <2>4, <2>5, StartKeepsTypes DEF BootCall
<1>2. CASE BootDone
  <2>1. phase' \in BootPhases \cup {"running", "overflow"}
    BY <1>2 DEF BootDone, TypeInv, TypeOK, BootPhases
  <2>2. LiveFrame' = LiveFrame
    BY <1>2 DEF BootDone, LiveFrame
  <2>3. QED
    BY <1>2, <2>1, <2>2, NoCallPends
       DEF BootDone, TypeInv, TypeOK, LiveReferences, History
<1>3. QED
  BY <1>1, <1>2

LEMMA CallsKeepTypes ==
    ASSUME TypeInv,
           \/ \E r \in Requests : ClientReserve(r)
           \/ \E c \in UserCaches, r \in owned : ClientNew(c, r)
           \/ \E c \in UserCaches : ClientAlloc(c)
    PROVE  TypeInv'
<1>1. ASSUME NEW r \in Requests, ClientReserve(r)  PROVE TypeInv'
  <2>1. r \in [base : Address, size : Address \ {0}]
    BY ClientsAssumption
  <2>2. Reserve(r.base, r.size, FALSE) \in LiveFrame
    BY <2>1, ReserveIsLive
  <2>3. call' \in PendingCall
    BY <1>1, <2>1 DEF ClientReserve, PendingCall
  <2>4. QED
    BY <1>1, <2>2, <2>3, StartKeepsTypes DEF ClientReserve
<1>2. ASSUME NEW c \in UserCaches, NEW r \in owned, ClientNew(c, r)  PROVE TypeInv'
  <2>1. r \in [base : Address, size : Address]
    BY DEF TypeInv, TypeOK
  <2>2. Alloc("meta", FALSE) \in LiveFrame
    BY AllocIsLive DEF Caches, TypeInv, LiveReferences
  <2>3. call' \in PendingCall
    BY <1>2, <2>1 DEF ClientNew, PendingCall
  <2>4. QED
    BY <1>2, <2>2, <2>3, StartKeepsTypes DEF ClientNew
<1>3. ASSUME NEW c \in UserCaches, ClientAlloc(c)  PROVE TypeInv'
  <2>1. Alloc(c, FALSE) \in LiveFrame
    BY <1>3, AllocIsLive DEF Caches, ClientAlloc
  <2>2. call' \in PendingCall
    BY <1>3 DEF ClientAlloc, PendingCall
  <2>3. QED
    BY <1>3, <2>1, <2>2, StartKeepsTypes DEF ClientAlloc
<1>4. QED
  BY <1>1, <1>2, <1>3

LEMMA ReturnsKeepTypes ==
    ASSUME TypeInv, ReserveDone \/ NewDone \/ AllocDone
    PROVE  TypeInv'
<1>1. CASE ReserveDone
  <2>1. call \in [op : {"reserve"}, size : Address]
    BY <1>1 DEF ReserveDone, TypeInv, TypeOK, PendingCall
  <2>2. [base |-> ret, size |-> call.size] \in [base : Address, size : Address]
    BY <2>1 DEF TypeInv, TypeOK
  <2>3. owned' \subseteq [base : Address, size : Address]
    BY <1>1, <2>2 DEF ReserveDone, TypeInv, TypeOK
  <2>4. LiveFrame' = LiveFrame
    BY <1>1 DEF ReserveDone, LiveFrame
  <2>5. QED
    BY <1>1, <2>3, <2>4, NoCallPends
       DEF ReserveDone, TypeInv, TypeOK, LiveReferences
<1>2. CASE NewDone
  <2> DEFINE slab == NewSlab(call.at.base, call.at.size, UserNmemb)
  <2>1. call \in [op : {"new"}, cache : UserCaches,
                  at : [base : Address, size : Address]]
    BY <1>2 DEF NewDone, TypeInv, TypeOK, PendingCall
  <2>2. slab \in Slab /\ call.cache \in Caches /\ call.cache \notin {"meta", "mmap"}
    BY <2>1, SizesFit, ClientsAssumption DEF NewSlab, Slab, Caches
  <2>3. slabs' = [slabs EXCEPT ![call.cache] = <<slab>>]
    BY <1>2 DEF NewDone
  <2> HIDE DEF slab
  <2>4. /\ slabs' \in [Caches -> Seq(Slab)]
        /\ \A d \in Caches : slabs[d] # <<>> => slabs'[d] # <<>>
    BY <2>2, <2>3 DEF TypeInv, TypeOK
  <2>5. slabs'["meta"] # <<>> /\ slabs'["mmap"] # <<>>
    BY <2>4 DEF TypeInv, LiveReferences, Caches
  <2>6. stack' \in Seq(LiveFrame') /\ stack' \in Seq(Frame)
    BY <1>2 DEF NewDone
  <2>7. QED
    BY <1>2, <2>4, <2>5, <2>6, NoCallPends
       DEF NewDone, TypeInv, TypeOK, LiveReferences
<1>3. CASE AllocDone
  <2>1. LiveFrame' = LiveFrame
    BY <1>3 DEF AllocDone, LiveFrame
  <2>2. QED
    BY <1>3, <2>1, NoCallPends
       DEF AllocDone, TypeInv, TypeOK, LiveReferences, History
<1>4. QED
  BY <1>1, <1>2, <1>3

LEMMA ReleaseKeepsTypes ==
    ASSUME TypeInv, NEW r \in owned, ClientRelease(r)
    PROVE  TypeInv'
<1> DEFINE at == {i \in DOMAIN order : blocks[order[i]].base = r.base}
<1>1. blocks' \in Seq(Block) /\ Len(blocks') = Len(blocks)
  <2>1. CASE at = {}
    BY <2>1 DEF ClientRelease, TypeInv, TypeOK
  <2>2. CASE at # {}
    <3>1. order \in Seq(1 .. Len(blocks))
      BY DEF TypeInv, TypeOK
    <3>2. DOMAIN order = 1 .. Len(order)
      BY <3>1, LenProperties
    <3>3. First(at) \in DOMAIN order
      <4>1. at \subseteq Nat /\ at \subseteq DOMAIN order
        BY <3>2
      <4> HIDE DEF at
      <4>2. QED
        BY <2>2, <4>1, FirstIsIn
    <3>4. order[First(at)] \in 1 .. Len(blocks)
      BY <3>1, <3>2, <3>3, ElementOfSeq
    <3>5. blocks' = [blocks EXCEPT ![order[First(at)]].type = Available]
      BY <2>2 DEF ClientRelease
    <3>6. Available \in Nat
      BY DEF Available
    <3> HIDE DEF at
    <3>7. QED
      BY <3>4, <3>5, <3>6, RetypedBlocks
  <2>3. QED
    BY <2>1, <2>2
<1>2. Len(blocks) \in Nat
  BY DEF TypeInv, TypeOK
<1>3. UNCHANGED <<order, slabs, stack, ret, call, phase, starved, nullSlab>>
      /\ owned' \subseteq owned
  BY DEF ClientRelease, Control
<1>4. LiveFrame' = LiveFrame
  BY <1>1, <1>3 DEF LiveFrame
<1>5. QED
  BY <1>1, <1>2, <1>3, <1>4 DEF TypeInv, TypeOK, LiveReferences

LEMMA FreeKeepsTypes ==
    ASSUME TypeInv, NEW c \in UserCaches, NEW i \in DOMAIN slabs[c], ClientFree(c, i)
    PROVE  TypeInv'
<1> DEFINE ptr == slabs[c][i].base
           in == {j \in DOMAIN slabs[c] : /\ slabs[c][j].base <= ptr
                                         /\ ptr < slabs[c][j].base + slabs[c][j].size}
           to == First(in)
<1>1. c \in Caches /\ slabs[c] \in Seq(Slab)
  BY DEF Caches, TypeInv, TypeOK
<1>2. DOMAIN slabs[c] = 1 .. Len(slabs[c]) /\ Len(slabs[c]) \in Nat
  BY <1>1, LenProperties
<1>3. in \subseteq Nat /\ in \subseteq DOMAIN slabs[c]
  BY <1>2
<1>4. to \in 1 .. Len(slabs[c])
  <2>1. in # {}
    BY DEF ClientFree
  <2> HIDE DEF in
  <2>2. QED
    BY <1>2, <1>3, <2>1, FirstIsIn
<1>5. slabs' = [slabs EXCEPT ![c] =
                  [slabs[c] EXCEPT ![to] = [slabs[c][to] EXCEPT !.free = @ + 1]]]
  BY DEF ClientFree
<1> HIDE DEF to, in
<1>6. [slabs[c][to] EXCEPT !.free = @ + 1] \in Slab
  <2>1. slabs[c][to] \in Slab
    BY <1>1, <1>4, ElementOfSeq
  <2>2. QED
    BY <2>1 DEF Slab
<1> DEFINE t == [slabs[c] EXCEPT ![to] = [slabs[c][to] EXCEPT !.free = @ + 1]]
<1>7. t \in Seq(Slab) /\ Len(t) = Len(slabs[c])
  BY <1>1, <1>4, <1>6, ExceptSeq
<1>8. slabs' = [slabs EXCEPT ![c] = t] /\ t # <<>>
  BY <1>4, <1>5, <1>7
<1> HIDE DEF t
<1>9. /\ slabs' \in [Caches -> Seq(Slab)]
      /\ \A d \in Caches : slabs[d] # <<>> <=> slabs'[d] # <<>>
  BY <1>1, <1>2, <1>4, <1>7, <1>8 DEF TypeInv, TypeOK
<1>10. UNCHANGED <<blocks, order, stack, ret, call, phase, owned, starved, nullSlab>>
  BY DEF ClientFree, Control, History
<1>11. LiveFrame \subseteq LiveFrame'
  BY <1>9, <1>10, LiveFramesStay DEF TypeInv, TypeOK
<1>12. stack' \in Seq(LiveFrame')
  BY <1>10, <1>11, SeqMonotonic DEF TypeInv, LiveReferences
<1>13. slabs'["meta"] # <<>> /\ slabs'["mmap"] # <<>>
  BY <1>9 DEF TypeInv, LiveReferences, Caches
<1>14. QED
  BY <1>9, <1>10, <1>12, <1>13 DEF TypeInv, TypeOK, LiveReferences

LEMMA OverflowKeepsTypes ==
    ASSUME TypeInv, StackOverflow \/ UNCHANGED vars
    PROVE  TypeInv'
<1>1. LiveFrame' = LiveFrame
  BY DEF LiveFrame, StackOverflow, vars
<1>2. QED
  BY <1>1 DEF TypeInv, TypeOK, LiveReferences, StackOverflow, vars, History

LEMMA TypeStep == ASSUME TypeInv, [Next]_vars PROVE TypeInv'
<1>1. CASE CacheStep
  BY <1>1, AllocHitKeepsTypes, AllocCallsKeepTypes, ExtendAllocKeepsTypes,
     ExtendLinkKeepsTypes DEF CacheStep
<1>2. CASE MapStep
  BY <1>2, SplitAllocKeepsTypes, SplitLinkKeepsTypes, ReserveStepsKeepTypes,
     ScanFailsKeepsTypes, ScanExactKeepsTypes, ScanSplitsKeepsTypes,
     ScanPrefixKeepsTypes DEF MapStep
<1>3. CASE BootCall \/ BootDone
  BY <1>3, BootKeepsTypes
<1>4. CASE ReserveDone \/ NewDone \/ AllocDone
  BY <1>4, ReturnsKeepTypes
<1>5. CASE Client
  BY <1>5, CallsKeepTypes, ReleaseKeepsTypes, FreeKeepsTypes DEF Client
<1>6. CASE StackOverflow \/ UNCHANGED vars
  BY <1>6, OverflowKeepsTypes
<1>7. QED
  BY <1>1, <1>2, <1>3, <1>4, <1>5, <1>6 DEF Next, Kernel

(* Whatever the memory map, the modules and the clients are, every call in *)
(* progress refers to a block and to a cache that exist, no list is read   *)
(* past its end and every address stays in 32 bits.                        *)
THEOREM TypeCorrect == Spec => [](TypeOK /\ LiveReferences)
<1>1. Init => TypeInv
  BY TypeInit
<1>2. TypeInv /\ [Next]_vars => TypeInv'
  BY TypeStep
<1>3. QED
  BY <1>1, <1>2, PTL DEF Spec, TypeInv

-----------------------------------------------------------------------------
(***************************************************************************)
(* The memory map stays sound: until the manager starves, no two blocks    *)
(* overlap and none runs past the end of the address space.  The boot      *)
(* loader's map and the clients' requests are sane.                        *)
(***************************************************************************)

(* The zones, as memory_init stores them, do not wrap and do not overlap.  *)
SaneMap ==
    \A i, j \in 1 .. Len(Zones) :
        /\ ZoneBlock(Zones[i]).base + ZoneBlock(Zones[i]).size <= Word
        /\ i # j => Disjoint(ZoneBlock(Zones[i]), ZoneBlock(Zones[j]))
(* No request runs past the end of the address space.                      *)
NoWrap == \A r \in Requests : r.base + r.size < Word

-----------------------------------------------------------------------------
(* Frames at their resumption point, and the requests they carry.          *)
LEMMA Resumed ==
    ASSUME NEW f \in Frame, NEW pc, [f EXCEPT !.pc = pc] \in Frame
    PROVE  /\ [f EXCEPT !.pc = pc].pc = pc
           /\ f.pc \in ReservePc => /\ [f EXCEPT !.pc = pc].base = f.base
                                    /\ [f EXCEPT !.pc = pc].size = f.size
           /\ f.pc \in SplitPc => /\ [f EXCEPT !.pc = pc].m = f.m
                                  /\ [f EXCEPT !.pc = pc].size = f.size
BY DEF Frame, ReserveFrame, SplitFrame, AllocFrame, ExtendFrame, ReservePc, SplitPc

LEMMA ResumedInRange ==
    ASSUME NEW f \in InRangeFrame, NEW pc, [f EXCEPT !.pc = pc] \in Frame,
           pc \in ReservePc => f.pc \in ReservePc
    PROVE  [f EXCEPT !.pc = pc] \in InRangeFrame
BY Resumed DEF InRangeFrame

LEMMA ReserveInRange ==
    ASSUME NEW b \in Address, NEW n \in Address, NEW x \in BOOLEAN, b + n < Word
    PROVE  Reserve(b, n, x) \in InRangeFrame
BY DEF Reserve, InRangeFrame, Frame, ReserveFrame

LEMMA OthersInRange ==
    ASSUME NEW f \in Frame, f.pc \notin ReservePc
    PROVE  f \in InRangeFrame
BY DEF InRangeFrame

(* The stack of a call, a jump, a return.                                  *)
LEMMA PushInRange ==
    ASSUME TypeInv, RequestsInRange, stack # <<>>, NEW callee \in InRangeFrame,
           NEW pc, [Top EXCEPT !.pc = pc] \in Frame,
           pc \in ReservePc => Top.pc \in ReservePc, Call(callee, pc)
    PROVE  RequestsInRange'
<1>1. stack \in Seq(InRangeFrame) /\ Top \in InRangeFrame
  BY DEF RequestsInRange, Top
<1>2. [Top EXCEPT !.pc = pc] \in InRangeFrame
  BY <1>1, ResumedInRange
<1>3. stack' \in Seq(InRangeFrame)
  BY <1>1, <1>2, PushedStack DEF Call
<1>4. QED
  BY <1>3 DEF RequestsInRange

LEMMA JumpInRange ==
    ASSUME RequestsInRange, stack # <<>>, NEW frame \in InRangeFrame, Goto(frame)
    PROVE  RequestsInRange'
BY JumpedStack DEF Goto, RequestsInRange

LEMMA PopInRange ==
    ASSUME RequestsInRange, stack # <<>>, stack' = Tail(stack)
    PROVE  RequestsInRange'
BY PoppedStack DEF RequestsInRange

LEMMA StartInRange ==
    ASSUME NEW frame \in InRangeFrame, stack' = <<frame>>
    PROVE  RequestsInRange'
BY DEF RequestsInRange

(* Every frame a procedure makes, and that it resumes at, is a frame.      *)
LEMMA LiveIsFrame == ASSUME NEW f \in LiveFrame PROVE f \in Frame
BY DEF LiveFrame

LEMMA CacheStepInRange ==
    ASSUME TypeInv, RequestsInRange, CacheStep
    PROVE  RequestsInRange'
<1> DEFINE root == slabs[Top.cache][1]
<1>1. CASE AllocHit \/ ExtendLink
  BY <1>1, PopInRange DEF AllocHit, ExtendLink, At, Return
<1>2. CASE ExtendAlloc
  <2>1. stack # <<>> /\ Top \in LiveFrame /\ Top.pc = "ext_alloc"
    BY <1>2, TopIsLive DEF ExtendAlloc, At
  <2>2. Top \in ExtendFrame /\ [Top EXCEPT !.pc = "ext_link"] \in Frame
    BY <2>1, ExtendByPc, LiveIsFrame DEF ExtPc
  <2>3. Alloc("meta", Top.ext) \in InRangeFrame
    BY <2>2 DEF ExtendFrame, Alloc, AllocFrame, Frame, InRangeFrame, ReservePc, Caches
  <2>4. QED
    BY <1>2, <2>1, <2>2, <2>3, PushInRange DEF ExtendAlloc, ReservePc
<1>3. CASE AllocRefill \/ AllocMiss \/ AllocMeta \/ AllocOwn \/ AllocGrow
  <2>1. PICK pc \in AllocPc : At(pc)
    BY <1>3 DEF AllocPc, AllocRefill, AllocMiss, AllocMeta, AllocOwn, AllocGrow
  <2>2. /\ stack # <<>> /\ Top.cache \in Caches /\ root \in Slab
        /\ slabs[Top.cache] # <<>>
        /\ \A q \in AllocPc : [Top EXCEPT !.pc = q] \in Frame
    BY <2>1, AllocTop, LiveIsFrame
  <2>3. /\ root.size \in Address /\ root.nmemb \in Nat /\ MetaSize \in Address
        /\ Nmemb \in Nat /\ 0 \in Address /\ ret \in Address /\ "meta" \in Caches
        /\ slabs["meta"] # <<>>
    BY <2>2, SizesFit, WordIsPositive
       DEF Slab, NULL, TypeInv, TypeOK, LiveReferences, Caches
  <2>4. /\ Reserve(0, MetaSize, TRUE) \in InRangeFrame
        /\ Reserve(0, root.size, FALSE) \in InRangeFrame
    <3> HIDE DEF root
    <3>1. 0 + MetaSize < Word /\ 0 + root.size < Word
      BY <2>3, WordIsPositive DEF Address
    <3>2. QED
      BY <2>3, <3>1, ReserveInRange
  <2>5. /\ Extend("meta", ret, MetaSize, Nmemb, TRUE) \in InRangeFrame
        /\ Extend(Top.cache, ret, root.size, root.nmemb, FALSE) \in InRangeFrame
    <3>1. /\ Extend("meta", ret, MetaSize, Nmemb, TRUE) \in Frame
          /\ Extend(Top.cache, ret, root.size, root.nmemb, FALSE) \in Frame
      BY <2>2, <2>3, ExtendIsLive, LiveIsFrame
    <3>2. QED
      BY <3>1, OthersInRange DEF Extend, ReservePc
  <2>6. /\ "alloc_try" \in AllocPc \ ReservePc /\ "alloc_meta" \in AllocPc \ ReservePc
        /\ "alloc_own" \in AllocPc \ ReservePc /\ "alloc_grow" \in AllocPc \ ReservePc
    BY DEF AllocPc, ReservePc
  <2> HIDE DEF root
  <2>7. CASE AllocRefill
    BY <2>2, <2>4, <2>6, <2>7, PushInRange DEF AllocRefill
  <2>8. CASE AllocMiss
    BY <2>2, <2>4, <2>6, <2>8, PushInRange DEF AllocMiss, root
  <2>9. CASE AllocMeta
    BY <2>2, <2>5, <2>6, <2>9, PushInRange DEF AllocMeta
  <2>10. CASE AllocOwn
    BY <2>2, <2>4, <2>6, <2>10, PushInRange DEF AllocOwn, root
  <2>11. CASE AllocGrow
    BY <2>2, <2>5, <2>6, <2>11, PushInRange DEF AllocGrow, root
  <2>12. QED
    BY <1>3, <2>7, <2>8, <2>9, <2>10, <2>11
<1>4. QED
  BY <1>1, <1>2, <1>3 DEF CacheStep

LEMMA MapStepInRange ==
    ASSUME TypeInv, RequestsInRange, MapStep
    PROVE  RequestsInRange'
<1>1. CASE SplitLink \/ ScanFails \/ ScanExact
  BY <1>1, PopInRange DEF SplitLink, ScanFails, ScanExact, At, Return
<1>2. CASE SplitAlloc
  <2>1. stack # <<>> /\ Top \in LiveFrame /\ Top.pc = "split_alloc"
    BY <1>2, TopIsLive DEF SplitAlloc, At
  <2>2. [Top EXCEPT !.pc = "split_link"] \in Frame
    BY <2>1, SplitByPc, LiveIsFrame DEF SplitPc
  <2>3. Alloc("mmap", FALSE) \in InRangeFrame
    BY DEF Alloc, AllocFrame, Frame, InRangeFrame, ReservePc, Caches
  <2>4. QED
    BY <1>2, <2>1, <2>2, <2>3, PushInRange DEF SplitAlloc, ReservePc
<1>3. CASE \/ ReserveExtendFirst \/ ReserveEnough \/ ReserveExtend \/ ReserveAgain
           \/ ScanSplits \/ ScanPrefix
  <2>1. PICK pc \in ReservePc : At(pc)
    BY <1>3 DEF ReservePc, ReserveExtendFirst, ReserveEnough, ReserveExtend,
                ReserveAgain, ScanSplits, ScanPrefix
  <2>2. /\ stack # <<>> /\ Top.base \in Address /\ Top.size \in Address
        /\ Top.pc \in ReservePc
        /\ \A q \in ReservePc : [Top EXCEPT !.pc = q] \in Frame
    BY <2>1, ReserveTop, LiveIsFrame DEF At
  <2>3. Top \in InRangeFrame /\ Top.base + Top.size < Word
    BY <2>2 DEF RequestsInRange, InRangeFrame, Top
  <2>4. CASE ReserveExtendFirst
    <3>1. ExtSize \in Address /\ 0 \in Address
      BY SizesFit, WordIsPositive DEF NULL
    <3>2. 0 + ExtSize < Word
      BY <3>1, WordIsPositive DEF Address
    <3>3. Reserve(0, ExtSize, TRUE) \in InRangeFrame
      BY <3>1, <3>2, ReserveInRange
    <3>4. QED
      BY <2>2, <2>4, <3>3, PushInRange DEF ReserveExtendFirst, ReservePc
  <2>5. CASE ReserveEnough
    <3>1. [Top EXCEPT !.pc = "res_scan"] \in InRangeFrame
      BY <2>2, <2>3, ResumedInRange DEF ReservePc
    <3>2. QED
      BY <2>2, <2>5, <3>1, JumpInRange DEF ReserveEnough
  <2>6. CASE ReserveExtend
    <3>1. Extend("mmap", ret, ExtSize, ExtNmemb, FALSE) \in Frame
      BY SizesFit, ExtendIsLive, LiveIsFrame
         DEF TypeInv, TypeOK, LiveReferences, Caches
    <3>2. Extend("mmap", ret, ExtSize, ExtNmemb, FALSE) \in InRangeFrame
      BY <3>1, OthersInRange DEF Extend, ReservePc
    <3>3. QED
      BY <2>2, <2>6, <3>2, PushInRange DEF ReserveExtend, ReservePc
  <2>7. CASE ReserveAgain
    <3>1. Reserve(Top.base, Top.size, FALSE) \in InRangeFrame
      BY <2>2, <2>3, ReserveInRange
    <3>2. QED
      BY <2>2, <2>7, <3>1, JumpInRange DEF ReserveAgain
  <2>8. CASE ScanSplits
    <3>1. Hit \in 1 .. Len(blocks) /\ Len(blocks) \in Nat
      BY <2>8, HitExists DEF ScanSplits, TypeInv, TypeOK
    <3>2. Split(Hit, Top.size) \in Frame
      BY <2>2, <3>1, SplitIsLive, LiveIsFrame
    <3>3. Split(Hit, Top.size) \in InRangeFrame
      BY <3>2, OthersInRange DEF Split, ReservePc
    <3>4. QED
      BY <2>2, <2>8, <3>3, JumpInRange DEF ScanSplits
  <2>9. CASE ScanPrefix
    <3> DEFINE frame == Split(Hit, Top.base - blocks[Hit].base)
    <3>1. frame \in Frame
      BY <2>9, PrefixIsLive, LiveIsFrame
    <3>2. frame \in InRangeFrame
      BY <3>1, OthersInRange DEF Split, ReservePc
    <3>3. Call(frame, "res_again")
      BY <2>9 DEF ScanPrefix
    <3> HIDE DEF frame
    <3>4. QED
      BY <2>2, <3>2, <3>3, PushInRange DEF ReservePc
  <2>10. QED
    BY <1>3, <2>4, <2>5, <2>6, <2>7, <2>8, <2>9
<1>4. QED
  BY <1>1, <1>2, <1>3 DEF MapStep

LEMMA BootInRange ==
    ASSUME TypeInv, RequestsInRange, BootCall
    PROVE  RequestsInRange'
<1> DEFINE len == (LastLoaded - KernelBase) % Word
           frame == CASE phase = "low" -> Reserve(0, LowSize, FALSE)
                     [] phase = "kernel" -> Reserve(KernelBase, len, FALSE)
                     [] phase = "caches" ->
                          Reserve(LastLoaded, CacheDataSize, FALSE)
<1>1. /\ LowSize \in Address /\ KernelBase \in Address /\ LastLoaded \in Address
      /\ CacheDataSize \in Address /\ 0 \in Address /\ KernelBase <= LastLoaded
      /\ LastLoaded + CacheDataSize < Word
  BY SizesFit, WordIsPositive DEF NULL
<1>2. /\ len \in Address /\ 0 + LowSize < Word /\ KernelBase + len < Word
  BY <1>1, WordIsPositive DEF Address
<1>3. /\ Reserve(0, LowSize, FALSE) \in InRangeFrame
      /\ Reserve(KernelBase, len, FALSE) \in InRangeFrame
      /\ Reserve(LastLoaded, CacheDataSize, FALSE) \in InRangeFrame
  BY <1>1, <1>2, ReserveInRange
<1>4. frame \in InRangeFrame /\ stack' = <<frame>>
  BY <1>3 DEF BootCall, BootPhases
<1> HIDE DEF frame
<1>5. QED
  BY <1>4, StartInRange

LEMMA ClientInRange ==
    ASSUME NoWrap, TypeInv, RequestsInRange, Client
    PROVE  RequestsInRange'
<1>1. ASSUME NEW r \in Requests, ClientReserve(r)  PROVE RequestsInRange'
  <2>1. r.base \in Address /\ r.size \in Address /\ r.base + r.size < Word
    BY ClientsAssumption DEF NoWrap
  <2>2. Reserve(r.base, r.size, FALSE) \in InRangeFrame
    BY <2>1, ReserveInRange
  <2>3. QED
    BY <1>1, <2>2, StartInRange DEF ClientReserve
<1>2. ASSUME NEW c \in Caches, stack' = <<Alloc(c, FALSE)>>  PROVE RequestsInRange'
  <2>1. Alloc(c, FALSE) \in InRangeFrame
    BY DEF Alloc, AllocFrame, Frame, InRangeFrame, ReservePc
  <2>2. QED
    BY <1>2, <2>1, StartInRange
<1>3. CASE \/ \E c \in UserCaches, r \in owned : ClientNew(c, r)
           \/ \E c \in UserCaches : ClientAlloc(c)
  BY <1>2, <1>3 DEF ClientNew, ClientAlloc, Caches
<1>4. CASE stack' = stack
  BY <1>4 DEF RequestsInRange
<1>5. QED
  BY <1>1, <1>3, <1>4 DEF Client, ClientRelease, ClientFree

LEMMA RangeStep ==
    ASSUME NoWrap, TypeInv, RequestsInRange, [Next]_vars
    PROVE  RequestsInRange'
<1>1. CASE stack' = stack
  BY <1>1 DEF RequestsInRange
<1>2. CASE CacheStep \/ MapStep \/ BootCall \/ Client
  BY <1>2, CacheStepInRange, MapStepInRange, BootInRange, ClientInRange
<1>3. QED
  BY <1>1, <1>2 DEF Next, Kernel, vars, StackOverflow, BootDone, ReserveDone,
                    NewDone, AllocDone

-----------------------------------------------------------------------------
(* Splits in progress.                                                     *)
(* Below the frame on top there is a split only when the top one allocates *)
(* the descriptor for it.                                                  *)
Splitting(f) == f.pc \in SplitPc
ForSplit(f) == f.pc = "alloc_try" /\ f.cache = "mmap"

LEMMA NoSplitBelow ==
    ASSUME TypeInv, SplitsSound, ~starved, stack # <<>>, ~ForSplit(Top)
    PROVE  \A i \in 2 .. Len(stack) : ~Splitting(stack[i])
BY DEF SplitsSound, ForSplit, Splitting, Top, TypeInv, LiveReferences

(* A stack without splits is sound.                                        *)
LEMMA WithoutSplits ==
    ASSUME \A i \in 1 .. Len(stack') : ~Splitting(stack'[i])
    PROVE  SplitsSound'
BY DEF SplitsSound, Splitting

LEMMA PushWithoutSplits ==
    ASSUME TypeInv, SplitsSound, ~starved, stack # <<>>, ~ForSplit(Top),
           NEW callee \in Frame, ~Splitting(callee),
           NEW pc, [Top EXCEPT !.pc = pc] \in Frame, pc \notin SplitPc,
           Call(callee, pc)
    PROVE  SplitsSound'
<1>1. stack \in Seq(Frame) /\ Top \in Frame
  BY TopIsLive, LiveIsFrame DEF TypeInv, TypeOK
<1> DEFINE resumed == [Top EXCEPT !.pc = pc]
<1>2. resumed \in Frame /\ resumed.pc = pc
  BY <1>1, Resumed
<1>3. stack' = <<callee, resumed>> \o Tail(stack)
  BY DEF Call
<1> HIDE DEF resumed
<1>4. /\ Len(stack') = Len(stack) + 1 /\ Len(stack) \in Nat
      /\ stack'[1] = callee /\ stack'[2] = resumed
      /\ \A i \in 3 .. Len(stack') : stack'[i] = stack[i - 1]
  BY <1>1, <1>2, <1>3, PushedStack
<1>5. ASSUME NEW i \in 1 .. Len(stack')  PROVE ~Splitting(stack'[i])
  <2>1. CASE i = 1
    BY <1>4, <2>1
  <2>2. CASE i = 2
    BY <1>2, <1>4, <2>2 DEF Splitting
  <2>3. CASE i >= 3
    <3>1. stack'[i] = stack[i - 1] /\ i - 1 \in 2 .. Len(stack)
      BY <1>4, <2>3
    <3>2. QED
      BY <3>1, NoSplitBelow
  <2>4. QED
    BY <1>4, <2>1, <2>2, <2>3
<1>6. QED
  BY <1>5, WithoutSplits

LEMMA JumpWithoutSplits ==
    ASSUME TypeInv, SplitsSound, ~starved, stack # <<>>, ~ForSplit(Top),
           NEW frame \in Frame, ~Splitting(frame), Goto(frame)
    PROVE  SplitsSound'
<1>1. /\ Len(stack') = Len(stack) /\ Len(stack) \in Nat /\ stack'[1] = frame
      /\ \A i \in 2 .. Len(stack') : stack'[i] = stack[i]
  BY JumpedStack DEF Goto, TypeInv, TypeOK
<1>2. ASSUME NEW i \in 1 .. Len(stack')  PROVE ~Splitting(stack'[i])
  <2>1. CASE i = 1
    BY <1>1, <2>1
  <2>2. CASE i # 1
    <3>1. i \in 2 .. Len(stack) /\ stack'[i] = stack[i]
      BY <1>1, <2>2
    <3>2. QED
      BY <3>1, NoSplitBelow
  <2>3. QED
    BY <2>1, <2>2
<1>3. QED
  BY <1>2, WithoutSplits

LEMMA PopWithoutSplits ==
    ASSUME TypeInv, SplitsSound, ~starved, stack # <<>>, ~ForSplit(Top),
           stack' = Tail(stack)
    PROVE  SplitsSound'
<1>1. /\ Len(stack') = Len(stack) - 1 /\ Len(stack) \in Nat
      /\ \A i \in 1 .. Len(stack') : stack'[i] = stack[i + 1]
  BY PoppedStack DEF TypeInv, TypeOK
<1>2. ASSUME NEW i \in 1 .. Len(stack')  PROVE ~Splitting(stack'[i])
  <2>1. i + 1 \in 2 .. Len(stack) /\ stack'[i] = stack[i + 1]
    BY <1>1
  <2>2. QED
    BY <2>1, NoSplitBelow
<1>3. QED
  BY <1>2, WithoutSplits

(* What a step that neither splits nor loses the map has to show.          *)
LEMMA MapUnchanged ==
    ASSUME MapSound, blocks' = blocks, ~starved
    PROVE  MapSound'
BY DEF MapSound

LEMMA AllocHitKeepsSplits ==
    ASSUME TypeInv, SplitsSound, ~starved, AllocHit
    PROVE  SplitsSound'
<1>1. /\ stack # <<>> /\ stack' = Tail(stack) /\ blocks' = blocks
      /\ starved' = starved
  BY DEF AllocHit, At, Return, History
<1>2. CASE ~ForSplit(Top)
  BY <1>1, <1>2, PopWithoutSplits
<1>3. CASE ForSplit(Top)
  <2>1. /\ Len(stack') = Len(stack) - 1 /\ Len(stack) \in Nat
        /\ \A i \in 1 .. Len(stack') : stack'[i] = stack[i + 1]
    BY <1>1, PoppedStack DEF TypeInv, TypeOK
  <2>2. ASSUME NEW i \in 1 .. Len(stack'), stack'[i].pc \in SplitPc
        PROVE  /\ i = 1 /\ blocks[stack'[i].m].type = Available
               /\ stack'[i].size < blocks[stack'[i].m].size
    <3>1. i + 1 \in 1 .. Len(stack) /\ stack'[i] = stack[i + 1] /\ i + 1 # 1
      BY <2>1
    <3>2. QED
      BY <2>2, <3>1 DEF SplitsSound
  <2>3. QED
    BY <1>1, <2>2 DEF SplitsSound
<1>4. QED
  BY <1>2, <1>3

LEMMA CacheStepKeepsSplits ==
    ASSUME TypeInv, SplitsSound, ~starved, ~starved', CacheStep
    PROVE  SplitsSound'
<1> DEFINE root == slabs[Top.cache][1]
<1>1. CASE AllocHit
  BY <1>1, AllocHitKeepsSplits
<1>2. CASE ExtendLink
  BY <1>2, PopWithoutSplits DEF ExtendLink, At, Return, ForSplit
<1>3. CASE ExtendAlloc
  <2>1. stack # <<>> /\ Top \in LiveFrame /\ Top.pc = "ext_alloc"
    BY <1>3, TopIsLive DEF ExtendAlloc, At
  <2>2. Top \in ExtendFrame /\ [Top EXCEPT !.pc = "ext_link"] \in Frame
    BY <2>1, ExtendByPc, LiveIsFrame DEF ExtPc
  <2>3. Alloc("meta", Top.ext) \in Frame /\ ~Splitting(Alloc("meta", Top.ext))
    BY <2>2 DEF ExtendFrame, Alloc, AllocFrame, Frame, Caches, Splitting, SplitPc
  <2>4. QED
    BY <1>3, <2>1, <2>2, <2>3, PushWithoutSplits DEF ExtendAlloc, ForSplit, SplitPc
<1>4. CASE AllocRefill \/ AllocMiss \/ AllocMeta \/ AllocOwn \/ AllocGrow
  <2>1. PICK pc \in AllocPc : At(pc)
    BY <1>4 DEF AllocPc, AllocRefill, AllocMiss, AllocMeta, AllocOwn, AllocGrow
  <2>2. /\ stack # <<>> /\ Top.cache \in Caches /\ root \in Slab
        /\ slabs[Top.cache] # <<>>
        /\ \A q \in AllocPc : [Top EXCEPT !.pc = q] \in Frame
    BY <2>1, AllocTop, LiveIsFrame
  <2>3. /\ root.size \in Address /\ root.nmemb \in Nat /\ MetaSize \in Address
        /\ Nmemb \in Nat /\ 0 \in Address /\ ret \in Address /\ "meta" \in Caches
        /\ slabs["meta"] # <<>>
    BY <2>2, SizesFit, WordIsPositive
       DEF Slab, NULL, TypeInv, TypeOK, LiveReferences, Caches
  <2>4. ~ForSplit(Top)
    BY <1>4 DEF ForSplit, At, AllocRefill, AllocMiss, AllocMeta, AllocOwn, AllocGrow
  <2> HIDE DEF root
  <2>5. ASSUME NEW n \in Address, NEW x \in BOOLEAN
        PROVE  Reserve(0, n, x) \in Frame /\ ~Splitting(Reserve(0, n, x))
    BY <2>3, <2>5, ReserveIsLive, LiveIsFrame DEF Splitting, Reserve, SplitPc
  <2>6. ASSUME NEW c \in Caches, NEW n \in Address, NEW k \in Nat,
               NEW x \in BOOLEAN, slabs[c] # <<>>
        PROVE  Extend(c, ret, n, k, x) \in Frame /\ ~Splitting(Extend(c, ret, n, k, x))
    BY <2>3, <2>6, ExtendIsLive, LiveIsFrame DEF Splitting, Extend, SplitPc
  <2>7. /\ "alloc_try" \in AllocPc \ SplitPc /\ "alloc_meta" \in AllocPc \ SplitPc
        /\ "alloc_own" \in AllocPc \ SplitPc /\ "alloc_grow" \in AllocPc \ SplitPc
    BY DEF AllocPc, SplitPc
  <2>8. CASE AllocRefill
    BY <2>2, <2>3, <2>4, <2>5, <2>7, <2>8, PushWithoutSplits DEF AllocRefill
  <2>9. CASE AllocMiss
    BY <2>2, <2>3, <2>4, <2>5, <2>7, <2>9, PushWithoutSplits DEF AllocMiss, root
  <2>10. CASE AllocMeta
    BY <2>2, <2>3, <2>4, <2>6, <2>7, <2>10, PushWithoutSplits DEF AllocMeta
  <2>11. CASE AllocOwn
    BY <2>2, <2>3, <2>4, <2>5, <2>7, <2>11, PushWithoutSplits DEF AllocOwn, root
  <2>12. CASE AllocGrow
    BY <2>2, <2>3, <2>4, <2>6, <2>7, <2>12, PushWithoutSplits DEF AllocGrow, root
  <2>13. QED
    BY <1>4, <2>8, <2>9, <2>10, <2>11, <2>12
<1>5. QED
  BY <1>1, <1>2, <1>3, <1>4 DEF CacheStep

(* A frame on top alone may be a split, of a block it fits in.             *)
LEMMA TopSplitOnly ==
    ASSUME NEW m, NEW n,
           \A i \in 2 .. Len(stack') : ~Splitting(stack'[i]),
           stack'[1].m = m, stack'[1].size = n, blocks' = blocks,
           blocks[m].type = Available, n < blocks[m].size
    PROVE  SplitsSound'
BY DEF SplitsSound, Splitting

LEMMA SplitAllocKeepsSplits ==
    ASSUME TypeInv, SplitsSound, ~starved, SplitAlloc
    PROVE  SplitsSound'
<1> DEFINE resumed == [Top EXCEPT !.pc = "split_link"]
           callee == Alloc("mmap", FALSE)
<1>1. stack # <<>> /\ Top \in LiveFrame /\ Top.pc = "split_alloc" /\ blocks' = blocks
  BY TopIsLive DEF SplitAlloc, At
<1>2. /\ Top \in Frame /\ resumed \in Frame /\ Top = stack[1]
      /\ resumed.m = Top.m /\ resumed.size = Top.size
  <2>1. Top \in Frame /\ resumed \in Frame
    BY <1>1, SplitByPc, LiveIsFrame DEF SplitPc
  <2>2. resumed.m = Top.m /\ resumed.size = Top.size
    BY <1>1, <2>1, Resumed DEF SplitPc
  <2>3. QED
    BY <2>1, <2>2 DEF Top
<1>3. /\ callee \in Frame /\ callee.pc = "alloc_try" /\ callee.cache = "mmap"
  BY DEF Alloc, AllocFrame, Frame, Caches
<1>4. stack' = <<callee, resumed>> \o Tail(stack)
  BY DEF SplitAlloc, Call
<1>5. \A i \in 2 .. Len(stack) : ~Splitting(stack[i])
  BY <1>1, NoSplitBelow DEF ForSplit
<1> HIDE DEF resumed, callee
<1>6. /\ Len(stack') = Len(stack) + 1 /\ Len(stack) \in Nat
      /\ stack'[1] = callee /\ stack'[2] = resumed
      /\ \A i \in 3 .. Len(stack') : stack'[i] = stack[i - 1]
  BY <1>1, <1>2, <1>3, <1>4, PushedStack DEF TypeInv, TypeOK
<1>7. blocks[Top.m].type = Available /\ Top.size < blocks[Top.m].size
  <2>1. 1 \in 1 .. Len(stack)
    BY <1>1 DEF TypeInv, TypeOK
  <2>2. QED
    BY <1>1, <1>2, <2>1 DEF SplitsSound, SplitPc
<1>8. ASSUME NEW i \in 1 .. Len(stack'), stack'[i].pc \in SplitPc
      PROVE  /\ blocks'[stack'[i].m].type = Available
             /\ stack'[i].size < blocks'[stack'[i].m].size
             /\ i # 1 => i = 2 /\ stack'[1].pc = "alloc_try" /\ stack'[1].cache = "mmap"
  <2>1. i # 1
    BY <1>3, <1>6, <1>8 DEF SplitPc
  <2>2. CASE i = 2
    BY <1>1, <1>2, <1>3, <1>6, <1>7, <2>2
  <2>3. CASE i >= 3
    <3>1. stack'[i] = stack[i - 1] /\ i - 1 \in 2 .. Len(stack)
      BY <1>6, <2>3
    <3>2. QED
      BY <1>5, <1>8, <3>1 DEF Splitting
  <2>4. QED
    BY <1>6, <2>1, <2>2, <2>3
<1>9. QED
  BY <1>8 DEF SplitsSound

LEMMA ReserveStepsKeepSplits ==
    ASSUME TypeInv, SplitsSound, ~starved,
           \/ ReserveExtendFirst \/ ReserveEnough \/ ReserveExtend \/ ReserveAgain
           \/ ScanFails \/ ScanExact
    PROVE  SplitsSound'
<1>1. PICK pc \in ReservePc : At(pc)
  BY DEF ReservePc, ReserveExtendFirst, ReserveEnough, ReserveExtend,
         ReserveAgain, ScanFails, ScanExact
<1>2. /\ stack # <<>> /\ Top.base \in Address /\ Top.size \in Address
      /\ Top \in Frame /\ Top.pc \in ReservePc
      /\ \A q \in ReservePc : [Top EXCEPT !.pc = q] \in Frame
  BY <1>1, ReserveTop, LiveIsFrame DEF At
<1>3. ~ForSplit(Top)
  BY <1>2 DEF ForSplit, ReservePc
<1>4. \A q \in ReservePc : q \notin SplitPc
  BY DEF ReservePc, SplitPc
<1>5. CASE ReserveExtendFirst
  <2>1. Reserve(0, ExtSize, TRUE) \in Frame
    BY SizesFit, WordIsPositive, ReserveIsLive, LiveIsFrame DEF NULL
  <2>2. ~Splitting(Reserve(0, ExtSize, TRUE))
    BY DEF Reserve, Splitting, SplitPc
  <2>3. QED
    BY <1>2, <1>3, <1>4, <1>5, <2>1, <2>2, PushWithoutSplits
       DEF ReserveExtendFirst, ReservePc
<1>6. CASE ReserveEnough
  <2>1. /\ [Top EXCEPT !.pc = "res_scan"] \in Frame
        /\ [Top EXCEPT !.pc = "res_scan"].pc = "res_scan"
    BY <1>2, Resumed DEF ReservePc
  <2>2. ~Splitting([Top EXCEPT !.pc = "res_scan"])
    BY <2>1 DEF Splitting, SplitPc
  <2>3. QED
    BY <1>2, <1>3, <1>6, <2>1, <2>2, JumpWithoutSplits DEF ReserveEnough
<1>7. CASE ReserveExtend
  <2>1. Extend("mmap", ret, ExtSize, ExtNmemb, FALSE) \in Frame
    BY SizesFit, ExtendIsLive, LiveIsFrame
       DEF TypeInv, TypeOK, LiveReferences, Caches
  <2>2. ~Splitting(Extend("mmap", ret, ExtSize, ExtNmemb, FALSE))
    BY DEF Extend, Splitting, SplitPc
  <2>3. QED
    BY <1>2, <1>3, <1>4, <1>7, <2>1, <2>2, PushWithoutSplits
       DEF ReserveExtend, ReservePc
<1>8. CASE ReserveAgain
  <2>1. Reserve(Top.base, Top.size, FALSE) \in Frame
    BY <1>2, ReserveIsLive, LiveIsFrame
  <2>2. ~Splitting(Reserve(Top.base, Top.size, FALSE))
    BY DEF Reserve, Splitting, SplitPc
  <2>3. QED
    BY <1>2, <1>3, <1>8, <2>1, <2>2, JumpWithoutSplits DEF ReserveAgain
<1>9. CASE ScanFails \/ ScanExact
  BY <1>2, <1>3, <1>9, PopWithoutSplits DEF ScanFails, ScanExact, Return
<1>10. QED
  BY <1>5, <1>6, <1>7, <1>8, <1>9

(* Where a block ends, while the map is sound.                             *)
LEMMA EndInMap ==
    ASSUME TypeInv, MapSound, ~starved, NEW d \in 1 .. Len(blocks), NEW a \in Address,
           a < EndOf(blocks[d])
    PROVE  /\ blocks[d] \in Block
           /\ a < blocks[d].base + blocks[d].size
<1>1. blocks \in Seq(Block) /\ blocks[d] \in Block /\ d \in DOMAIN blocks
  BY DEF TypeInv, TypeOK
<1>2. blocks[d].base + blocks[d].size <= Word
  BY <1>1 DEF MapSound
<1> DEFINE end == blocks[d].base + blocks[d].size
<1>3. end \in Nat /\ a \in Nat /\ a < end % Word /\ end <= Word
  BY <1>1, <1>2 DEF EndOf, Block, Address
<1> HIDE DEF end
<1>4. a < end
  BY <1>3, WordIsPositive
<1>5. QED
  BY <1>1, <1>4 DEF end

LEMMA ScanSplitsKeepsSplits ==
    ASSUME TypeInv, RequestsInRange, MapSound, SplitsSound, ~starved, ScanSplits
    PROVE  SplitsSound'
<1> DEFINE b == blocks[Hit]
<1>1. /\ stack # <<>> /\ Top.base \in Address /\ Top.size \in Address
      /\ Top.pc = "res_scan"
  BY ReserveTop DEF ScanSplits, ReservePc, At
<1>2. /\ Hit \in 1 .. Len(blocks) /\ Len(blocks) \in Nat /\ b \in Block
      /\ b.type = Available
  BY HitExists DEF ScanSplits, TypeInv, TypeOK
<1>3. Top.base + Top.size < Word
  BY <1>1 DEF RequestsInRange, InRangeFrame, Top, ReservePc
<1>4. Top.size < b.size
  <2>1. CASE AnyFit(b) /\ b.size # Top.size
    BY <1>1, <1>2, <2>1 DEF AnyFit, Block, Address
  <2>2. CASE Top.base = b.base /\ (Top.base + Top.size) % Word < EndOf(b)
    <3>1. /\ (Top.base + Top.size) % Word = Top.base + Top.size
          /\ Top.base + Top.size \in Address
      <4> DEFINE n == Top.base + Top.size
      <4>1. n \in Nat /\ n < Word
        BY <1>1, <1>3 DEF Address
      <4> HIDE DEF n
      <4>2. n % Word = n /\ n \in Address
        BY <4>1, WordIsPositive DEF Address
      <4>3. QED
        BY <4>2 DEF n
    <3>2. Top.base + Top.size < b.base + b.size
      BY <1>2, <2>2, <3>1, EndInMap
    <3>3. QED
      BY <1>1, <1>2, <2>2, <3>2 DEF Block, Address
  <2>3. QED
    BY <2>1, <2>2 DEF ScanSplits
<1>5. LET f == Split(Hit, Top.size)
      IN  f \in Frame /\ f.m = Hit /\ f.size = Top.size
  BY <1>1, <1>2, SplitIsLive, LiveIsFrame DEF Split
<1>6. /\ Len(stack') = Len(stack) /\ stack'[1] = Split(Hit, Top.size)
      /\ \A i \in 2 .. Len(stack') : stack'[i] = stack[i]
  BY <1>1, <1>5, JumpedStack DEF ScanSplits, Goto, TypeInv, TypeOK
<1>7. \A i \in 2 .. Len(stack') : ~Splitting(stack'[i])
  BY <1>1, <1>6, NoSplitBelow DEF ForSplit
<1>8. QED
  BY <1>2, <1>4, <1>5, <1>6, <1>7, TopSplitOnly DEF ScanSplits

LEMMA ScanPrefixKeepsSplits ==
    ASSUME TypeInv, MapSound, SplitsSound, ~starved, ScanPrefix
    PROVE  SplitsSound'
<1> DEFINE b == blocks[Hit]
           n == Top.base - b.base
           resumed == [Top EXCEPT !.pc = "res_again"]
<1>1. /\ stack # <<>> /\ Top.base \in Address /\ Top.size \in Address
      /\ Top.pc = "res_scan" /\ Top \in Frame /\ resumed \in Frame
  BY ReserveTop, LiveIsFrame DEF ScanPrefix, ReservePc, At
<1>2. /\ Hit \in 1 .. Len(blocks) /\ Len(blocks) \in Nat /\ b \in Block
      /\ b.type = Available /\ Covers(b)
  BY HitExists DEF ScanPrefix, TypeInv, TypeOK
<1>3. Top.base < b.base + b.size
  BY <1>1, <1>2, EndInMap DEF Covers
<1>4. n < b.size
  BY <1>1, <1>2, <1>3 DEF Block, Address
<1>5. /\ Split(Hit, n) \in Frame /\ Split(Hit, n).m = Hit
      /\ Split(Hit, n).size = n
  BY PrefixIsLive, LiveIsFrame DEF Split
<1>6. resumed.pc = "res_again"
  BY <1>1, Resumed
<1>7. stack' = <<Split(Hit, n), resumed>> \o Tail(stack) /\ stack \in Seq(Frame)
  BY DEF ScanPrefix, Call, TypeInv, TypeOK
<1> HIDE DEF n, resumed
<1>8. /\ Len(stack') = Len(stack) + 1 /\ Len(stack) \in Nat
      /\ stack'[1] = Split(Hit, n) /\ stack'[2] = resumed
      /\ \A i \in 3 .. Len(stack') : stack'[i] = stack[i - 1]
  BY <1>1, <1>5, <1>7, PushedStack
<1>9. ASSUME NEW i \in 2 .. Len(stack')  PROVE ~Splitting(stack'[i])
  <2>1. CASE i = 2
    BY <1>6, <1>8, <2>1 DEF Splitting, SplitPc
  <2>2. CASE i >= 3
    <3>1. stack'[i] = stack[i - 1] /\ i - 1 \in 2 .. Len(stack)
      BY <1>8, <2>2
    <3>2. QED
      BY <1>1, <3>1, NoSplitBelow DEF ForSplit
  <2>3. QED
    BY <1>8, <2>1, <2>2
<1>10. QED
  BY <1>2, <1>4, <1>5, <1>8, <1>9, TopSplitOnly DEF ScanPrefix

-----------------------------------------------------------------------------
(* The map itself.                                                         *)
(* Two parts of a block, and whatever a block is disjoint from.            *)
LEMMA SplitParts ==
    ASSUME NEW b \in Block, NEW n \in Address,
           b.base + b.size <= Word, n < b.size
    PROVE  /\ Shrink(b, n).base = b.base + n /\ Shrink(b, n).size = b.size - n
           /\ FrontOf(b, n).base = b.base /\ FrontOf(b, n).size = n
<1>1. /\ b.base \in Nat /\ b.size \in Nat /\ n \in Nat
      /\ b.size < Word /\ n < Word /\ b.base + n < Word /\ n < b.size
  BY WordIsPositive DEF Block, Address
<1>2. /\ (b.base + n) % Word = b.base + n /\ (b.size - n) % Word = b.size - n
      /\ n % Word = n
  <2>1. b.base + n \in Nat /\ b.size - n \in Nat /\ b.size - n < Word
    <3> DEFINE x == b.base
               y == b.size
    <3>1. x \in Nat /\ y \in Nat /\ n < y /\ y < Word
      BY <1>1
    <3> HIDE DEF x, y
    <3>2. x + n \in Nat /\ y - n \in Nat /\ y - n < Word
      BY <1>1, <3>1, WordIsPositive
    <3>3. QED
      BY <3>2 DEF x, y
  <2>2. \A k \in Nat : k < Word => k % Word = k
    BY WordIsPositive
  <2>3. QED
    BY <1>1, <2>1, <2>2
<1>3. QED
  BY <1>2 DEF Shrink, FrontOf, Block

LEMMA SplitLinkKeepsMap ==
    ASSUME TypeInv, MapSound, SplitsSound, ~starved, SplitLink
    PROVE  MapSound' /\ SplitsSound'
<1> DEFINE m == Top.m
           n == Top.size
           k == Len(blocks)
           rest == Shrink(blocks[m], n)
           front == FrontOf(blocks[m], n)
<1>1. /\ stack # <<>> /\ Top \in SplitFrame /\ m \in 1 .. k
      /\ blocks[m] \in Block /\ k \in Nat /\ Len(blocks') = k + 1
      /\ blocks' \in Seq(Block)
      /\ \A d \in 1 .. k : blocks'[d] = IF d = m THEN Shrink(blocks[d], n)
                                         ELSE blocks[d]
      /\ blocks'[k + 1] = front
  BY SplitLinkEffect
<1>2. n \in Address /\ Top.pc = "split_link" /\ Top = stack[1] /\ 1 \in 1 .. Len(stack)
  BY <1>1 DEF SplitFrame, SplitLink, At, Top, TypeInv, TypeOK
<1>3. n < blocks[m].size
  BY <1>2 DEF SplitsSound, SplitPc
<1>4. /\ \A d \in 1 .. k : blocks[d] \in Block
      /\ \A d \in 1 .. k : blocks[d].base + blocks[d].size <= Word
      /\ \A d, e \in 1 .. k : d # e => Disjoint(blocks[d], blocks[e])
  <2>1. blocks \in Seq(Block) /\ DOMAIN blocks = 1 .. k
    BY DEF TypeInv, TypeOK
  <2>2. \A d \in 1 .. k : blocks[d] \in Block
    BY <2>1, ElementOfSeq
  <2>3. QED
    BY <2>1, <2>2 DEF MapSound
<1>5. /\ rest.base = blocks[m].base + n /\ rest.size = blocks[m].size - n
      /\ front.base = blocks[m].base /\ front.size = n
  BY <1>1, <1>2, <1>3, <1>4, SplitParts
<1>6. DOMAIN blocks' = 1 .. k + 1
  BY <1>1
<1> HIDE DEF rest, front, m, n, k
<1>7. /\ n \in Nat /\ \A d \in 1 .. k : blocks[d].base \in Nat /\ blocks[d].size \in Nat
  BY <1>2, <1>4 DEF Address, Block
<1>8. /\ blocks'[m] = rest
      /\ \A d \in 1 .. k : d # m => blocks'[d] = blocks[d]
  BY <1>1 DEF rest
<1>9. /\ rest.base + rest.size <= Word /\ front.base + front.size <= Word
      /\ Disjoint(rest, front) /\ Disjoint(front, rest)
  <2> DEFINE x == blocks[m].base
             y == blocks[m].size
  <2>1. x \in Nat /\ y \in Nat /\ n \in Nat /\ n < y /\ x + y <= Word /\ Word \in Nat
    BY <1>1, <1>3, <1>4, <1>7, WordIsPositive
  <2>2. rest.base = x + n /\ rest.size = y - n /\ front.base = x /\ front.size = n
    BY <1>5
  <2> HIDE DEF x, y
  <2>3. /\ (x + n) + (y - n) <= Word /\ x + n <= Word
        /\ x + n <= x + n
    BY <2>1
  <2>4. QED
    BY <2>2, <2>3 DEF Disjoint
<1>10. ASSUME NEW d \in 1 .. k, d # m
       PROVE  /\ Disjoint(rest, blocks[d]) /\ Disjoint(blocks[d], rest)
              /\ Disjoint(front, blocks[d]) /\ Disjoint(blocks[d], front)
  <2>1. \/ blocks[m].base + blocks[m].size <= blocks[d].base
        \/ blocks[d].base + blocks[d].size <= blocks[m].base
    BY <1>1, <1>4, <1>10 DEF Disjoint
  <2>2. /\ blocks[m].base \in Nat /\ blocks[m].size \in Nat
        /\ blocks[d].base \in Nat /\ blocks[d].size \in Nat
    BY <1>1, <1>7
  <2>3. /\ \/ rest.base + rest.size <= blocks[d].base
           \/ blocks[d].base + blocks[d].size <= rest.base
        /\ \/ front.base + front.size <= blocks[d].base
           \/ blocks[d].base + blocks[d].size <= front.base
    BY <1>3, <1>5, <1>7, <2>1, <2>2
  <2>4. QED
    BY <2>3 DEF Disjoint
<1>11. ASSUME NEW d \in 1 .. k + 1
       PROVE  blocks'[d].base + blocks'[d].size <= Word
  <2>1. d = k + 1 \/ d = m \/ (d \in 1 .. k /\ d # m)
    BY <1>1
  <2>2. QED
    BY <1>1, <1>4, <1>8, <1>9, <2>1
<1>12. ASSUME NEW d \in 1 .. k + 1, NEW e \in 1 .. k + 1, d # e
       PROVE  Disjoint(blocks'[d], blocks'[e])
  <2>1. /\ d = k + 1 \/ d = m \/ (d \in 1 .. k /\ d # m)
        /\ e = k + 1 \/ e = m \/ (e \in 1 .. k /\ e # m)
    BY <1>1
  <2>2. QED
    BY <1>1, <1>4, <1>8, <1>9, <1>10, <1>12, <2>1
<1>13. MapSound'
  BY <1>6, <1>11, <1>12 DEF MapSound, Disjoint
<1>14. SplitsSound'
  BY <1>1, <1>2, PopWithoutSplits DEF SplitLink, Return, ForSplit
<1>15. QED
  BY <1>13, <1>14

(* A block that only changes its type stays where it is.                   *)
LEMMA RetypedMap ==
    ASSUME TypeInv, MapSound, ~starved, NEW d \in 1 .. Len(blocks), NEW type \in Nat,
           blocks' = [blocks EXCEPT ![d].type = type]
    PROVE  MapSound'
<1>1. /\ blocks' \in Seq(Block) /\ Len(blocks') = Len(blocks)
      /\ \A e \in 1 .. Len(blocks) : /\ blocks'[e].base = blocks[e].base
                                     /\ blocks'[e].size = blocks[e].size
  BY RetypedBlocks
<1>2. DOMAIN blocks' = 1 .. Len(blocks) /\ DOMAIN blocks = 1 .. Len(blocks)
  BY <1>1 DEF TypeInv, TypeOK
<1>3. QED
  BY <1>1, <1>2 DEF MapSound, Disjoint

LEMMA MapStepKeepsMap ==
    ASSUME TypeInv, RequestsInRange, MapSound, SplitsSound, ~starved, MapStep
    PROVE  MapSound' /\ SplitsSound'
<1>1. CASE SplitLink
  BY <1>1, SplitLinkKeepsMap
<1>2. CASE SplitAlloc \/ ScanSplits \/ ScanPrefix
  <2>1. SplitsSound'
    BY <1>2, SplitAllocKeepsSplits, ScanSplitsKeepsSplits, ScanPrefixKeepsSplits
  <2>2. blocks' = blocks
    BY <1>2 DEF SplitAlloc, ScanSplits, ScanPrefix
  <2>3. QED
    BY <2>1, <2>2, MapUnchanged
<1>3. CASE ScanExact
  <2>1. SplitsSound'
    BY <1>3, ReserveStepsKeepSplits
  <2>2. /\ Hit \in 1 .. Len(blocks) /\ Reserved \in Nat
        /\ blocks' = [blocks EXCEPT ![Hit].type = Reserved]
    BY <1>3, HitExists DEF ScanExact, Reserved
  <2>3. QED
    BY <2>1, <2>2, RetypedMap
<1>4. CASE \/ ReserveExtendFirst \/ ReserveEnough \/ ReserveExtend \/ ReserveAgain
           \/ ScanFails
  <2>1. SplitsSound'
    BY <1>4, ReserveStepsKeepSplits
  <2>2. blocks' = blocks
    BY <1>4 DEF ReserveExtendFirst, ReserveEnough, ReserveExtend, ReserveAgain,
                ScanFails
  <2>3. QED
    BY <2>1, <2>2, MapUnchanged
<1>5. QED
  BY <1>1, <1>2, <1>3, <1>4 DEF MapStep

(* A release makes a block available: a split in progress, if there were   *)
(* one, would still be of an available block.                              *)
LEMMA ReleaseKeepsMap ==
    ASSUME TypeInv, MapSound, SplitsSound, ~starved, NEW r \in owned, ClientRelease(r)
    PROVE  MapSound' /\ SplitsSound'
<1> DEFINE at == {i \in DOMAIN order : blocks[order[i]].base = r.base}
<1>1. stack' = stack /\ starved' = starved
  BY DEF ClientRelease
<1>2. CASE at = {}
  <2>1. blocks' = blocks
    BY <1>2 DEF ClientRelease
  <2>2. QED
    BY <1>1, <2>1 DEF MapSound, SplitsSound
<1>3. CASE at # {}
  <2> DEFINE d == order[First(at)]
  <2>1. order \in Seq(1 .. Len(blocks)) /\ DOMAIN order = 1 .. Len(order)
    BY LenProperties DEF TypeInv, TypeOK
  <2>2. First(at) \in DOMAIN order
    <3>1. at \subseteq Nat /\ at \subseteq DOMAIN order
      BY <2>1
    <3> HIDE DEF at
    <3>2. QED
      BY <1>3, <3>1, FirstIsIn
  <2>3. blocks' = [blocks EXCEPT ![d].type = Available]
    BY <1>3 DEF ClientRelease
  <2>4. d \in 1 .. Len(blocks) /\ Available \in Nat
    BY <2>1, <2>2, ElementOfSeq DEF Available
  <2> HIDE DEF d, at
  <2>5. /\ Len(blocks') = Len(blocks)
        /\ \A e \in 1 .. Len(blocks) :
              /\ blocks'[e].size = blocks[e].size
              /\ blocks'[e].type = IF e = d THEN Available ELSE blocks[e].type
    BY <2>3, <2>4, RetypedBlocks
  <2>6. ASSUME NEW i \in 1 .. Len(stack), stack[i].pc \in SplitPc
        PROVE  stack[i].m \in 1 .. Len(blocks)
    <3>1. stack[i] \in LiveFrame
      BY DEF TypeInv, LiveReferences
    <3>2. QED
      BY <2>6, <3>1, SplitByPc
  <2>7. SplitsSound'
    BY <1>1, <2>5, <2>6 DEF SplitsSound
  <2>8. QED
    BY <2>3, <2>4, <2>7, RetypedMap
<1>4. QED
  BY <1>2, <1>3

(* A call that a client or memory_init makes from the start.               *)
LEMMA StartKeepsMap ==
    ASSUME MapSound, ~starved, NEW frame, ~Splitting(frame), stack' = <<frame>>,
           blocks' = blocks
    PROVE  MapSound' /\ SplitsSound'
<1>1. \A i \in 1 .. Len(stack') : ~Splitting(stack'[i])
  OBVIOUS
<1>2. QED
  BY <1>1, WithoutSplits, MapUnchanged

LEMMA MapInit == ASSUME SaneMap, Init PROVE MapSound /\ SplitsSound /\ RequestsInRange
<1>1. /\ blocks = [i \in 1 .. Len(Zones) |-> ZoneBlock(Zones[i])] /\ stack = <<>>
  BY DEF Init
<1>2. MapSound
  BY <1>1 DEF MapSound, SaneMap
<1>3. SplitsSound /\ RequestsInRange
  BY <1>1 DEF SplitsSound, RequestsInRange
<1>4. QED
  BY <1>2, <1>3

(* The inductive invariant.                                                *)
MapInv == TypeInv /\ RequestsInRange /\ MapSound /\ SplitsSound

LEMMA MapInvStep == ASSUME NoWrap, MapInv, [Next]_vars PROVE MapInv'
<1>1. TypeInv' /\ RequestsInRange'
  BY TypeStep, RangeStep DEF MapInv
<1>2. CASE starved'
  BY <1>1, <1>2 DEF MapInv, MapSound, SplitsSound
<1>3. CASE ~starved'
  <2>1. ~starved
    BY <1>3 DEF Next, Kernel, CacheStep, MapStep, Client, vars, History,
       AllocHit, AllocRefill, AllocMiss, AllocMeta, AllocOwn, AllocGrow,
       ExtendAlloc, ExtendLink, SplitAlloc, SplitLink, ReserveExtendFirst,
       ReserveEnough, ReserveExtend, ScanFails, ScanExact, ScanSplits,
       ScanPrefix, ReserveAgain, StackOverflow, BootCall, BootDone,
       ReserveDone, NewDone, AllocDone, ClientReserve, ClientRelease,
       ClientNew, ClientAlloc, ClientFree
  <2>2. CASE CacheStep
    <3>1. SplitsSound'
      BY <1>3, <2>1, <2>2, CacheStepKeepsSplits DEF MapInv
    <3>2. blocks' = blocks
      BY <2>2 DEF CacheStep, AllocHit, AllocRefill, AllocMiss, AllocMeta, AllocOwn,
                  AllocGrow, ExtendAlloc, ExtendLink
    <3>3. QED
      BY <1>1, <2>1, <3>1, <3>2, MapUnchanged DEF MapInv
  <2>3. CASE MapStep
    BY <1>1, <2>1, <2>3, MapStepKeepsMap DEF MapInv
  <2>4. CASE \E r \in owned : ClientRelease(r)
    BY <1>1, <2>1, <2>4, ReleaseKeepsMap DEF MapInv
  <2>5. ASSUME NEW frame, frame.pc \notin SplitPc, stack' = <<frame>>, blocks' = blocks
        PROVE  MapInv'
    BY <1>1, <2>1, <2>5, StartKeepsMap DEF MapInv, Splitting
  <2>6. ASSUME NEW c, NEW x
        PROVE  /\ \A b, n : Reserve(b, n, x).pc \notin SplitPc
               /\ Alloc(c, x).pc \notin SplitPc
    BY DEF Reserve, Alloc, SplitPc
  <2>7. CASE BootCall
    <3>1. /\ blocks' = blocks
          /\ \/ stack' = <<Reserve(0, LowSize, FALSE)>>
             \/ stack' = <<Reserve(KernelBase, (LastLoaded - KernelBase) % Word, FALSE)>>
             \/ stack' = <<Reserve(LastLoaded, CacheDataSize, FALSE)>>
      BY <2>7 DEF BootCall, BootPhases
    <3>2. QED
      BY <2>5, <2>6, <3>1
  <2>8. CASE \/ \E r \in Requests : ClientReserve(r)
             \/ \E c \in UserCaches, r \in owned : ClientNew(c, r)
             \/ \E c \in UserCaches : ClientAlloc(c)
    BY <2>5, <2>6, <2>8 DEF ClientReserve, ClientNew, ClientAlloc
  <2>9. CASE stack' = stack /\ blocks' = blocks /\ starved' = starved
    BY <1>1, <2>9 DEF MapInv, MapSound, SplitsSound
  <2>10. QED
    BY <2>2, <2>3, <2>4, <2>7, <2>8, <2>9
       DEF Next, Kernel, Client, vars, StackOverflow, BootDone, ReserveDone, NewDone,
           AllocDone, ClientFree, History
<1>4. QED
  BY <1>2, <1>3

(* The invariant: types, requests in range, a sound map, sound splits.     *)
THEOREM MapInvariant == SaneMap /\ NoWrap /\ Spec => []MapInv
<1> SUFFICES ASSUME SaneMap, NoWrap PROVE Spec => []MapInv
  OBVIOUS
<1>1. Init => MapInv
  BY TypeInit, MapInit DEF MapInv
<1>2. MapInv /\ [Next]_vars => MapInv'
  BY MapInvStep
<1>3. QED
  BY <1>1, <1>2, PTL DEF Spec

(* Given a sane memory map and requests that do not wrap, no sequence of   *)
(* reservations, releases and slab extensions makes two blocks of the map  *)
(* overlap, or one run past the end of the address space: each byte is     *)
(* described at most once, until the manager finds one of its own caches   *)
(* empty.                                                                  *)
THEOREM MapStaysSound == SaneMap /\ NoWrap /\ Spec => []MapSound
<1>1. MapInv => MapSound
  BY DEF MapInv
<1>2. QED
  BY <1>1, MapInvariant, PTL

(* Under the same conditions memory_split, however much later it gets to   *)
(* m->size -= size, still has the available and large enough block that    *)
(* the scan of __memory_reserve_ex found: the size never wraps.            *)
THEOREM SplitsStaySound == SaneMap /\ NoWrap /\ Spec => []SplitsSound
<1>1. MapInv => SplitsSound
  BY DEF MapInv
<1>2. QED
  BY <1>1, MapInvariant, PTL

-----------------------------------------------------------------------------
(***************************************************************************)
(* The calls in progress and the memory_map descriptors they need: how     *)
(* deep the mutual recursion goes, why a descriptor is left when it        *)
(* returns, and the only ways in which the manager starves.                *)
(***************************************************************************)

(* Who calls whom, and with which arguments.                               *)

(* A call of __memory_reserve_ex(0, n, ext), or the split it ends in.      *)
Reserving(f, n, ext) ==
    \/ /\ f.pc \in ReservePc /\ f.base = 0 /\ f.size = n /\ f.ext = ext
       /\ ext => f.pc \in {"res_check", "res_scan"}
    \/ f.pc \in SplitPc /\ f.size = n
Extending(f, c, n) == f.pc \in ExtPc /\ f.cache = c /\ f.size = n
AllocFrom(f, c) == f.pc = "alloc_try" /\ f.cache = c
RootSize(c) == slabs[c][1].size

(* The frame g waits for the call f.                                       *)
Calls(g, f) ==
    \/ /\ g.pc \in AllocPc /\ g.cache \in UserCaches
       /\ \/ g.pc = "alloc_meta" /\ Reserving(f, MetaSize, TRUE)
          \/ g.pc = "alloc_own" /\ Extending(f, "meta", MetaSize)
          \/ g.pc = "alloc_grow" /\ Reserving(f, RootSize(g.cache), FALSE)
          \/ g.pc = "alloc_try" /\ Extending(f, g.cache, RootSize(g.cache))
    \/ /\ g.pc \in ReservePc /\ g.ext = FALSE
       /\ \/ g.pc = "res_extend" /\ Reserving(f, ExtSize, TRUE)
          \/ /\ g.pc = "res_scan"
             /\ Extending(f, "mmap", ExtSize) /\ f.nmemb = ExtNmemb
          \/ g.pc = "res_again" /\ g.base # 0 /\ f.pc \in SplitPc
    \/ g.pc = "split_link" /\ AllocFrom(f, "mmap")
    \/ g.pc = "ext_link" /\ AllocFrom(f, "meta")

(* The call of a client or of memory_init itself.                          *)
Outermost(f) ==
    \/ /\ call.op \in {"boot", "reserve"}
       /\ (f.pc \in ReservePc /\ f.ext = FALSE) \/ f.pc \in SplitPc
       /\ call.op = "reserve" => f.size = call.size
    \/ call.op = "alloc" /\ f.pc \in AllocPc /\ f.cache \in UserCaches
    \/ call.op = "new" /\ AllocFrom(f, "meta")

CallShape ==
    ~starved =>
        /\ \A i \in 1 .. Len(stack) - 1 : Calls(stack[i + 1], stack[i])
        /\ stack # <<>> => Outermost(stack[Len(stack)])

(* Frames and procedures.                                                  *)
LEMMA PcGroups ==
    ASSUME NEW f \in Frame
    PROVE  /\ f.pc \in ReservePc => f \in ReserveFrame
           /\ f.pc \in SplitPc => f \in SplitFrame
           /\ f.pc \in AllocPc => f \in AllocFrame
           /\ f.pc \in ExtPc => f \in ExtendFrame
BY DEF Frame, ReserveFrame, SplitFrame, AllocFrame, ExtendFrame, ReservePc, SplitPc,
       AllocPc, ExtPc

(* A frame that resumes elsewhere in its procedure is still the call it    *)
(* was, for the frame below it.                                            *)
LEMMA ResumedCall ==
    ASSUME NEW f \in Frame, NEW pc, [f EXCEPT !.pc = pc] \in Frame,
           \/ /\ f.pc \in ReservePc /\ pc \in ReservePc
              /\ f.ext = TRUE => pc \in {"res_check", "res_scan"}
           \/ f.pc \in SplitPc /\ pc \in SplitPc
           \/ f.pc \in ExtPc /\ pc \in ExtPc
    PROVE  /\ \A g : Calls(g, f) => Calls(g, [f EXCEPT !.pc = pc])
           /\ Outermost(f) => Outermost([f EXCEPT !.pc = pc])
<1> DEFINE r == [f EXCEPT !.pc = pc]
<1>1. r.pc = pc
  BY Resumed
<1>2. CASE f.pc \in ReservePc /\ pc \in ReservePc
           /\ (f.ext = TRUE => pc \in {"res_check", "res_scan"})
  <2>1. f \in ReserveFrame
    BY <1>2, PcGroups
  <2>2. r.base = f.base /\ r.size = f.size /\ r.ext = f.ext
    BY <2>1 DEF ReserveFrame
  <2>3. f.pc \notin SplitPc /\ f.pc \notin ExtPc /\ f.pc # "alloc_try" /\ f.pc \notin AllocPc
    BY <1>2 DEF ReservePc, SplitPc, ExtPc, AllocPc
  <2> HIDE DEF r
  <2>4. \A n, x : Reserving(f, n, x) => Reserving(r, n, x)
    BY <1>1, <1>2, <2>2, <2>3 DEF Reserving
  <2>5. \A c, n : ~Extending(f, c, n) /\ ~AllocFrom(f, c)
    BY <2>3 DEF Extending, AllocFrom
  <2>6. QED
    BY <1>1, <1>2, <2>2, <2>3, <2>4, <2>5 DEF Calls, Outermost, r
<1>3. CASE f.pc \in SplitPc /\ pc \in SplitPc
  <2>1. f \in SplitFrame
    BY <1>3, PcGroups
  <2>2. r.size = f.size
    BY <2>1 DEF SplitFrame
  <2>3. f.pc \notin ReservePc /\ f.pc \notin ExtPc /\ f.pc # "alloc_try" /\ f.pc \notin AllocPc
    BY <1>3 DEF ReservePc, SplitPc, ExtPc, AllocPc
  <2> HIDE DEF r
  <2>4. \A n, x : Reserving(f, n, x) => Reserving(r, n, x)
    BY <1>1, <1>3, <2>2, <2>3 DEF Reserving
  <2>5. \A c, n : ~Extending(f, c, n) /\ ~AllocFrom(f, c)
    BY <2>3 DEF Extending, AllocFrom
  <2>6. QED
    BY <1>1, <1>3, <2>2, <2>3, <2>4, <2>5 DEF Calls, Outermost, r
<1>4. CASE f.pc \in ExtPc /\ pc \in ExtPc
  <2>1. f \in ExtendFrame
    BY <1>4, PcGroups
  <2>2. r.size = f.size /\ r.cache = f.cache /\ r.nmemb = f.nmemb
    BY <2>1 DEF ExtendFrame
  <2>3. f.pc \notin ReservePc /\ f.pc \notin SplitPc /\ f.pc # "alloc_try" /\ f.pc \notin AllocPc
    BY <1>4 DEF ReservePc, SplitPc, ExtPc, AllocPc
  <2> HIDE DEF r
  <2>4. \A c, n : Extending(f, c, n) => Extending(r, c, n)
    BY <1>1, <1>4, <2>2 DEF Extending
  <2>5. \A c, n, x : ~Reserving(f, n, x) /\ ~AllocFrom(f, c)
    BY <2>3 DEF Reserving, AllocFrom
  <2>6. QED
    BY <1>1, <1>4, <2>2, <2>3, <2>4, <2>5 DEF Calls, Outermost, r
<1>5. QED
  BY <1>2, <1>3, <1>4

(* A call of cache_alloc on a client's cache is the outermost.             *)
LEMMA ResumedAlloc ==
    ASSUME NEW f \in Frame, f.pc \in AllocPc, f.cache \in UserCaches,
           NEW pc \in AllocPc, [f EXCEPT !.pc = pc] \in Frame
    PROVE  /\ \A g : ~Calls(g, f)
           /\ Outermost(f) => Outermost([f EXCEPT !.pc = pc])
           /\ [f EXCEPT !.pc = pc].cache = f.cache /\ [f EXCEPT !.pc = pc].pc = pc
<1>1. f \in AllocFrame /\ f.cache # "meta" /\ f.cache # "mmap"
  BY PcGroups, ClientsAssumption
<1>2. [f EXCEPT !.pc = pc].cache = f.cache /\ [f EXCEPT !.pc = pc].pc = pc
  BY <1>1 DEF AllocFrame
<1>3. /\ \A n, x : ~Reserving(f, n, x)
      /\ \A c, n : ~Extending(f, c, n)
      /\ ~AllocFrom(f, "meta") /\ ~AllocFrom(f, "mmap") /\ f.pc \notin SplitPc
      /\ f.pc \notin ReservePc
  BY <1>1 DEF Reserving, Extending, AllocFrom, AllocPc, ReservePc, SplitPc, ExtPc
<1>4. QED
  BY <1>2, <1>3 DEF Calls, Outermost

-----------------------------------------------------------------------------
(* The shape of the stack after a call, a jump and a return.               *)
LEMMA ShapeFacts ==
    ASSUME TypeInv, CallShape, ~starved, stack # <<>>
    PROVE  /\ stack \in Seq(Frame) /\ Top \in Frame /\ Top = stack[1]
           /\ Len(stack) \in Nat /\ Len(stack) >= 1
           /\ Len(stack) = 1 => Outermost(Top)
           /\ Len(stack) > 1 => Calls(stack[2], Top)
           /\ \A i \in 2 .. Len(stack) : stack[i] \in Frame
           /\ \A i \in 2 .. Len(stack) - 1 : Calls(stack[i + 1], stack[i])
           /\ Len(stack) > 1 => Outermost(stack[Len(stack)])
<1>1. /\ stack \in Seq(Frame) /\ Top \in Frame /\ Top = stack[1]
      /\ Len(stack) \in Nat /\ Len(stack) >= 1
      /\ \A i \in 2 .. Len(stack) : stack[i] \in Frame
  BY DEF TypeInv, TypeOK, Top
<1>2. /\ \A i \in 1 .. Len(stack) - 1 : Calls(stack[i + 1], stack[i])
      /\ Outermost(stack[Len(stack)])
  BY DEF CallShape
<1>3. Len(stack) > 1 => Calls(stack[2], Top)
  <2>1. Len(stack) > 1 => 1 \in 1 .. Len(stack) - 1 /\ 1 + 1 = 2
    BY <1>1
  <2>2. QED
    BY <1>1, <1>2, <2>1
<1>4. QED
  BY <1>1, <1>2, <1>3

LEMMA CallsStay ==
    ASSUME NEW g, NEW f, call' = call,
           g.pc \in AllocPc /\ g.cache \in UserCaches
               => RootSize(g.cache)' = RootSize(g.cache)
    PROVE  /\ Calls(g, f) => Calls(g, f)'
           /\ Outermost(f) => Outermost(f)'
BY DEF Calls, Outermost, Reserving, Extending, AllocFrom, AllocPc, ReservePc, SplitPc,
       ExtPc, MetaSize, ExtSize

LEMMA ShapePush ==
    ASSUME TypeInv, CallShape, ~starved, stack # <<>>, NEW callee \in Frame,
           NEW resumed \in Frame, stack' = <<callee, resumed>> \o Tail(stack),
           UNCHANGED <<slabs, call>>, Calls(resumed, callee),
           \A g : Calls(g, Top) => Calls(g, resumed),
           Outermost(Top) => Outermost(resumed)
    PROVE  CallShape'
<1>1. /\ stack \in Seq(Frame) /\ Top = stack[1] /\ Len(stack) \in Nat /\ Len(stack) >= 1
      /\ Len(stack) = 1 => Outermost(Top)
      /\ Len(stack) > 1 => Calls(stack[2], Top)
      /\ \A i \in 2 .. Len(stack) - 1 : Calls(stack[i + 1], stack[i])
      /\ Len(stack) > 1 => Outermost(stack[Len(stack)])
  BY ShapeFacts
<1>2. /\ Len(stack') = Len(stack) + 1 /\ stack'[1] = callee /\ stack'[2] = resumed
      /\ \A i \in 3 .. Len(stack') : stack'[i] = stack[i - 1]
  BY <1>1, PushedStack
<1>3. ASSUME NEW i \in 1 .. Len(stack') - 1
      PROVE  \A g, f : g = stack'[i + 1] /\ f = stack'[i] => Calls(g, f)
  <2>1. CASE i = 1
    BY <1>2, <2>1
  <2>2. CASE i = 2
    <3>1. Len(stack) > 1 /\ stack'[3] = stack[2] /\ i + 1 = 3
      BY <1>1, <1>2, <2>2
    <3>2. QED
      BY <1>1, <1>2, <2>2, <3>1
  <2>3. CASE i > 2
    <3>1. /\ stack'[i] = stack[i - 1] /\ stack'[i + 1] = stack[(i - 1) + 1]
          /\ i - 1 \in 2 .. Len(stack) - 1
      BY <1>1, <1>2, <2>3
    <3>2. QED
      BY <1>1, <3>1
  <2>4. QED
    BY <2>1, <2>2, <2>3
<1>4. \A f : f = stack'[Len(stack')] => Outermost(f)
  <2>1. CASE Len(stack) = 1
    BY <1>1, <1>2, <2>1
  <2>2. CASE Len(stack) > 1
    <3>1. stack'[Len(stack')] = stack[Len(stack)]
      BY <1>1, <1>2, <2>2
    <3>2. QED
      BY <1>1, <2>2, <3>1
  <2>3. \A n \in Nat : n >= 1 => n = 1 \/ n > 1
    OBVIOUS
  <2>4. QED
    BY <1>1, <2>1, <2>2, <2>3
<1>5. \A g, f : (Calls(g, f) => Calls(g, f)') /\ (Outermost(f) => Outermost(f)')
  BY CallsStay DEF RootSize
<1>6. QED
  BY <1>3, <1>4, <1>5 DEF CallShape

LEMMA ShapeJump ==
    ASSUME TypeInv, CallShape, ~starved, stack # <<>>, NEW frame \in Frame,
           Goto(frame), UNCHANGED <<slabs, call>>,
           \A g : Calls(g, Top) => Calls(g, frame),
           Outermost(Top) => Outermost(frame)
    PROVE  CallShape'
<1>1. /\ stack \in Seq(Frame) /\ Top = stack[1] /\ Len(stack) \in Nat /\ Len(stack) >= 1
      /\ Len(stack) = 1 => Outermost(Top)
      /\ Len(stack) > 1 => Calls(stack[2], Top)
      /\ \A i \in 2 .. Len(stack) - 1 : Calls(stack[i + 1], stack[i])
      /\ Len(stack) > 1 => Outermost(stack[Len(stack)])
  BY ShapeFacts
<1>2. /\ Len(stack') = Len(stack) /\ stack'[1] = frame
      /\ \A i \in 2 .. Len(stack') : stack'[i] = stack[i]
  BY <1>1, JumpedStack DEF Goto
<1>3. ASSUME NEW i \in 1 .. Len(stack') - 1
      PROVE  \A g, f : g = stack'[i + 1] /\ f = stack'[i] => Calls(g, f)
  <2>1. CASE i = 1
    <3>1. Len(stack) > 1 /\ stack'[i + 1] = stack[2]
      BY <1>1, <1>2, <2>1
    <3>2. QED
      BY <1>1, <1>2, <2>1, <3>1
  <2>2. CASE i > 1
    <3>1. /\ stack'[i] = stack[i] /\ stack'[i + 1] = stack[i + 1]
          /\ i \in 2 .. Len(stack) - 1
      BY <1>1, <1>2, <2>2
    <3>2. QED
      BY <1>1, <3>1
  <2>3. QED
    BY <2>1, <2>2
<1>4. \A f : f = stack'[Len(stack')] => Outermost(f)
  <2>1. CASE Len(stack) = 1
    BY <1>1, <1>2, <2>1
  <2>2. CASE Len(stack) > 1
    <3>1. stack'[Len(stack')] = stack[Len(stack)]
      BY <1>1, <1>2, <2>2
    <3>2. QED
      BY <1>1, <2>2, <3>1
  <2>3. \A n \in Nat : n >= 1 => n = 1 \/ n > 1
    OBVIOUS
  <2>4. QED
    BY <1>1, <2>1, <2>2, <2>3
<1>5. \A g, f : (Calls(g, f) => Calls(g, f)') /\ (Outermost(f) => Outermost(f)')
  BY CallsStay DEF RootSize
<1>6. QED
  BY <1>3, <1>4, <1>5 DEF CallShape

(* A return may have changed the slabs, but no cache's size of a slab.     *)
LEMMA ShapePop ==
    ASSUME TypeInv, CallShape, ~starved, stack # <<>>, stack' = Tail(stack),
           call' = call, \A c \in UserCaches : slabs[c] # <<>> => RootSize(c)' = RootSize(c)
    PROVE  CallShape'
<1>1. /\ stack \in Seq(Frame) /\ Len(stack) \in Nat /\ Len(stack) >= 1
      /\ \A i \in 2 .. Len(stack) : stack[i] \in Frame
      /\ \A i \in 2 .. Len(stack) - 1 : Calls(stack[i + 1], stack[i])
      /\ Len(stack) > 1 => Outermost(stack[Len(stack)])
  BY ShapeFacts
<1>2. /\ Len(stack') = Len(stack) - 1
      /\ \A i \in 1 .. Len(stack') : stack'[i] = stack[i + 1]
  BY <1>1, PoppedStack
<1>3. ASSUME NEW g \in LiveFrame, NEW f, Calls(g, f)  PROVE Calls(g, f)'
  <2>1. g.pc \in AllocPc /\ g.cache \in UserCaches => RootSize(g.cache)' = RootSize(g.cache)
    <3>1. g.pc \in AllocPc => g.pc \in CachePc
      BY DEF AllocPc, CachePc
    <3>2. QED
      BY <3>1 DEF LiveFrame
  <2>2. QED
    BY <1>3, <2>1, CallsStay
<1>4. ASSUME NEW i \in 1 .. Len(stack') - 1
      PROVE  \A g, f : g = stack'[i + 1] /\ f = stack'[i] => Calls(g, f)'
  <2>1. /\ stack'[i] = stack[i + 1] /\ stack'[i + 1] = stack[(i + 1) + 1]
        /\ i + 1 \in 2 .. Len(stack) - 1 /\ (i + 1) + 1 \in 1 .. Len(stack)
    BY <1>1, <1>2
  <2>2. stack[(i + 1) + 1] \in LiveFrame
    BY <2>1 DEF TypeInv, LiveReferences
  <2>3. Calls(stack[(i + 1) + 1], stack[i + 1])
    BY <1>1, <2>1
  <2>4. QED
    BY <1>3, <2>1, <2>2, <2>3
<1>5. \A f : stack' # <<>> /\ f = stack'[Len(stack')] => Outermost(f)
  <2>1. stack' # <<>> => Len(stack) > 1 /\ stack'[Len(stack')] = stack[Len(stack)]
    BY <1>1, <1>2
  <2>2. QED
    BY <1>1, <2>1
<1>6. \A f : Outermost(f) => Outermost(f)'
  BY DEF Outermost, AllocFrom, AllocPc, ReservePc, SplitPc
<1>7. QED
  BY <1>4, <1>5, <1>6 DEF CallShape

-----------------------------------------------------------------------------
(* What the steps do to the slabs: an object more or less is free in one   *)
(* of them, or a cache has one slab more.                                  *)
SameSlabs ==
    \A c \in Caches :
        /\ Len(slabs'[c]) = Len(slabs[c])
        /\ \A i \in 1 .. Len(slabs[c]) : /\ slabs'[c][i].base = slabs[c][i].base
                                         /\ slabs'[c][i].size = slabs[c][i].size

LEMMA SlabTypes ==
    ASSUME TypeInv, NEW c \in Caches
    PROVE  /\ slabs[c] \in Seq(Slab) /\ DOMAIN slabs[c] = 1 .. Len(slabs[c])
           /\ Len(slabs[c]) \in Nat
           /\ \A i \in 1 .. Len(slabs[c]) : slabs[c][i] \in Slab
<1>1. slabs[c] \in Seq(Slab)
  BY DEF TypeInv, TypeOK
<1>2. QED
  BY <1>1, LenProperties, ElementOfSeq

(* A change of the count of one slab.                                      *)
LEMMA CountChanged ==
    ASSUME TypeInv, NEW c \in Caches, NEW i \in 1 .. Len(slabs[c]), NEW n \in Nat,
           slabs' = [slabs EXCEPT ![c] =
                       [slabs[c] EXCEPT ![i] = [slabs[c][i] EXCEPT !.free = n]]]
    PROVE  /\ SameSlabs
           /\ \A d \in Caches : \A j \in 1 .. Len(slabs[d]) :
                 slabs'[d][j].free = IF d = c /\ j = i THEN n ELSE slabs[d][j].free
<1> DEFINE slab == [slabs[c][i] EXCEPT !.free = n]
           t == [slabs[c] EXCEPT ![i] = slab]
<1>1. /\ slabs[c] \in Seq(Slab) /\ slabs[c][i] \in Slab /\ slabs \in [Caches -> Seq(Slab)]
  BY SlabTypes DEF TypeInv, TypeOK
<1>2. /\ slab \in Slab /\ slab.base = slabs[c][i].base /\ slab.size = slabs[c][i].size
      /\ slab.free = n
  BY <1>1 DEF Slab
<1>3. slabs' = [slabs EXCEPT ![c] = t]
  OBVIOUS
<1> HIDE DEF slab
<1>4. /\ Len(t) = Len(slabs[c])
      /\ \A j \in 1 .. Len(slabs[c]) : t[j] = IF j = i THEN slab ELSE slabs[c][j]
  BY <1>1, <1>2, ExceptSeq
<1> HIDE DEF t
<1>5. \A d \in Caches : slabs'[d] = IF d = c THEN t ELSE slabs[d]
  BY <1>1, <1>3
<1>6. SameSlabs
  BY <1>2, <1>4, <1>5 DEF SameSlabs
<1>7. QED
  BY <1>2, <1>4, <1>5, <1>6

(* AllocHit takes one object of a slab that has one.                       *)
LEMMA AllocHitEffect ==
    ASSUME TypeInv, AllocHit
    PROVE  /\ stack # <<>> /\ stack' = Tail(stack) /\ Top \in AllocFrame
           /\ Top.pc = "alloc_try" /\ Top.cache \in Caches
           /\ UNCHANGED <<blocks, order, call, phase, owned, starved, nullSlab>>
           /\ SameSlabs
           /\ \E i \in 1 .. Len(slabs[Top.cache]) :
                 /\ slabs[Top.cache][i].free > 0
                 /\ \A d \in Caches : \A j \in 1 .. Len(slabs[d]) : slabs'[d][j].free =
                       IF d = Top.cache /\ j = i THEN slabs[d][j].free - 1
                                                 ELSE slabs[d][j].free
<1> DEFINE c == Top.cache
           i == First(HasFree(c))
<1>1. /\ stack # <<>> /\ c \in Caches /\ slabs[c] \in Seq(Slab) /\ Top \in AllocFrame
      /\ Top.pc = "alloc_try"
  BY AllocTop DEF AllocHit, AllocPc, At, TypeInv, TypeOK
<1>2. DOMAIN slabs[c] = 1 .. Len(slabs[c])
  BY <1>1, SlabTypes
<1>3. i \in 1 .. Len(slabs[c]) /\ slabs[c][i].free > 0
  <2>1. HasFree(c) \subseteq Nat /\ HasFree(c) # {}
    <3>1. HasFree(c) # {}
      BY Zenon DEF AllocHit
    <3>2. HasFree(c) \subseteq 1 .. Len(slabs[c])
      BY <1>2 DEF HasFree
    <3>3. Len(slabs[c]) \in Nat
      BY <1>1, SlabTypes
    <3>4. QED
      BY <3>1, <3>2, <3>3
  <2>2. i \in HasFree(c)
    BY <2>1, FirstIsIn
  <2>3. QED
    BY <1>2, <2>2 DEF HasFree
<1>4. slabs[c][i].free - 1 \in Nat
  <2>1. slabs[c][i] \in Slab
    BY <1>1, <1>3, SlabTypes
  <2>2. QED
    BY <1>3, <2>1 DEF Slab
<1>5. slabs' = [slabs EXCEPT ![c] =
                  [slabs[c] EXCEPT ![i] = [slabs[c][i] EXCEPT !.free = slabs[c][i].free - 1]]]
  BY DEF AllocHit
<1>6. /\ stack' = Tail(stack)
      /\ UNCHANGED <<blocks, order, call, phase, owned, starved, nullSlab>>
  BY DEF AllocHit, Return, Control, History
<1> DEFINE n == slabs[c][i].free - 1
<1> HIDE DEF i, c
<1>7. /\ SameSlabs
      /\ \A d \in Caches : \A j \in 1 .. Len(slabs[d]) :
            slabs'[d][j].free = IF d = c /\ j = i THEN n ELSE slabs[d][j].free
  <2>1. n \in Nat /\ slabs' = [slabs EXCEPT ![c] =
                       [slabs[c] EXCEPT ![i] = [slabs[c][i] EXCEPT !.free = n]]]
    BY <1>4, <1>5
  <2> HIDE DEF n
  <2>2. QED
    BY <1>1, <1>3, <2>1, CountChanged
<1>8. \A d \in Caches : \A j \in 1 .. Len(slabs[d]) : slabs'[d][j].free =
         IF d = c /\ j = i THEN slabs[d][j].free - 1 ELSE slabs[d][j].free
  BY <1>7
<1>9. QED
  BY <1>1, <1>3, <1>6, <1>7, <1>8 DEF c

(* ExtendLink adds a slab with every object free.                          *)
LEMMA ExtendLinkEffect ==
    ASSUME TypeInv, ExtendLink
    PROVE  LET c == Top.cache
           IN  /\ stack # <<>> /\ stack' = Tail(stack) /\ Top \in ExtendFrame
               /\ Top.pc = "ext_link" /\ c \in Caches /\ slabs[c] # <<>>
               /\ UNCHANGED <<blocks, order, call, phase, owned, starved>>
               /\ Len(slabs'[c]) = Len(slabs[c]) + 1
               /\ slabs'[c][Len(slabs[c]) + 1] = NewSlab(Top.p, Top.size, Top.nmemb)
               /\ \A i \in 1 .. Len(slabs[c]) : slabs'[c][i] = slabs[c][i]
               /\ \A d \in Caches : d # c => slabs'[d] = slabs[d]
<1> DEFINE c == Top.cache
           slab == NewSlab(Top.p, Top.size, Top.nmemb)
<1>1. stack # <<>> /\ Top \in LiveFrame /\ Top.pc = "ext_link" /\ Top.pc \in ExtPc
  BY TopIsLive DEF ExtendLink, At, ExtPc
<1>2. Top \in ExtendFrame /\ slabs[c] # <<>>
  BY <1>1, ExtendByPc
<1>3. c \in Caches /\ slab \in Slab
  BY <1>2 DEF ExtendFrame, NewSlab, Slab
<1>4. slabs' = [slabs EXCEPT ![c] = Append(slabs[c], slab)] /\ slabs[c] \in Seq(Slab)
  BY <1>3, SlabTypes DEF ExtendLink
<1>5. /\ stack' = Tail(stack)
      /\ UNCHANGED <<blocks, order, call, phase, owned, starved>>
  BY DEF ExtendLink, Return, Control
<1> HIDE DEF c, slab
<1>6. /\ slabs'[c] = Append(slabs[c], slab)
      /\ \A d \in Caches : d # c => slabs'[d] = slabs[d]
  BY <1>3, <1>4 DEF TypeInv, TypeOK
<1>7. /\ Len(slabs'[c]) = Len(slabs[c]) + 1 /\ slabs'[c][Len(slabs[c]) + 1] = slab
      /\ \A i \in 1 .. Len(slabs[c]) : slabs'[c][i] = slabs[c][i]
  BY <1>3, <1>4, <1>6, AppendProperties
<1>8. QED
  BY <1>1, <1>2, <1>3, <1>5, <1>6, <1>7 DEF c, slab

(* A cache keeps the size of its slabs.                                    *)
LEMMA SameRoots ==
    ASSUME TypeInv, SameSlabs
    PROVE  \A c \in UserCaches : slabs[c] # <<>> => RootSize(c)' = RootSize(c)
<1>1. ASSUME NEW c \in UserCaches, slabs[c] # <<>>  PROVE RootSize(c)' = RootSize(c)
  <2>1. c \in Caches /\ slabs[c] \in Seq(Slab)
    BY SlabTypes DEF Caches
  <2>2. 1 \in 1 .. Len(slabs[c])
    BY <1>1, <2>1
  <2>3. QED
    BY <2>1, <2>2 DEF SameSlabs, RootSize
<1>2. QED
  BY <1>1

-----------------------------------------------------------------------------
(* Every step keeps the shape of the stack.                                *)
LEMMA AllocIsOutermost ==
    ASSUME TypeInv, CallShape, ~starved, stack # <<>>, Top.pc \in AllocPc,
           Top.pc # "alloc_try" \/ Top.cache \notin {"meta", "mmap"}
    PROVE  Len(stack) = 1 /\ call.op = "alloc" /\ Top.cache \in UserCaches
<1>1. /\ Top \in Frame /\ Len(stack) \in Nat /\ Len(stack) >= 1
      /\ Len(stack) = 1 => Outermost(Top)
      /\ Len(stack) > 1 => Calls(stack[2], Top)
  BY ShapeFacts
<1>2. /\ Top.pc \notin ReservePc /\ Top.pc \notin SplitPc /\ Top.pc \notin ExtPc
      /\ ~AllocFrom(Top, "meta") /\ ~AllocFrom(Top, "mmap")
  BY DEF AllocPc, ReservePc, SplitPc, ExtPc, AllocFrom
<1>3. ~(Len(stack) > 1)
  BY <1>1, <1>2 DEF Calls, Reserving, Extending
<1>4. \A n \in Nat : n >= 1 => n = 1 \/ n > 1
  OBVIOUS
<1>5. Len(stack) = 1
  BY <1>1, <1>3, <1>4
<1>6. QED
  BY <1>1, <1>2, <1>5 DEF Outermost

LEMMA CacheStepKeepsShape ==
    ASSUME TypeInv, CallShape, ~starved, ~starved', CacheStep
    PROVE  CallShape'
<1> DEFINE root == slabs[Top.cache][1]
<1>1. CASE AllocHit
  <2>1. stack # <<>> /\ stack' = Tail(stack) /\ call' = call /\ SameSlabs
    BY <1>1, AllocHitEffect
  <2>2. QED
    BY <2>1, SameRoots, ShapePop
<1>2. CASE ExtendLink
  <2> DEFINE c == Top.cache
  <2>1. /\ stack # <<>> /\ stack' = Tail(stack) /\ call' = call
        /\ c \in Caches /\ slabs[c] # <<>>
        /\ \A i \in 1 .. Len(slabs[c]) : slabs'[c][i] = slabs[c][i]
        /\ \A d \in Caches : d # c => slabs'[d] = slabs[d]
    BY <1>2, ExtendLinkEffect
  <2>2. ASSUME NEW d \in UserCaches, slabs[d] # <<>>  PROVE RootSize(d)' = RootSize(d)
    <3>1. d \in Caches /\ slabs[d] \in Seq(Slab)
      BY SlabTypes DEF Caches
    <3>2. 1 \in 1 .. Len(slabs[d])
      BY <2>2, <3>1
    <3>3. QED
      BY <2>1, <3>1, <3>2 DEF RootSize
  <2>3. QED
    BY <2>1, <2>2, ShapePop
<1>3. CASE ExtendAlloc
  <2>1. stack # <<>> /\ Top \in LiveFrame /\ Top.pc = "ext_alloc" /\ Top \in Frame
    BY <1>3, TopIsLive, LiveIsFrame DEF ExtendAlloc, At
  <2> DEFINE resumed == [Top EXCEPT !.pc = "ext_link"]
             callee == Alloc("meta", Top.ext)
  <2>2. Top \in ExtendFrame /\ resumed \in Frame /\ resumed.pc = "ext_link"
    BY <2>1, ExtendByPc, LiveIsFrame, Resumed DEF ExtPc
  <2>3. callee \in Frame /\ AllocFrom(callee, "meta")
    BY <2>2 DEF ExtendFrame, Alloc, AllocFrame, Frame, Caches, AllocFrom
  <2>4. /\ \A g : Calls(g, Top) => Calls(g, resumed)
        /\ Outermost(Top) => Outermost(resumed)
    BY <2>1, <2>2, ResumedCall DEF ExtPc
  <2>5. stack' = <<callee, resumed>> \o Tail(stack) /\ UNCHANGED <<slabs, call>>
    BY <1>3 DEF ExtendAlloc, Call, Control
  <2> HIDE DEF resumed, callee
  <2>6. Calls(resumed, callee)
    BY <2>2, <2>3 DEF Calls
  <2>7. QED
    BY <2>1, <2>2, <2>3, <2>4, <2>5, <2>6, ShapePush
<1>4. CASE AllocRefill \/ AllocMiss \/ AllocMeta \/ AllocOwn \/ AllocGrow
  <2>1. PICK pc \in AllocPc : At(pc)
    BY <1>4 DEF AllocPc, AllocRefill, AllocMiss, AllocMeta, AllocOwn, AllocGrow
  <2>2. /\ stack # <<>> /\ Top \in Frame /\ root \in Slab /\ Top.pc = pc
        /\ Top.cache \in Caches /\ slabs[Top.cache] # <<>>
        /\ \A q \in AllocPc : [Top EXCEPT !.pc = q] \in Frame
    BY <2>1, AllocTop, LiveIsFrame DEF At
  <2>3. Top.pc # "alloc_try" \/ Top.cache \notin {"meta", "mmap"}
    BY <1>4, <2>2 DEF AllocRefill, AllocMiss, AllocMeta, AllocOwn, AllocGrow, At
  <2>4. Top.cache \in UserCaches
    BY <2>1, <2>2, <2>3, AllocIsOutermost
  <2>5. ASSUME NEW q \in AllocPc
        PROVE  /\ [Top EXCEPT !.pc = q] \in Frame
               /\ [Top EXCEPT !.pc = q].cache = Top.cache
               /\ [Top EXCEPT !.pc = q].pc = q
               /\ \A g : Calls(g, Top) => Calls(g, [Top EXCEPT !.pc = q])
               /\ Outermost(Top) => Outermost([Top EXCEPT !.pc = q])
    <3>1. [Top EXCEPT !.pc = q] \in Frame /\ Top.pc \in AllocPc
      BY <2>1, <2>2
    <3>2. QED
      BY <2>2, <2>4, <3>1, ResumedAlloc
  <2>6. ASSUME NEW q \in AllocPc, NEW callee \in Frame, Call(callee, q),
               UNCHANGED <<slabs, call>>,
               \/ q = "alloc_meta" /\ Reserving(callee, MetaSize, TRUE)
               \/ q = "alloc_own" /\ Extending(callee, "meta", MetaSize)
               \/ q = "alloc_grow" /\ Reserving(callee, root.size, FALSE)
               \/ q = "alloc_try" /\ Extending(callee, Top.cache, root.size)
        PROVE  CallShape'
    <3> DEFINE resumed == [Top EXCEPT !.pc = q]
    <3>1. stack' = <<callee, resumed>> \o Tail(stack)
      BY <2>6 DEF Call
    <3>2. /\ resumed \in Frame /\ resumed.cache = Top.cache /\ resumed.pc = q
          /\ \A g : Calls(g, Top) => Calls(g, resumed)
          /\ Outermost(Top) => Outermost(resumed)
      BY <2>5
    <3> HIDE DEF resumed
    <3>3. Calls(resumed, callee)
      BY <2>4, <2>6, <3>2 DEF Calls, RootSize
    <3>4. QED
      BY <2>2, <2>6, <3>1, <3>2, <3>3, ShapePush
  <2>7. /\ root.size \in Address /\ root.nmemb \in Nat /\ MetaSize \in Address
        /\ Nmemb \in Nat /\ 0 \in Address /\ ret \in Address /\ "meta" \in Caches
        /\ slabs["meta"] # <<>>
    BY <2>2, SizesFit, WordIsPositive
       DEF Slab, NULL, TypeInv, TypeOK, LiveReferences, Caches
  <2>8. /\ "alloc_try" \in AllocPc /\ "alloc_meta" \in AllocPc
        /\ "alloc_own" \in AllocPc /\ "alloc_grow" \in AllocPc
    BY DEF AllocPc
  <2> HIDE DEF root
  <2>9. ASSUME NEW n \in Address, NEW x \in BOOLEAN
        PROVE  Reserve(0, n, x) \in Frame /\ Reserving(Reserve(0, n, x), n, x)
    <3>1. Reserve(0, n, x) \in Frame
      BY <2>7, ReserveIsLive, LiveIsFrame
    <3>2. QED
      BY <3>1 DEF Reserving, Reserve, ReservePc
  <2>10. ASSUME NEW c \in Caches, NEW n \in Address, NEW k \in Nat,
                NEW x \in BOOLEAN, slabs[c] # <<>>
         PROVE  Extend(c, ret, n, k, x) \in Frame /\ Extending(Extend(c, ret, n, k, x), c, n)
    <3>1. Extend(c, ret, n, k, x) \in Frame
      BY <2>7, <2>10, ExtendIsLive, LiveIsFrame
    <3>2. QED
      BY <3>1 DEF Extending, Extend, ExtPc
  <2>11. CASE AllocRefill
    BY <2>6, <2>7, <2>8, <2>9, <2>11 DEF AllocRefill, Control
  <2>12. CASE AllocMiss
    BY <2>6, <2>7, <2>8, <2>9, <2>12 DEF AllocMiss, Control, root
  <2>13. CASE AllocMeta
    BY <2>6, <2>7, <2>8, <2>10, <2>13 DEF AllocMeta, Control
  <2>14. CASE AllocOwn
    BY <2>6, <2>7, <2>8, <2>9, <2>14 DEF AllocOwn, Control, root
  <2>15. CASE AllocGrow
    BY <2>2, <2>6, <2>7, <2>8, <2>10, <2>15 DEF AllocGrow, Control, root
  <2>16. QED
    BY <1>4, <2>11, <2>12, <2>13, <2>14, <2>15
<1>5. QED
  BY <1>1, <1>2, <1>3, <1>4 DEF CacheStep

(* A reservation in progress: of a fixed address only the outermost call,  *)
(* under in_extend only while it scans.                                    *)
LEMMA ReserveShape ==
    ASSUME TypeInv, CallShape, ~starved, stack # <<>>, Top.pc \in ReservePc
    PROVE  /\ Top \in ReserveFrame
           /\ Top.pc \in {"res_extend", "res_again"} => Top.ext = FALSE
           /\ Len(stack) = 1 => Top.ext = FALSE
           /\ Len(stack) > 1 => Top.base = 0
           /\ Top.base # 0 => Len(stack) = 1 /\ Top.ext = FALSE
<1>1. /\ Top \in Frame /\ Len(stack) \in Nat /\ Len(stack) >= 1
      /\ Len(stack) = 1 => Outermost(Top)
      /\ Len(stack) > 1 => Calls(stack[2], Top)
  BY ShapeFacts
<1>2. Top \in ReserveFrame /\ Top.ext \in BOOLEAN
  BY <1>1, PcGroups DEF ReserveFrame
<1>3. /\ Top.pc \notin SplitPc /\ Top.pc \notin ExtPc /\ Top.pc \notin AllocPc
      /\ \A c : ~AllocFrom(Top, c) /\ \A n : ~Extending(Top, c, n)
  BY DEF ReservePc, SplitPc, ExtPc, AllocPc, AllocFrom, Extending
<1>4. Outermost(Top) => Top.ext = FALSE
  BY <1>3 DEF Outermost
<1>5. ASSUME NEW g, Calls(g, Top)  PROVE \E n, x : Reserving(Top, n, x) /\ x \in BOOLEAN
  BY <1>3, <1>5 DEF Calls
<1>6. ASSUME NEW g, Calls(g, Top)
      PROVE  Top.base = 0 /\ (Top.pc \in {"res_extend", "res_again"} => Top.ext = FALSE)
  <2>1. PICK n, x : Reserving(Top, n, x) /\ x \in BOOLEAN
    BY <1>5, <1>6
  <2>2. QED
    BY <1>3, <2>1 DEF Reserving
<1>7. \A n \in Nat : n >= 1 => n = 1 \/ n > 1
  OBVIOUS
<1>8. QED
  BY <1>1, <1>2, <1>4, <1>6, <1>7

LEMMA MapStepKeepsShape ==
    ASSUME TypeInv, CallShape, ~starved, ~starved', MapStep
    PROVE  CallShape'
<1>1. CASE SplitLink \/ ScanFails \/ ScanExact
  <2>1. stack # <<>> /\ stack' = Tail(stack) /\ call' = call /\ slabs' = slabs
    BY <1>1 DEF SplitLink, ScanFails, ScanExact, At, Return, Control
  <2>2. QED
    BY <2>1, ShapePop DEF RootSize
<1>2. CASE SplitAlloc
  <2> DEFINE resumed == [Top EXCEPT !.pc = "split_link"]
             callee == Alloc("mmap", FALSE)
  <2>1. stack # <<>> /\ Top \in LiveFrame /\ Top.pc = "split_alloc" /\ Top \in Frame
    BY <1>2, TopIsLive, LiveIsFrame DEF SplitAlloc, At
  <2>2. resumed \in Frame /\ resumed.pc = "split_link" /\ Top.pc \in SplitPc
    BY <2>1, SplitByPc, LiveIsFrame, Resumed DEF SplitPc
  <2>3. callee \in Frame /\ AllocFrom(callee, "mmap")
    BY DEF Alloc, AllocFrame, Frame, Caches, AllocFrom
  <2>4. /\ \A g : Calls(g, Top) => Calls(g, resumed)
        /\ Outermost(Top) => Outermost(resumed)
    BY <2>1, <2>2, ResumedCall DEF SplitPc
  <2>5. stack' = <<callee, resumed>> \o Tail(stack) /\ UNCHANGED <<slabs, call>>
    BY <1>2 DEF SplitAlloc, Call, Control
  <2> HIDE DEF resumed, callee
  <2>6. Calls(resumed, callee)
    BY <2>2, <2>3 DEF Calls
  <2>7. QED
    BY <2>1, <2>2, <2>3, <2>4, <2>5, <2>6, ShapePush
<1>3. ASSUME NEW pc \in ReservePc, At(pc)
      PROVE  /\ stack # <<>> /\ Top.pc \in ReservePc /\ Top \in ReserveFrame
             /\ Top \in Frame
             /\ \A q \in ReservePc : [Top EXCEPT !.pc = q] \in Frame
             /\ Top.base \in Address /\ Top.size \in Address
  BY <1>3, ReserveTop, LiveIsFrame DEF At
<1>4. ASSUME NEW q \in ReservePc, NEW pc \in ReservePc, At(pc),
             Top.ext = TRUE => q \in {"res_check", "res_scan"}
      PROVE  /\ \A g : Calls(g, Top) => Calls(g, [Top EXCEPT !.pc = q])
             /\ Outermost(Top) => Outermost([Top EXCEPT !.pc = q])
             /\ [Top EXCEPT !.pc = q].pc = q
             /\ [Top EXCEPT !.pc = q].ext = Top.ext
             /\ [Top EXCEPT !.pc = q].base = Top.base
  <2>1. /\ Top.pc \in ReservePc /\ Top \in ReserveFrame /\ Top \in Frame
        /\ [Top EXCEPT !.pc = q] \in Frame
    BY <1>3, <1>4
  <2>2. /\ \A g : Calls(g, Top) => Calls(g, [Top EXCEPT !.pc = q])
        /\ Outermost(Top) => Outermost([Top EXCEPT !.pc = q])
    BY <1>4, <2>1, ResumedCall
  <2>3. QED
    BY <2>1, <2>2 DEF ReserveFrame
<1>5. /\ "res_check" \in ReservePc /\ "res_extend" \in ReservePc
      /\ "res_scan" \in ReservePc /\ "res_again" \in ReservePc
  BY DEF ReservePc
<1>6. CASE ReserveEnough
  <2> DEFINE frame == [Top EXCEPT !.pc = "res_scan"]
  <2>1. At("res_check") /\ Goto(frame) /\ UNCHANGED <<slabs, call>>
    BY <1>6 DEF ReserveEnough, Control
  <2>2. /\ stack # <<>> /\ frame \in Frame
        /\ \A g : Calls(g, Top) => Calls(g, frame)
        /\ Outermost(Top) => Outermost(frame)
    BY <1>3, <1>4, <1>5, <2>1
  <2> HIDE DEF frame
  <2>3. QED
    BY <2>1, <2>2, ShapeJump
<1>7. CASE ReserveExtendFirst
  <2> DEFINE resumed == [Top EXCEPT !.pc = "res_extend"]
             callee == Reserve(0, ExtSize, TRUE)
  <2>1. At("res_check") /\ ~Top.ext /\ Call(callee, "res_extend") /\ UNCHANGED <<slabs, call>>
    BY <1>7 DEF ReserveExtendFirst, Control
  <2>2. /\ stack # <<>> /\ resumed \in Frame /\ Top.ext = FALSE
        /\ \A g : Calls(g, Top) => Calls(g, resumed)
        /\ Outermost(Top) => Outermost(resumed)
        /\ resumed.pc = "res_extend" /\ resumed.ext = FALSE
    <3>1. Top.ext = FALSE
      BY <1>3, <1>5, <2>1 DEF ReserveFrame
    <3>2. QED
      BY <1>3, <1>4, <1>5, <2>1, <3>1
  <2>3. callee \in Frame
    BY SizesFit, WordIsPositive, ReserveIsLive, LiveIsFrame DEF NULL
  <2>4. Reserving(callee, ExtSize, TRUE)
    BY DEF Reserving, Reserve, ReservePc
  <2>5. stack' = <<callee, resumed>> \o Tail(stack)
    BY <2>1 DEF Call
  <2> HIDE DEF resumed, callee
  <2>6. Calls(resumed, callee)
    BY <1>5, <2>2, <2>4 DEF Calls
  <2>7. QED
    BY <2>1, <2>2, <2>3, <2>5, <2>6, ShapePush
<1>8. CASE ReserveExtend
  <2> DEFINE resumed == [Top EXCEPT !.pc = "res_scan"]
             callee == Extend("mmap", ret, ExtSize, ExtNmemb, FALSE)
  <2>1. At("res_extend") /\ Call(callee, "res_scan") /\ UNCHANGED <<slabs, call>>
    BY <1>8 DEF ReserveExtend, Control
  <2>2. /\ stack # <<>> /\ resumed \in Frame
        /\ \A g : Calls(g, Top) => Calls(g, resumed)
        /\ Outermost(Top) => Outermost(resumed)
        /\ resumed.pc = "res_scan" /\ resumed.ext = FALSE
    <3>1. Top.ext = FALSE
      BY <1>3, <1>5, <2>1, ReserveShape DEF At
    <3>2. QED
      BY <1>3, <1>4, <1>5, <2>1, <3>1
  <2>3. callee \in Frame
    <3>1. "mmap" \in Caches /\ slabs["mmap"] # <<>> /\ ret \in Address
      BY DEF Caches, TypeInv, TypeOK, LiveReferences
    <3>2. QED
      BY <3>1, SizesFit, ExtendIsLive, LiveIsFrame
  <2>4. Extending(callee, "mmap", ExtSize) /\ callee.nmemb = ExtNmemb
    BY DEF Extending, Extend, ExtPc
  <2>5. stack' = <<callee, resumed>> \o Tail(stack)
    BY <2>1 DEF Call
  <2> HIDE DEF resumed, callee
  <2>6. Calls(resumed, callee)
    BY <1>5, <2>2, <2>4 DEF Calls
  <2>7. QED
    BY <2>1, <2>2, <2>3, <2>5, <2>6, ShapePush
<1>9. CASE ScanSplits
  <2> DEFINE frame == Split(Hit, Top.size)
  <2>1. At("res_scan") /\ Hits # {} /\ Goto(frame) /\ UNCHANGED <<slabs, call>>
    BY <1>9 DEF ScanSplits, Control
  <2>2. /\ stack # <<>> /\ Top.pc \in ReservePc /\ Top.size \in Address
    BY <1>3, <1>5, <2>1
  <2>3. frame \in Frame /\ frame.pc \in SplitPc /\ frame.size = Top.size
    <3>1. Hit \in 1 .. Len(blocks) /\ Len(blocks) \in Nat
      BY <2>1, HitExists DEF TypeInv, TypeOK
    <3>2. frame \in Frame
      BY <2>2, <3>1, SplitIsLive, LiveIsFrame
    <3>3. QED
      BY <3>2 DEF Split, SplitPc
  <2>4. /\ Top.pc \notin SplitPc /\ Top.pc \notin ExtPc /\ Top.pc \notin AllocPc
        /\ \A c : ~AllocFrom(Top, c) /\ \A n : ~Extending(Top, c, n)
    BY <2>2 DEF ReservePc, SplitPc, ExtPc, AllocPc, AllocFrom, Extending
  <2> HIDE DEF frame
  <2>5. \A n, x : Reserving(Top, n, x) => Reserving(frame, n, x)
    BY <2>3, <2>4 DEF Reserving
  <2>6. \A g : Calls(g, Top) => Calls(g, frame)
    BY <2>4, <2>5 DEF Calls
  <2>7. Outermost(Top) => Outermost(frame)
    BY <2>3, <2>4 DEF Outermost
  <2>8. QED
    BY <2>1, <2>2, <2>3, <2>6, <2>7, ShapeJump
<1>10. CASE ScanPrefix
  <2> DEFINE resumed == [Top EXCEPT !.pc = "res_again"]
             callee == Split(Hit, Top.base - blocks[Hit].base)
  <2>1. /\ At("res_scan") /\ Hits # {} /\ ~AnyFit(blocks[Hit])
        /\ Top.base # blocks[Hit].base
        /\ Call(callee, "res_again") /\ UNCHANGED <<slabs, call>>
    BY <1>10 DEF ScanPrefix, Control
  <2>2. stack # <<>> /\ Top.pc \in ReservePc /\ Top.base \in Address
    BY <1>3, <1>5, <2>1
  <2>3. Top.base # 0
    <3>1. Covers(blocks[Hit]) /\ blocks[Hit].base \in Nat
      BY <2>1, HitExists DEF Block, Address
    <3>2. QED
      BY <2>1, <2>2, <3>1, WordIsPositive DEF Covers, Address
  <2>4. Top.ext = FALSE
    BY <2>2, <2>3, ReserveShape
  <2>5. /\ resumed \in Frame
        /\ \A g : Calls(g, Top) => Calls(g, resumed)
        /\ Outermost(Top) => Outermost(resumed)
        /\ resumed.pc = "res_again" /\ resumed.ext = FALSE /\ resumed.base # 0
    BY <1>3, <1>4, <1>5, <2>1, <2>3, <2>4
  <2>6. callee \in Frame /\ callee.pc \in SplitPc
    <3>1. callee \in Frame
      BY <1>10, PrefixIsLive, LiveIsFrame
    <3>2. QED
      BY <3>1 DEF Split, SplitPc
  <2>7. stack' = <<callee, resumed>> \o Tail(stack)
    BY <2>1 DEF Call
  <2> HIDE DEF resumed, callee
  <2>8. Calls(resumed, callee)
    BY <1>5, <2>5, <2>6 DEF Calls
  <2>9. QED
    BY <2>1, <2>2, <2>5, <2>6, <2>7, <2>8, ShapePush
<1>11. CASE ReserveAgain
  <2> DEFINE frame == Reserve(Top.base, Top.size, FALSE)
  <2>1. At("res_again") /\ Goto(frame) /\ UNCHANGED <<slabs, call>>
    BY <1>11 DEF ReserveAgain, Control
  <2>2. stack # <<>> /\ Top \in ReserveFrame /\ Top.ext = FALSE
    BY <1>3, <1>5, <2>1, ReserveShape DEF At
  <2>3. /\ frame.pc = "res_check" /\ frame.base = Top.base /\ frame.size = Top.size
        /\ frame.ext = Top.ext
    BY <2>2 DEF Reserve
  <2>4. Top.pc \in ReservePc /\ frame \in Frame
    BY <1>3, <1>5, <2>1, ReserveIsLive, LiveIsFrame
  <2>5. /\ Top.pc \notin SplitPc /\ Top.pc \notin ExtPc /\ Top.pc \notin AllocPc
        /\ \A c : ~AllocFrom(Top, c) /\ \A n : ~Extending(Top, c, n)
    BY <2>4 DEF ReservePc, SplitPc, ExtPc, AllocPc, AllocFrom, Extending
  <2> HIDE DEF frame
  <2>6. \A n, x : Reserving(Top, n, x) => Reserving(frame, n, x)
    BY <1>5, <2>3, <2>4, <2>5 DEF Reserving
  <2>7. \A g : Calls(g, Top) => Calls(g, frame)
    BY <2>5, <2>6 DEF Calls
  <2>8. Outermost(Top) => Outermost(frame)
    BY <1>5, <2>2, <2>3, <2>5 DEF Outermost
  <2>9. QED
    BY <2>1, <2>2, <2>4, <2>7, <2>8, ShapeJump
<1>12. QED
  BY <1>1, <1>2, <1>6, <1>7, <1>8, <1>9, <1>10, <1>11 DEF MapStep

(* Between the calls of clients and of memory_init nothing is in progress. *)
LEMMA NoCallNoStack ==
    ASSUME TypeInv, CallShape, ~starved, call.op \notin {"boot", "reserve", "alloc", "new"}
    PROVE  stack = <<>>
BY DEF CallShape, Outermost

LEMMA ShapeStart ==
    ASSUME NEW frame, stack' = <<frame>>,
           \A f : f = frame => Outermost(f)'
    PROVE  CallShape'
<1>1. Len(stack') = 1 /\ stack'[1] = frame /\ 1 .. Len(stack') - 1 = {}
  OBVIOUS
<1>2. \A f : f = stack'[Len(stack')] => Outermost(f)'
  BY <1>1
<1>3. QED
  BY <1>1, <1>2 DEF CallShape

LEMMA ShapeSame ==
    ASSUME CallShape, UNCHANGED <<stack, slabs, call, starved>>
    PROVE  CallShape'
<1>1. \A g, f : (Calls(g, f) => Calls(g, f)') /\ (Outermost(f) => Outermost(f)')
  BY CallsStay DEF RootSize
<1>2. QED
  BY <1>1 DEF CallShape

LEMMA OtherStepKeepsShape ==
    ASSUME TypeInv, CallShape, ~starved,
           \/ StackOverflow \/ BootCall \/ BootDone \/ ReserveDone \/ NewDone
           \/ AllocDone \/ Client \/ UNCHANGED vars
    PROVE  CallShape'
<1>1. CASE StackOverflow \/ UNCHANGED vars \/ (\E r \in owned : ClientRelease(r))
  <2>1. UNCHANGED <<stack, slabs, call, starved>>
    BY <1>1 DEF StackOverflow, vars, ClientRelease, History, Control
  <2>2. QED
    BY <2>1, ShapeSame
<1>2. CASE BootDone \/ ReserveDone \/ NewDone \/ AllocDone
  <2>1. stack' = <<>>
    BY <1>2 DEF BootDone, ReserveDone, NewDone, AllocDone
  <2>2. QED
    BY <2>1 DEF CallShape
<1>3. CASE \E c \in UserCaches : \E i \in DOMAIN slabs[c] : ClientFree(c, i)
  <2>1. call = NoCall /\ stack' = stack
    BY <1>3 DEF ClientFree, Idle
  <2>2. stack = <<>>
    BY <2>1, NoCallNoStack DEF NoCall
  <2>3. QED
    BY <2>1, <2>2 DEF CallShape
<1>4. CASE BootCall
  <2>1. /\ call'.op = "boot"
        /\ \E b, n : stack' = <<Reserve(b, n, FALSE)>>
    BY <1>4 DEF BootCall, BootPhases
  <2>2. PICK b, n : stack' = <<Reserve(b, n, FALSE)>>
    BY <2>1
  <2>3. \A f : f = Reserve(b, n, FALSE) => Outermost(f)'
    BY <2>1 DEF Outermost, Reserve, ReservePc, SplitPc
  <2>4. QED
    BY <2>2, <2>3, ShapeStart
<1>5. CASE \E r \in Requests : ClientReserve(r)
  <2>1. PICK r \in Requests : ClientReserve(r)
    BY <1>5
  <2>2. call'.op = "reserve" /\ call'.size = r.size /\ stack' = <<Reserve(r.base, r.size, FALSE)>>
    BY <2>1 DEF ClientReserve
  <2>3. \A f : f = Reserve(r.base, r.size, FALSE) => Outermost(f)'
    BY <2>2 DEF Outermost, Reserve, ReservePc, SplitPc
  <2>4. QED
    BY <2>2, <2>3, ShapeStart
<1>6. CASE \E c \in UserCaches, r \in owned : ClientNew(c, r)
  <2>1. call'.op = "new" /\ stack' = <<Alloc("meta", FALSE)>>
    BY <1>6 DEF ClientNew
  <2>2. \A f : f = Alloc("meta", FALSE) => Outermost(f)'
    BY <2>1 DEF Outermost, Alloc, AllocFrom
  <2>3. QED
    BY <2>1, <2>2, ShapeStart
<1>7. CASE \E c \in UserCaches : ClientAlloc(c)
  <2>1. PICK c \in UserCaches : ClientAlloc(c)
    BY <1>7
  <2>2. call'.op = "alloc" /\ stack' = <<Alloc(c, FALSE)>>
    BY <2>1 DEF ClientAlloc
  <2>3. \A f : f = Alloc(c, FALSE) => Outermost(f)'
    BY <2>2 DEF Outermost, Alloc, AllocPc
  <2>4. QED
    BY <2>2, <2>3, ShapeStart
<1>8. QED
  BY <1>1, <1>2, <1>3, <1>4, <1>5, <1>6, <1>7 DEF Client

LEMMA StarvedStays == ASSUME [Next]_vars PROVE starved' \/ ~starved
BY DEF Next, Kernel, CacheStep, MapStep, Client, vars, History,
   AllocHit, AllocRefill, AllocMiss, AllocMeta, AllocOwn, AllocGrow,
   ExtendAlloc, ExtendLink, SplitAlloc, SplitLink, ReserveExtendFirst,
   ReserveEnough, ReserveExtend, ScanFails, ScanExact, ScanSplits,
   ScanPrefix, ReserveAgain, StackOverflow, BootCall, BootDone,
   ReserveDone, NewDone, AllocDone, ClientReserve, ClientRelease,
   ClientNew, ClientAlloc, ClientFree

LEMMA ShapeStep ==
    ASSUME TypeInv, CallShape, [Next]_vars
    PROVE  CallShape'
<1>1. starved' \/ ~starved
  BY StarvedStays
<1>2. CASE starved'
  BY <1>2 DEF CallShape
<1>3. CASE ~starved'
  BY <1>1, <1>3, CacheStepKeepsShape, MapStepKeepsShape, OtherStepKeepsShape
     DEF Next, Kernel
<1>4. QED
  BY <1>2, <1>3

(* Until the manager starves, every call in progress was made by the one   *)
(* below it, with the arguments the code passes.                           *)
THEOREM CallsNest == Spec => []CallShape
<1>1. Init => CallShape
  BY DEF Init, CallShape
<1>2. TypeInv /\ CallShape /\ [Next]_vars => CallShape'
  BY ShapeStep
<1>3. QED
  BY <1>1, <1>2, TypeCorrect, PTL DEF Spec, TypeInv

-----------------------------------------------------------------------------
(* How deep the calls nest.  A call has a lower rank than its caller.      *)
Rank(f) ==
    IF f.pc \in AllocPc THEN IF f.cache \in UserCaches THEN 4 ELSE 1
    ELSE IF f.pc \in ReservePc /\ f.ext = FALSE THEN 3 ELSE 2

LEMMA CallLowersRank ==
    ASSUME NEW g, NEW f, Calls(g, f)
    PROVE  Rank(f) < Rank(g)
<1>1. \A n, x : Reserving(f, n, x)
         => f.pc \notin AllocPc /\ (x = TRUE => ~(f.pc \in ReservePc /\ f.ext = FALSE))
  BY DEF Reserving, ReservePc, SplitPc, AllocPc
<1>2. \A c, n : Extending(f, c, n) => f.pc \notin AllocPc /\ f.pc \notin ReservePc
  BY DEF Extending, ExtPc, ReservePc, AllocPc
<1>3. CASE g.pc \in AllocPc /\ g.cache \in UserCaches
  <2>1. f.pc \notin AllocPc
    BY <1>1, <1>2, <1>3 DEF Calls, AllocPc, ReservePc
  <2>2. QED
    BY <1>3, <2>1 DEF Rank
<1>4. CASE g.pc \in ReservePc /\ g.ext = FALSE
  <2>1. g.pc \notin AllocPc /\ g.pc # "split_link" /\ g.pc # "ext_link"
    BY <1>4 DEF ReservePc, AllocPc
  <2>2. f.pc \notin AllocPc /\ ~(f.pc \in ReservePc /\ f.ext = FALSE)
    <3>1. f.pc \in SplitPc => f.pc \notin AllocPc /\ f.pc \notin ReservePc
      BY DEF SplitPc, AllocPc, ReservePc
    <3>2. QED
      BY <1>1, <1>2, <2>1, <3>1 DEF Calls
  <2>3. QED
    BY <1>4, <2>1, <2>2 DEF Rank
<1>5. CASE g.pc = "split_link" \/ g.pc = "ext_link"
  <2>1. g.pc \notin AllocPc /\ g.pc \notin ReservePc
    BY <1>5 DEF AllocPc, ReservePc
  <2>2. f.pc = "alloc_try" /\ f.cache \notin UserCaches
    BY <2>1, ClientsAssumption DEF Calls, AllocFrom
  <2>3. QED
    BY <2>1, <2>2 DEF Rank, AllocPc
<1>6. QED
  BY <1>3, <1>4, <1>5 DEF Calls

(* The mutual recursion of the reservations and the slab caches is at most *)
(* four calls deep, whatever clients ask for, until the manager starves:   *)
(* in_extend does what it is for.                                          *)
THEOREM RecursionIsBounded == Spec => []DepthBound
<1>1. TypeInv /\ CallShape => DepthBound
  <2> SUFFICES ASSUME TypeInv, CallShape, ~starved, Len(stack) > 4
               PROVE  FALSE
    BY DEF DepthBound
  <2>1. Len(stack) \in Nat
    BY DEF TypeInv, TypeOK
  <2>2. /\ Calls(stack[2], stack[1]) /\ Calls(stack[3], stack[2])
        /\ Calls(stack[4], stack[3]) /\ Calls(stack[5], stack[4])
    <3>1. \A i \in 1 .. Len(stack) - 1 : Calls(stack[i + 1], stack[i])
      BY DEF CallShape
    <3>2. /\ 1 \in 1 .. Len(stack) - 1 /\ 2 \in 1 .. Len(stack) - 1
          /\ 3 \in 1 .. Len(stack) - 1 /\ 4 \in 1 .. Len(stack) - 1
          /\ 1 + 1 = 2 /\ 2 + 1 = 3 /\ 3 + 1 = 4 /\ 4 + 1 = 5
      BY <2>1
    <3>3. QED
      BY <3>1, <3>2
  <2>3. \A f : Rank(f) \in 1 .. 4
    BY DEF Rank
  <2>4. /\ Rank(stack[1]) < Rank(stack[2]) /\ Rank(stack[2]) < Rank(stack[3])
        /\ Rank(stack[3]) < Rank(stack[4]) /\ Rank(stack[4]) < Rank(stack[5])
    BY <2>2, CallLowersRank
  <2>5. /\ Rank(stack[1]) \in 1 .. 4 /\ Rank(stack[2]) \in 1 .. 4
        /\ Rank(stack[3]) \in 1 .. 4 /\ Rank(stack[4]) \in 1 .. 4
        /\ Rank(stack[5]) \in 1 .. 4
    BY <2>3
  <2>6. QED
    BY <2>4, <2>5
<1>2. QED
  BY <1>1, CallsNest, TypeCorrect, PTL DEF TypeInv

-----------------------------------------------------------------------------
(* What cache_remaining counts.                                            *)
LEMMA FreelistSizes ==
    ASSUME NEW slab \in Slab
    PROVE  /\ FreelistSize(slab) \in Nat /\ slab.free \in Nat
           /\ slab.free = 0 => FreelistSize(slab) = 0
           /\ slab.free = 1 => FreelistSize(slab) = 2
           /\ slab.free > 1 => FreelistSize(slab) > 2
BY DEF Slab, FreelistSize

LEMMA RemainingIsSum ==
    ASSUME TypeInv, NEW c \in Caches
    PROVE  \E len \in [0 .. Len(slabs[c]) -> Nat] :
              /\ len[0] = 0
              /\ \A i \in 1 .. Len(slabs[c]) :
                    len[i] = len[i - 1] + FreelistSize(slabs[c][i])
              /\ CacheRemaining(c) = len[Len(slabs[c])]
<1> DEFINE N == Len(slabs[c])
           S(i) == FreelistSize(slabs[c][i])
           Step(g, i) == IF i = 0 THEN 0 ELSE g[i - 1] + S(i)
           Sums(g, n) == g = [i \in 0 .. n |-> Step(g, i)]
           L == CHOOSE g : Sums(g, N)
<1>1. CacheRemaining(c) = L[N]
  BY DEF CacheRemaining
<1>2. N \in Nat /\ \A i \in 1 .. N : S(i) \in Nat
  BY SlabTypes, FreelistSizes
<1> HIDE DEF N, S
<1>3. \E g : Sums(g, N)
  <2> DEFINE Bad == {n \in 0 .. N : ~\E g : Sums(g, n)}
             k == First(Bad)
  <2>1. CASE Bad # {}
    <3>1. k \in Bad /\ \A j \in Bad : k <= j
      <4>1. Bad \subseteq Nat
        OBVIOUS
      <4> HIDE DEF Bad
      <4>2. QED
        BY <2>1, <4>1, FirstIsIn
    <3> HIDE DEF k
    <3>2. k \in 0 .. N /\ ~\E g : Sums(g, k)
      BY <3>1
    <3>3. CASE k = 0
      <4>1. Sums([i \in 0 .. 0 |-> 0], 0)
        OBVIOUS
      <4>2. QED
        BY <3>2, <3>3, <4>1
    <3>4. CASE k > 0
      <4>1. k - 1 \in 0 .. N /\ k - 1 \notin Bad
        BY <1>2, <3>1, <3>2, <3>4
      <4>2. PICK g : Sums(g, k - 1)
        BY <4>1
      <4> DEFINE h == [i \in 0 .. k |-> IF i < k THEN g[i] ELSE g[k - 1] + S(k)]
      <4>3. \A i \in 0 .. k - 1 : g[i] = Step(g, i)
        BY <4>2
      <4>4. ASSUME NEW i \in 0 .. k  PROVE h[i] = Step(h, i)
        <5>1. CASE i = 0
          BY <1>2, <3>2, <3>4, <4>3, <5>1
        <5>2. CASE i > 0 /\ i < k
          <6>1. i - 1 \in 0 .. k /\ i - 1 < k /\ i \in 0 .. k - 1 /\ i # 0
            BY <1>2, <3>2, <5>2
          <6>2. h[i] = g[i] /\ h[i - 1] = g[i - 1]
            BY <5>2, <6>1
          <6>3. g[i] = g[i - 1] + S(i)
            BY <4>3, <6>1
          <6>4. QED
            BY <6>1, <6>2, <6>3
        <5>3. CASE i = k
          <6>1. i - 1 \in 0 .. k /\ i - 1 < k /\ i # 0
            BY <1>2, <3>2, <3>4, <5>3
          <6>2. QED
            BY <5>3, <6>1
        <5>4. QED
          BY <1>2, <3>2, <5>1, <5>2, <5>3
      <4>5. Sums(h, k)
        BY <4>4
      <4>6. QED
        BY <3>2, <4>5
    <3>5. QED
      BY <1>2, <3>2, <3>3, <3>4
  <2>2. N \in 0 .. N
    BY <1>2
  <2>3. QED
    BY <2>1, <2>2
<1>4. Sums(L, N)
  BY <1>3
<1> HIDE DEF L
<1>5. /\ DOMAIN L = 0 .. N /\ L[0] = 0
      /\ \A i \in 1 .. N : L[i] = L[i - 1] + S(i)
      /\ L = [i \in 0 .. N |-> L[i]]
  <2>1. \A i \in 0 .. N : L[i] = Step(L, i)
    BY <1>4
  <2>2. QED
    BY <1>2, <1>4, <2>1
<1>6. \A i \in 0 .. N : L[i] \in Nat
  <2> DEFINE Bad == {n \in 0 .. N : L[n] \notin Nat}
             k == First(Bad)
  <2>1. CASE Bad # {}
    <3>1. k \in Bad /\ \A j \in Bad : k <= j
      BY <1>2, <2>1, FirstIsIn
    <3> HIDE DEF k
    <3>2. k # 0 /\ k \in 0 .. N /\ L[k] \notin Nat
      BY <1>5, <3>1
    <3>3. k - 1 \in 0 .. N /\ k - 1 \notin Bad /\ k \in 1 .. N
      BY <1>2, <3>1, <3>2
    <3>4. L[k - 1] \in Nat
      BY <3>3
    <3>5. L[k] = L[k - 1] + S(k) /\ S(k) \in Nat
      BY <1>2, <1>5, <3>3
    <3>6. L[k] \in Nat
      BY <3>4, <3>5
    <3>7. QED
      BY <3>2, <3>6
  <2>2. QED
    BY <2>1
<1>7. L \in [0 .. N -> Nat]
  BY <1>5, <1>6
<1>8. QED
  BY <1>1, <1>5, <1>7 DEF N, S

(* One object of the cache is free; two are.                               *)
One(c) == HasFree(c) # {}
Two(c) ==
    \/ \E i \in DOMAIN slabs[c] : slabs[c][i].free > 1
    \/ \E i, j \in HasFree(c) : i # j

(* cache_remaining exceeds the margin of 2 exactly when two objects are    *)
(* free.                                                                   *)
LEMMA RemainingCounts ==
    ASSUME TypeInv, NEW c \in Caches
    PROVE  CacheRemaining(c) > 2 <=> Two(c)
<1> DEFINE N == Len(slabs[c])
           S(i) == FreelistSize(slabs[c][i])
           F(i) == slabs[c][i].free
           None(k) == \A i \in 1 .. k : F(i) = 0
           Twice(k) == \/ \E i \in 1 .. k : F(i) > 1
                       \/ \E i, j \in 1 .. k : i # j /\ F(i) > 0 /\ F(j) > 0
<1>1. PICK len \in [0 .. N -> Nat] :
         /\ len[0] = 0
         /\ \A i \in 1 .. N : len[i] = len[i - 1] + S(i)
         /\ CacheRemaining(c) = len[N]
  BY RemainingIsSum
<1>2. /\ N \in Nat /\ DOMAIN slabs[c] = 1 .. N
      /\ \A i \in 1 .. N : /\ S(i) \in Nat /\ F(i) \in Nat
                           /\ F(i) = 0 => S(i) = 0
                           /\ F(i) = 1 => S(i) = 2
                           /\ F(i) > 1 => S(i) > 2
  BY SlabTypes, FreelistSizes
<1>3. Twice(N) <=> Two(c)
  BY <1>2 DEF Two, HasFree
<1> DEFINE P(k) == /\ len[k] # 1
                   /\ len[k] = 0 <=> None(k)
                   /\ len[k] > 2 <=> Twice(k)
           Bad == {k \in 0 .. N : ~P(k)}
           k == First(Bad)
<1> HIDE DEF N, S, F
<1>4. ASSUME Bad # {}  PROVE FALSE
  <2>1. k \in Bad /\ \A j \in Bad : k <= j
    <3>1. Bad \subseteq Nat
      BY <1>2
    <3> HIDE DEF Bad
    <3>2. QED
      BY <1>4, <3>1, FirstIsIn
  <2> HIDE DEF k
  <2>2. k \in 0 .. N /\ ~P(k)
    BY <2>1
  <2>3. CASE k = 0
    BY <1>1, <2>2, <2>3
  <2>4. CASE k > 0
    <3>1. k - 1 \in 0 .. N /\ k \in 1 .. N /\ k - 1 \notin Bad
      <4>1. k - 1 \in 0 .. N /\ k \in 1 .. N /\ ~(k <= k - 1)
        BY <1>2, <2>2, <2>4
      <4> HIDE DEF Bad
      <4>2. QED
        BY <2>1, <4>1
    <3>2. P(k - 1)
      BY <3>1
    <3>3. /\ len[k] = len[k - 1] + S(k) /\ len[k - 1] \in Nat
          /\ S(k) \in Nat /\ F(k) \in Nat
          /\ F(k) = 0 => S(k) = 0
          /\ F(k) = 1 => S(k) = 2
          /\ F(k) > 1 => S(k) > 2
      BY <1>1, <1>2, <3>1
    <3>4. \A i \in 1 .. k : i \in 1 .. k - 1 \/ i = k
      BY <1>2, <3>1
    <3>5. /\ \A i \in 1 .. k - 1 : i \in 1 .. k /\ i # k /\ F(i) \in Nat
          /\ k \in 1 .. k
      <4>1. \A i \in 1 .. k - 1 : i \in 1 .. k /\ i # k /\ i \in 1 .. N
        BY <1>2, <3>1
      <4>2. k \in 1 .. k
        BY <1>2, <3>1
      <4>3. QED
        BY <1>2, <4>1, <4>2
    <3>6. None(k) <=> None(k - 1) /\ F(k) = 0
      BY <3>4, <3>5
    <3>7. Twice(k) <=> Twice(k - 1) \/ F(k) > 1 \/ (F(k) > 0 /\ ~None(k - 1))
      <4>1. ASSUME Twice(k)
            PROVE  Twice(k - 1) \/ F(k) > 1 \/ (F(k) > 0 /\ ~None(k - 1))
        <5>1. CASE \E i \in 1 .. k : F(i) > 1
          BY <3>4, <5>1
        <5>2. CASE \E i, j \in 1 .. k : i # j /\ F(i) > 0 /\ F(j) > 0
          <6>1. PICK i \in 1 .. k, j \in 1 .. k : i # j /\ F(i) > 0 /\ F(j) > 0
            BY <5>2
          <6>2. CASE i \in 1 .. k - 1 /\ j \in 1 .. k - 1
            BY <6>1, <6>2
          <6>3. CASE i = k /\ j \in 1 .. k - 1
            BY <3>5, <6>1, <6>3
          <6>4. CASE j = k /\ i \in 1 .. k - 1
            BY <3>5, <6>1, <6>4
          <6>5. QED
            BY <3>4, <6>1, <6>2, <6>3, <6>4
        <5>3. QED
          BY <4>1, <5>1, <5>2
      <4>2. ASSUME Twice(k - 1) PROVE Twice(k)
        BY <3>5, <4>2
      <4>3. ASSUME F(k) > 0, ~None(k - 1) PROVE Twice(k)
        <5>1. PICK i \in 1 .. k - 1 : F(i) # 0
          BY <4>3
        <5>2. i \in 1 .. k /\ i # k /\ F(i) > 0
          BY <3>5, <5>1
        <5>3. QED
          BY <3>5, <4>3, <5>2
      <4>4. ASSUME F(k) > 1 PROVE Twice(k)
        BY <3>5, <4>4
      <4>5. QED
        BY <4>1, <4>2, <4>3, <4>4
    <3> HIDE DEF None, Twice
    <3>8. P(k)
      BY <3>2, <3>3, <3>6, <3>7
    <3>9. QED
      BY <2>2, <3>8
  <2>5. QED
    BY <1>2, <2>2, <2>3, <2>4
<1>5. N \in 0 .. N
  BY <1>2
<1>6. P(N)
  BY <1>4, <1>5
<1>7. QED
  BY <1>1, <1>3, <1>6

LEMMA TwoIsOne == ASSUME TypeInv, NEW c \in Caches, Two(c) PROVE One(c)
<1>1. /\ DOMAIN slabs[c] = 1 .. Len(slabs[c])
      /\ \A i \in 1 .. Len(slabs[c]) : slabs[c][i].free \in Nat
  BY SlabTypes DEF Slab
<1>2. QED
  BY <1>1 DEF Two, One, HasFree

-----------------------------------------------------------------------------
(* How many memory_map descriptors are free at each point of a call: two   *)
(* where a split follows whose caller has to leave one, one where the call *)
(* has to leave one or ends in a split for an extension.  The calls in     *)
(* progress are s, `one' and `two' say that one and that two are free.     *)

(* Where the frame waits that called s[i].                                 *)
Caller(s, i) == IF i < Len(s) THEN s[i + 1].pc ELSE "client"

(* The caller of s[i] goes on to need a descriptor; s[i] reserves the      *)
(* extension of a reservation that no other call made.                     *)
LeavesOne(s, i) == Caller(s, i) \in {"client", "alloc_grow", "res_again"}
TakesLast(s, i) == Caller(s, i) = "res_extend" /\ Caller(s, i + 1) = "client"

ReserveSpare(s, one, two) ==
    /\ s[1].pc = "res_check" /\ s[1].ext = FALSE /\ Caller(s, 1) = "client" => one
    /\ s[1].pc \in {"res_check", "res_scan"} /\ s[1].ext = TRUE /\ TakesLast(s, 1) => one
    /\ s[1].pc = "res_scan" /\ s[1].ext = FALSE => two
    /\ s[1].pc = "res_again" => one
SplitSpare(s, one, two) ==
    /\ s[1].pc = "split_alloc" => /\ LeavesOne(s, 1) => two
                                  /\ TakesLast(s, 1) => one
    /\ AllocFrom(s[1], "mmap") => /\ LeavesOne(s, 2) => two
                                  /\ TakesLast(s, 2) => one
    /\ s[1].pc = "split_link" /\ LeavesOne(s, 1) => one
AllocSpare(s, one) ==
    /\ s[1].pc = "alloc_try" /\ Caller(s, 1) = "client" => one
    /\ s[1].pc = "alloc_grow" => one
    /\ s[1].pc \in ExtPc /\ Caller(s, 1) = "alloc_try" => one
    /\ AllocFrom(s[1], "meta") /\ Caller(s, 2) = "alloc_try" => one
Spared(s, one, two) ==
    IF s = <<>> THEN one
    ELSE ReserveSpare(s, one, two) /\ SplitSpare(s, one, two) /\ AllocSpare(s, one)

Spare == ~starved => Spared(stack, One("mmap"), Two("mmap"))

(* An extension brings at least two descriptors (10, in the code), and the *)
(* boot loader reports memory.                                             *)
EnoughDescriptors == ExtNmemb >= 2 /\ Zones # <<>>

LEMMA SpareFacts ==
    ASSUME TypeInv, Spare, ~starved
    PROVE  /\ stack = <<>> => One("mmap")
           /\ stack # <<>> =>
                 /\ ReserveSpare(stack, One("mmap"), Two("mmap"))
                 /\ SplitSpare(stack, One("mmap"), Two("mmap"))
                 /\ AllocSpare(stack, One("mmap"))
           /\ Two("mmap") => One("mmap")
           /\ One("mmap") \in BOOLEAN /\ Two("mmap") \in BOOLEAN
<1>1. Two("mmap") => One("mmap")
  BY TwoIsOne DEF Caches
<1>2. One("mmap") \in BOOLEAN /\ Two("mmap") \in BOOLEAN
  BY DEF One, Two
<1>3. QED
  BY <1>1, <1>2 DEF Spare, Spared

(* Steps that leave the counts of free descriptors alone.                  *)
LEMMA SameFree ==
    ASSUME slabs'["mmap"] = slabs["mmap"]
    PROVE  One("mmap")' = One("mmap") /\ Two("mmap")' = Two("mmap")
BY DEF One, Two, HasFree

LEMMA SpareNext ==
    ASSUME Spared(stack', One("mmap")', Two("mmap")')
    PROVE  Spare'
BY DEF Spare, Spared, ReserveSpare, SplitSpare, AllocSpare, LeavesOne, TakesLast, Caller,
       AllocFrom, ExtPc

LEMMA SpareHolds ==
    ASSUME slabs'["mmap"] = slabs["mmap"], stack' # <<>>,
           ReserveSpare(stack', One("mmap"), Two("mmap")),
           SplitSpare(stack', One("mmap"), Two("mmap")),
           AllocSpare(stack', One("mmap"))
    PROVE  Spare'
<1>1. One("mmap")' = One("mmap") /\ Two("mmap")' = Two("mmap")
  BY SameFree
<1>2. QED
  BY <1>1, SpareNext DEF Spared

(* The callers after a call, a jump and a return.                          *)
LEMMA PushedCaller ==
    ASSUME TypeInv, stack # <<>>, NEW callee \in LiveFrame, NEW resumed \in LiveFrame,
           stack' = <<callee, resumed>> \o Tail(stack)
    PROVE  /\ stack' # <<>> /\ stack'[1] = callee
           /\ Caller(stack', 1) = resumed.pc
           /\ Caller(stack', 2) = Caller(stack, 1)
           /\ Caller(stack', 3) = Caller(stack, 2)
<1> DEFINE s == stack
           t == stack'
<1>1. s \in Seq(LiveFrame)
  BY DEF TypeInv, LiveReferences
<1>2. t = <<callee, resumed>> \o Tail(s) /\ s # <<>>
  OBVIOUS
<1> HIDE DEF s, t
<1>3. /\ Len(t) = Len(s) + 1 /\ t[1] = callee /\ t[2] = resumed
      /\ \A i \in 3 .. Len(t) : t[i] = s[i - 1]
      /\ Len(s) \in Nat /\ Len(s) >= 1 /\ t # <<>>
  BY <1>1, <1>2, PushedStack
<1>4. \A n \in Nat : n >= 1 => /\ 1 < n + 1 /\ (2 < n + 1 <=> 1 < n)
                               /\ (3 < n + 1 <=> 2 < n)
  OBVIOUS
<1>5. (Len(s) > 1 => t[3] = s[2]) /\ (Len(s) > 2 => t[4] = s[3])
  BY <1>3
<1>6. /\ Caller(t, 1) = resumed.pc /\ Caller(t, 2) = Caller(s, 1)
      /\ Caller(t, 3) = Caller(s, 2)
  BY <1>3, <1>4, <1>5 DEF Caller
<1>7. QED
  BY <1>3, <1>6 DEF s, t

LEMMA JumpedCaller ==
    ASSUME TypeInv, stack # <<>>, NEW frame \in LiveFrame, Goto(frame)
    PROVE  /\ stack' # <<>> /\ stack'[1] = frame
           /\ Caller(stack', 1) = Caller(stack, 1)
           /\ Caller(stack', 2) = Caller(stack, 2)
<1> DEFINE s == stack
           t == stack'
<1>1. s \in Seq(LiveFrame)
  BY DEF TypeInv, LiveReferences
<1>2. t = <<frame>> \o Tail(s) /\ s # <<>>
  BY DEF Goto
<1> HIDE DEF s, t
<1>3. /\ Len(t) = Len(s) /\ t[1] = frame /\ \A i \in 2 .. Len(t) : t[i] = s[i]
      /\ Len(s) \in Nat /\ Len(s) >= 1 /\ t # <<>>
  BY <1>1, <1>2, JumpedStack
<1>4. (Len(s) > 1 => t[2] = s[2]) /\ (Len(s) > 2 => t[3] = s[3])
  BY <1>3
<1>5. Caller(t, 1) = Caller(s, 1) /\ Caller(t, 2) = Caller(s, 2)
  BY <1>3, <1>4 DEF Caller
<1>6. QED
  BY <1>3, <1>5 DEF s, t

LEMMA PoppedCaller ==
    ASSUME TypeInv, stack # <<>>, stack' = Tail(stack)
    PROVE  /\ Len(stack) = 1 => stack' = <<>>
           /\ Len(stack) > 1 => stack' # <<>> /\ stack'[1] = stack[2]
           /\ Caller(stack', 1) = Caller(stack, 2)
           /\ Caller(stack', 2) = Caller(stack, 3)
<1> DEFINE s == stack
           t == stack'
<1>1. s \in Seq(LiveFrame)
  BY DEF TypeInv, LiveReferences
<1>2. t = Tail(s) /\ s # <<>>
  OBVIOUS
<1> HIDE DEF s, t
<1>3. /\ Len(t) = Len(s) - 1 /\ \A i \in 1 .. Len(t) : t[i] = s[i + 1]
      /\ Len(s) \in Nat /\ Len(s) >= 1 /\ t \in Seq(LiveFrame)
  BY <1>1, <1>2, PoppedStack
<1>4. /\ Len(s) > 1 => t[1] = s[2] /\ t # <<>>
      /\ Len(s) > 2 => t[2] = s[3]
      /\ Len(s) > 3 => t[3] = s[4]
      /\ Len(s) = 1 => t = <<>>
  BY <1>3
<1>5. \A n \in Nat : n >= 1 => (1 < n - 1 <=> 2 < n) /\ (2 < n - 1 <=> 3 < n)
  OBVIOUS
<1>6. Caller(t, 1) = Caller(s, 2) /\ Caller(t, 2) = Caller(s, 3)
  BY <1>3, <1>4, <1>5 DEF Caller
<1>7. QED
  BY <1>4, <1>6 DEF s, t

(* A frame without a caller is the outermost.                              *)
LEMMA CallerFacts ==
    ASSUME TypeInv, stack # <<>>
    PROVE  /\ stack \in Seq(LiveFrame) /\ Top = stack[1]
           /\ Len(stack) \in Nat /\ Len(stack) >= 1
           /\ Len(stack) = 1 => Caller(stack, 1) = "client" /\ Caller(stack, 2) = "client"
           /\ Len(stack) = 2 => Caller(stack, 2) = "client"
           /\ Len(stack) > 1 => Caller(stack, 1) = stack[2].pc
           /\ Caller(stack, 1) = "client" => Len(stack) = 1
           /\ Caller(stack, 2) = "client" => Len(stack) <= 2
<1>1. /\ stack \in Seq(LiveFrame) /\ Top = stack[1]
      /\ Len(stack) \in Nat /\ Len(stack) >= 1
      /\ \A i \in 1 .. Len(stack) : stack[i] \in Frame
  BY DEF TypeInv, TypeOK, LiveReferences, Top
<1>2. \A f \in Frame : f.pc # "client"
  BY DEF Frame, ReserveFrame, SplitFrame, AllocFrame, ExtendFrame
<1>3. (Len(stack) > 1 => stack[2].pc # "client") /\ (Len(stack) > 2 => stack[3].pc # "client")
  BY <1>1, <1>2
<1>4. /\ Caller(stack, 1) = IF Len(stack) > 1 THEN stack[2].pc ELSE "client"
      /\ Caller(stack, 2) = IF Len(stack) > 2 THEN stack[3].pc ELSE "client"
  BY <1>1 DEF Caller
<1>5. \A n \in Nat : n >= 1 => /\ n = 1 <=> ~(n > 1)
                               /\ n = 1 => ~(n > 2)
                               /\ n = 2 => ~(n > 2)
                               /\ n <= 2 <=> ~(n > 2)
  OBVIOUS
<1>6. QED
  BY <1>1, <1>3, <1>4, <1>5

(* The calls the slab caches make keep the margins.                        *)
LEMMA CacheCallsKeepSpare ==
    ASSUME TypeInv, CallShape, Spare, ~starved, ~starved',
           AllocRefill \/ AllocMiss \/ AllocMeta \/ AllocOwn \/ AllocGrow
    PROVE  Spare'
<1> DEFINE root == slabs[Top.cache][1]
           t == stack'
<1>1. PICK pc \in AllocPc : At(pc)
  BY DEF AllocPc, AllocRefill, AllocMiss, AllocMeta, AllocOwn, AllocGrow
<1>2. /\ stack # <<>> /\ Top \in LiveFrame /\ Top.pc = pc /\ root \in Slab
      /\ Top.cache \in Caches /\ slabs[Top.cache] # <<>>
      /\ \A q \in AllocPc : [Top EXCEPT !.pc = q] \in LiveFrame
  BY <1>1, AllocTop DEF At
<1>3. Top.pc # "alloc_try" \/ Top.cache \notin {"meta", "mmap"}
  BY <1>2 DEF AllocRefill, AllocMiss, AllocMeta, AllocOwn, AllocGrow, At
<1>4. /\ Len(stack) = 1 /\ Top.cache \in UserCaches /\ Top = stack[1]
      /\ stack \in Seq(LiveFrame) /\ Caller(stack, 1) = "client"
  BY <1>1, <1>2, <1>3, AllocIsOutermost, CallerFacts
<1>5. /\ root.size \in Address /\ root.nmemb \in Nat /\ MetaSize \in Address
      /\ Nmemb \in Nat /\ 0 \in Address /\ ret \in Address /\ "meta" \in Caches
      /\ slabs["meta"] # <<>>
  BY <1>2, SizesFit, WordIsPositive
     DEF Slab, NULL, TypeInv, TypeOK, LiveReferences, Caches
<1> HIDE DEF root
<1>6. ASSUME NEW callee \in LiveFrame, NEW q \in AllocPc, Call(callee, q)
      PROVE  t # <<>> /\ t[1] = callee /\ Caller(t, 1) = q /\ Caller(t, 2) = "client"
  <2> DEFINE resumed == [Top EXCEPT !.pc = q]
  <2>1. t = <<callee, resumed>> \o Tail(stack)
    BY <1>6 DEF Call
  <2>2. resumed \in LiveFrame /\ resumed.pc = q
    BY <1>1, <1>2, Resumed, LiveIsFrame
  <2> HIDE DEF t, resumed
  <2>3. /\ t # <<>> /\ t[1] = callee /\ Caller(t, 1) = resumed.pc
        /\ Caller(t, 2) = Caller(stack, 1)
    BY <1>2, <2>1, <2>2, PushedCaller DEF t
  <2>4. QED
    BY <1>4, <2>2, <2>3
<1>7. /\ "alloc_try" \in AllocPc /\ "alloc_meta" \in AllocPc
      /\ "alloc_own" \in AllocPc /\ "alloc_grow" \in AllocPc
  BY DEF AllocPc
<1>8. slabs'["mmap"] = slabs["mmap"]
  BY DEF AllocRefill, AllocMiss, AllocMeta, AllocOwn, AllocGrow
<1>9. ASSUME NEW n \in Address, NEW x \in BOOLEAN, NEW q \in {"alloc_meta", "alloc_grow"},
             Call(Reserve(0, n, x), q)
      PROVE  Spare'
  <2>1. Reserve(0, n, x) \in LiveFrame
    BY <1>5, ReserveIsLive
  <2>2. t # <<>> /\ t[1] = Reserve(0, n, x) /\ Caller(t, 1) = q
    BY <1>6, <1>7, <1>9, <2>1
  <2> HIDE DEF t
  <2>3. t[1].pc = "res_check" /\ ~TakesLast(t, 1) /\ Caller(t, 1) # "client"
    BY <2>2 DEF Reserve, TakesLast
  <2>4. /\ ReserveSpare(t, One("mmap"), Two("mmap"))
        /\ SplitSpare(t, One("mmap"), Two("mmap"))
        /\ AllocSpare(t, One("mmap"))
    BY <2>3 DEF ReserveSpare, SplitSpare, AllocSpare, AllocFrom, ExtPc
  <2>5. QED
    BY <1>8, <2>2, <2>4, SpareHolds DEF t
<1>10. ASSUME NEW callee \in LiveFrame, NEW q \in {"alloc_own", "alloc_try"},
              Call(callee, q), callee.pc = "ext_alloc", q = "alloc_try" => One("mmap")
       PROVE  Spare'
  <2>1. t # <<>> /\ t[1].pc = "ext_alloc" /\ Caller(t, 1) = q
    BY <1>6, <1>7, <1>10
  <2> HIDE DEF t
  <2>2. /\ ReserveSpare(t, One("mmap"), Two("mmap"))
        /\ SplitSpare(t, One("mmap"), Two("mmap"))
        /\ AllocSpare(t, One("mmap"))
    BY <1>10, <2>1 DEF ReserveSpare, SplitSpare, AllocSpare, AllocFrom, ExtPc
  <2>3. QED
    BY <1>8, <2>1, <2>2, SpareHolds DEF t
<1>11. CASE AllocRefill
  BY <1>5, <1>9, <1>11 DEF AllocRefill
<1>12. CASE AllocMiss
  BY <1>5, <1>9, <1>12 DEF AllocMiss, root
<1>13. CASE AllocOwn
  BY <1>5, <1>9, <1>13 DEF AllocOwn, root
<1>14. CASE AllocMeta
  <2> DEFINE callee == Extend("meta", ret, MetaSize, Nmemb, TRUE)
  <2>1. callee \in LiveFrame /\ callee.pc = "ext_alloc" /\ Call(callee, "alloc_own")
    BY <1>5, <1>14, ExtendIsLive DEF AllocMeta, Extend
  <2> HIDE DEF callee
  <2>2. QED
    BY <1>10, <2>1
<1>15. CASE AllocGrow
  <2> DEFINE callee == Extend(Top.cache, ret, root.size, root.nmemb, FALSE)
  <2>1. callee \in LiveFrame /\ callee.pc = "ext_alloc"
    BY <1>2, <1>5, ExtendIsLive DEF Extend
  <2>2. Call(callee, "alloc_try") /\ Top.pc = "alloc_grow"
    BY <1>15 DEF AllocGrow, At, root
  <2>3. One("mmap")
    BY <1>2, <1>4, <2>2, SpareFacts DEF AllocSpare
  <2> HIDE DEF callee
  <2>4. QED
    BY <1>10, <2>1, <2>2, <2>3
<1>16. QED
  BY <1>11, <1>12, <1>13, <1>14, <1>15

(* Who may have called the procedure in progress.                          *)
LEMMA Callers ==
    ASSUME NEW g, NEW f, Calls(g, f)
    PROVE  /\ AllocFrom(f, "mmap") => g.pc = "split_link"
           /\ AllocFrom(f, "meta") => g.pc = "ext_link"
           /\ f.pc \in ExtPc =>
                 \/ g.pc = "alloc_own"
                 \/ g.pc = "alloc_try" /\ g.cache \in UserCaches /\ f.cache = g.cache
                 \/ g.pc = "res_scan" /\ g.ext = FALSE /\ f.cache = "mmap"
                       /\ f.nmemb = ExtNmemb
           /\ f.pc \in SplitPc => g.pc \in {"alloc_meta", "alloc_grow", "res_extend", "res_again"}
           /\ f.pc \in ReservePc => \/ g.pc \in {"alloc_meta", "res_extend"} /\ f.ext = TRUE
                                    \/ g.pc = "alloc_grow" /\ f.ext = FALSE
           /\ f.pc \notin {"alloc_meta", "alloc_own", "alloc_grow"}
<1>1. \A n, x : Reserving(f, n, x) => /\ f.pc \in ReservePc \/ f.pc \in SplitPc
                                      /\ f.pc \in ReservePc => f.ext = x
  BY DEF Reserving, ReservePc, SplitPc
<1>2. \A c, n : Extending(f, c, n) => f.pc \in ExtPc /\ f.cache = c
  BY DEF Extending
<1>3. \A c : AllocFrom(f, c) => f.pc = "alloc_try"
  BY DEF AllocFrom
<1>4. /\ f.pc \in ReservePc => f.pc \notin SplitPc /\ f.pc \notin ExtPc /\ f.pc \notin AllocPc
      /\ f.pc \in SplitPc => f.pc \notin ExtPc /\ f.pc \notin AllocPc
      /\ f.pc \in ExtPc => f.pc \notin AllocPc
      /\ f.pc = "alloc_try" => f.pc \in AllocPc /\ f.pc \notin {"alloc_meta", "alloc_own", "alloc_grow"}
      /\ f.pc \in {"alloc_meta", "alloc_own", "alloc_grow"} => f.pc \in AllocPc
  BY DEF ReservePc, SplitPc, ExtPc, AllocPc
<1>5. ~(AllocFrom(f, "mmap") /\ AllocFrom(f, "meta"))
  BY DEF AllocFrom
<1>6. CASE g.pc \in AllocPc /\ g.cache \in UserCaches
           /\ \/ g.pc = "alloc_meta" /\ Reserving(f, MetaSize, TRUE)
              \/ g.pc = "alloc_own" /\ Extending(f, "meta", MetaSize)
              \/ g.pc = "alloc_grow" /\ Reserving(f, RootSize(g.cache), FALSE)
              \/ g.pc = "alloc_try" /\ Extending(f, g.cache, RootSize(g.cache))
  BY <1>1, <1>2, <1>3, <1>4, <1>6
<1>7. CASE g.pc \in ReservePc /\ g.ext = FALSE
           /\ \/ g.pc = "res_extend" /\ Reserving(f, ExtSize, TRUE)
              \/ /\ g.pc = "res_scan"
                 /\ Extending(f, "mmap", ExtSize) /\ f.nmemb = ExtNmemb
              \/ g.pc = "res_again" /\ g.base # 0 /\ f.pc \in SplitPc
  BY <1>1, <1>2, <1>3, <1>4, <1>7
<1>8. CASE g.pc = "split_link" /\ AllocFrom(f, "mmap")
  BY <1>3, <1>4, <1>5, <1>8
<1>9. CASE g.pc = "ext_link" /\ AllocFrom(f, "meta")
  BY <1>3, <1>4, <1>5, <1>9
<1>10. QED
  BY <1>6, <1>7, <1>8, <1>9 DEF Calls

(* The frame below the one in progress.                                    *)
LEMMA NextFrame ==
    ASSUME TypeInv, CallShape, ~starved, stack # <<>>
    PROVE  /\ Len(stack) > 1 => Calls(stack[2], Top) /\ Caller(stack, 1) = stack[2].pc
           /\ Len(stack) = 1 => Outermost(Top) /\ Caller(stack, 1) = "client"
           /\ Len(stack) = 1 \/ Len(stack) > 1
           /\ Top.pc \in ExtPc \/ AllocFrom(Top, "mmap") => Len(stack) > 1
           /\ Top = stack[1]
<1>1. /\ Len(stack) > 1 => Calls(stack[2], Top) /\ Caller(stack, 1) = stack[2].pc
      /\ Len(stack) = 1 => Outermost(Top) /\ Caller(stack, 1) = "client"
      /\ Len(stack) \in Nat /\ Len(stack) >= 1 /\ Top = stack[1]
  BY ShapeFacts, CallerFacts
<1>2. \A n \in Nat : n >= 1 => n = 1 \/ n > 1
  OBVIOUS
<1>3. Outermost(Top) => ~(Top.pc \in ExtPc) /\ ~AllocFrom(Top, "mmap")
  BY ClientsAssumption DEF Outermost, ReservePc, SplitPc, AllocPc, ExtPc, AllocFrom
<1>4. QED
  BY <1>1, <1>2, <1>3

LEMMA SpareReturned ==
    ASSUME TypeInv, stack # <<>>, stack' = Tail(stack),
           Len(stack) = 1 \/ Len(stack) > 1,
           Len(stack) = 1 => One("mmap")',
           Len(stack) > 1 => /\ ReserveSpare(stack', One("mmap")', Two("mmap")')
                             /\ SplitSpare(stack', One("mmap")', Two("mmap")')
                             /\ AllocSpare(stack', One("mmap")')
    PROVE  Spare'
<1>1. /\ Len(stack) = 1 => stack' = <<>>
      /\ Len(stack) > 1 => stack' # <<>>
  BY PoppedCaller
<1>2. Spared(stack', One("mmap")', Two("mmap")')
  BY <1>1 DEF Spared
<1>3. QED
  BY <1>2, SpareNext

(* A descriptor less, a slab of descriptors more.                          *)
LEMMA OneTaken ==
    ASSUME TypeInv, AllocHit
    PROVE  /\ Top.cache # "mmap" => slabs'["mmap"] = slabs["mmap"]
           /\ Top.cache = "mmap" /\ Two("mmap") => One("mmap")'
<1>1. CASE Top.cache # "mmap"
  <2>1. slabs \in [Caches -> Seq(Slab)] /\ "mmap" \in Caches
    BY DEF TypeInv, TypeOK, Caches
  <2>2. QED
    BY <1>1, <2>1 DEF AllocHit
<1>2. CASE Top.cache = "mmap" /\ Two("mmap")
  <2> DEFINE c == "mmap"
  <2>1. c \in Caches /\ DOMAIN slabs[c] = 1 .. Len(slabs[c])
        /\ \A i \in 1 .. Len(slabs[c]) : slabs[c][i].free \in Nat
    BY SlabTypes DEF Caches, Slab
  <2>2. slabs'[c] \in Seq(Slab)
    BY <2>1, AllocHitKeepsTypes DEF TypeInv, TypeOK
  <2>3. PICK i \in 1 .. Len(slabs[c]) :
           \A j \in 1 .. Len(slabs[c]) : slabs'[c][j].free =
              IF j = i THEN slabs[c][j].free - 1 ELSE slabs[c][j].free
    BY <1>2, <2>1, AllocHitEffect
  <2>4. Len(slabs'[c]) = Len(slabs[c])
    BY <2>1, AllocHitEffect DEF SameSlabs
  <2>5. DOMAIN slabs'[c] = 1 .. Len(slabs[c])
    BY <2>2, <2>4, LenProperties
  <2>6. \E j \in 1 .. Len(slabs[c]) : slabs'[c][j].free > 0
    <3>1. CASE \E j \in 1 .. Len(slabs[c]) : slabs[c][j].free > 1
      BY <2>1, <2>3, <3>1
    <3>2. CASE \E j, k \in HasFree(c) : j # k
      <4>1. PICK j \in HasFree(c), k \in HasFree(c) : j # k
        BY <3>2
      <4>2. /\ j \in 1 .. Len(slabs[c]) /\ slabs[c][j].free > 0
            /\ k \in 1 .. Len(slabs[c]) /\ slabs[c][k].free > 0
        BY <2>1, <4>1 DEF HasFree
      <4>3. CASE j # i
        BY <2>3, <4>2, <4>3
      <4>4. CASE k # i
        BY <2>3, <4>2, <4>4
      <4>5. QED
        BY <4>1, <4>3, <4>4
    <3>3. QED
      BY <1>2, <2>1, <3>1, <3>2 DEF Two
  <2>7. PICK j \in 1 .. Len(slabs[c]) : slabs'[c][j].free > 0
    BY <2>6
  <2>8. j \in HasFree(c)'
    BY <2>5, <2>7 DEF HasFree
  <2>9. QED
    BY <1>2, <2>8 DEF One
<1>3. QED
  BY <1>1, <1>2

LEMMA AllocHitKeepsSpare ==
    ASSUME TypeInv, CallShape, Spare, ~starved, AllocHit
    PROVE  Spare'
<1> DEFINE t == stack'
<1>1. /\ stack # <<>> /\ stack' = Tail(stack) /\ Top.pc = "alloc_try"
      /\ Top.cache \in Caches
  BY AllocHitEffect
<1>2. /\ Len(stack) > 1 => Calls(stack[2], Top)
      /\ Len(stack) = 1 => Caller(stack, 1) = "client"
      /\ Len(stack) = 1 \/ Len(stack) > 1
      /\ AllocFrom(Top, "mmap") => Len(stack) > 1
      /\ Top = stack[1]
  BY <1>1, NextFrame
<1>3. /\ Len(stack) > 1 => t # <<>> /\ t[1] = stack[2]
      /\ Caller(t, 1) = Caller(stack, 2)
  BY <1>1, PoppedCaller
<1>4. SplitSpare(stack, One("mmap"), Two("mmap")) /\ AllocSpare(stack, One("mmap"))
  BY <1>1, SpareFacts
<1> HIDE DEF t
<1>5. CASE Top.cache = "mmap"
  <2>1. AllocFrom(Top, "mmap") /\ Len(stack) > 1 /\ t[1].pc = "split_link"
    BY <1>1, <1>2, <1>3, <1>5, Callers DEF AllocFrom
  <2>2. LeavesOne(t, 1) => One("mmap")'
    <3>1. LeavesOne(t, 1) => LeavesOne(stack, 2)
      BY <1>3 DEF LeavesOne
    <3>2. LeavesOne(stack, 2) => Two("mmap")
      BY <1>2, <1>4, <2>1 DEF SplitSpare
    <3>3. QED
      BY <1>5, <3>1, <3>2, OneTaken
  <2>3. /\ ReserveSpare(t, One("mmap")', Two("mmap")')
        /\ SplitSpare(t, One("mmap")', Two("mmap")')
        /\ AllocSpare(t, One("mmap")')
    <3>1. One("mmap")' \in BOOLEAN /\ Two("mmap")' \in BOOLEAN
      BY DEF One, Two
    <3>2. ReserveSpare(t, One("mmap")', Two("mmap")')
      BY <2>1 DEF ReserveSpare
    <3>3. AllocSpare(t, One("mmap")')
      BY <2>1 DEF AllocSpare, AllocFrom, ExtPc
    <3>4. SplitSpare(t, One("mmap")', Two("mmap")')
      BY <2>1, <2>2 DEF SplitSpare, AllocFrom
    <3>5. QED
      BY <3>2, <3>3, <3>4
  <2>4. Len(stack) # 1
    BY <1>1, <2>1, CallerFacts
  <2>5. QED
    BY <1>1, <1>2, <2>1, <2>3, <2>4, SpareReturned DEF t
<1>6. CASE Top.cache # "mmap"
  <2>1. One("mmap")' = One("mmap") /\ Two("mmap")' = Two("mmap")
    BY <1>6, OneTaken, SameFree
  <2>2. Len(stack) = 1 => One("mmap")
    BY <1>1, <1>2, <1>4 DEF AllocSpare
  <2>3. ASSUME Len(stack) > 1
        PROVE  /\ ReserveSpare(t, One("mmap"), Two("mmap"))
               /\ SplitSpare(t, One("mmap"), Two("mmap"))
               /\ AllocSpare(t, One("mmap"))
    <3>1. AllocFrom(Top, "meta")
      <4>1. CASE Top.cache \notin {"meta", "mmap"}
        <5>1. Len(stack) = 1
          BY <1>1, <4>1, AllocIsOutermost DEF AllocPc
        <5>2. QED
          BY <2>3, <5>1
      <4>2. QED
        BY <1>1, <1>6, <4>1 DEF AllocFrom
    <3>2. t[1].pc = "ext_link"
      BY <1>2, <1>3, <2>3, <3>1, Callers
    <3>3. Caller(t, 1) = "alloc_try" => One("mmap")
      BY <1>2, <1>3, <1>4, <3>1 DEF AllocSpare
    <3>4. QED
      BY <3>2, <3>3 DEF ReserveSpare, SplitSpare, AllocSpare, AllocFrom, ExtPc
  <2>4. QED
    BY <1>1, <1>2, <2>1, <2>2, <2>3, SpareReturned DEF t
<1>7. QED
  BY <1>5, <1>6

LEMMA ExtendAllocKeepsSpare ==
    ASSUME TypeInv, CallShape, Spare, ~starved, ExtendAlloc
    PROVE  Spare'
<1> DEFINE t == stack'
           resumed == [Top EXCEPT !.pc = "ext_link"]
           callee == Alloc("meta", Top.ext)
<1>1. /\ stack # <<>> /\ Top \in LiveFrame /\ Top.pc = "ext_alloc" /\ Top.pc \in ExtPc
      /\ Top = stack[1]
  <2>1. stack # <<>> /\ Top.pc = "ext_alloc"
    BY DEF ExtendAlloc, At
  <2>2. QED
    BY <2>1, TopIsLive, CallerFacts DEF ExtPc
<1>2. Top \in ExtendFrame /\ resumed \in LiveFrame /\ resumed.pc = "ext_link"
  <2>1. Top \in ExtendFrame /\ resumed \in LiveFrame
    BY <1>1, ExtendByPc DEF ExtPc
  <2>2. Top \in Frame /\ resumed \in Frame
    BY <1>1, <2>1, LiveIsFrame
  <2>3. QED
    BY <2>1, <2>2, Resumed
<1>3. callee \in LiveFrame /\ callee.pc = "alloc_try" /\ callee.cache = "meta"
  <2>1. "meta" \in Caches /\ slabs["meta"] # <<>> /\ Top.ext \in BOOLEAN
    BY <1>2 DEF Caches, TypeInv, LiveReferences, ExtendFrame
  <2>2. QED
    BY <2>1, AllocIsLive DEF Alloc
<1>4. t = <<callee, resumed>> \o Tail(stack) /\ slabs' = slabs
  BY DEF ExtendAlloc, Call
<1> HIDE DEF resumed, callee
<1>5. /\ t # <<>> /\ t[1] = callee /\ Caller(t, 1) = "ext_link"
      /\ Caller(t, 2) = Caller(stack, 1)
  BY <1>1, <1>2, <1>3, <1>4, PushedCaller
<1>6. AllocSpare(stack, One("mmap"))
  BY <1>1, SpareFacts
<1> HIDE DEF t
<1>7. Caller(t, 2) = "alloc_try" => One("mmap")
  BY <1>1, <1>5, <1>6 DEF AllocSpare
<1>8. /\ ReserveSpare(t, One("mmap"), Two("mmap"))
      /\ SplitSpare(t, One("mmap"), Two("mmap"))
      /\ AllocSpare(t, One("mmap"))
  BY <1>3, <1>5, <1>7 DEF ReserveSpare, SplitSpare, AllocSpare, AllocFrom, ExtPc
<1>9. QED
  BY <1>4, <1>5, <1>8, SpareHolds DEF t

LEMMA ExtendLinkKeepsSpare ==
    ASSUME EnoughDescriptors, TypeInv, CallShape, Spare, ~starved, ExtendLink
    PROVE  Spare'
<1> DEFINE t == stack'
           g == stack[2]
<1>1. /\ stack # <<>> /\ stack' = Tail(stack) /\ Top \in ExtendFrame /\ Top.pc = "ext_link"
      /\ Top.cache \in Caches
      /\ Len(slabs'[Top.cache]) = Len(slabs[Top.cache]) + 1
      /\ slabs'[Top.cache][Len(slabs[Top.cache]) + 1] = NewSlab(Top.p, Top.size, Top.nmemb)
      /\ \A d \in Caches : d # Top.cache => slabs'[d] = slabs[d]
  BY ExtendLinkEffect
<1>2. /\ Len(stack) > 1 /\ Calls(g, Top) /\ Caller(stack, 1) = g.pc /\ Top = stack[1]
      /\ Top.pc \in ExtPc
  BY <1>1, NextFrame DEF ExtPc
<1>3. t # <<>> /\ t[1] = g
  BY <1>1, <1>2, PoppedCaller
<1>4. AllocSpare(stack, One("mmap"))
  BY <1>1, SpareFacts
<1>5. Len(stack) # 1
  BY <1>2
<1>6. One("mmap")' \in BOOLEAN /\ Two("mmap")' \in BOOLEAN
  BY DEF One, Two
<1> HIDE DEF t, g
<1>7. CASE g.pc = "alloc_own"
  <2>1. /\ ReserveSpare(t, One("mmap")', Two("mmap")')
        /\ SplitSpare(t, One("mmap")', Two("mmap")')
        /\ AllocSpare(t, One("mmap")')
    BY <1>3, <1>6, <1>7 DEF ReserveSpare, SplitSpare, AllocSpare, AllocFrom, ExtPc
  <2>2. QED
    BY <1>1, <1>2, <1>5, <2>1, SpareReturned DEF t
<1>8. CASE g.pc = "alloc_try" /\ g.cache \in UserCaches /\ Top.cache = g.cache
  <2>1. "mmap" \in Caches /\ Top.cache # "mmap" /\ g.cache # "mmap" /\ g.cache # "meta"
    BY <1>8, ClientsAssumption DEF Caches
  <2>2. One("mmap")' = One("mmap")
    BY <1>1, <2>1, SameFree
  <2>3. One("mmap")
    BY <1>2, <1>4, <1>8 DEF AllocSpare
  <2>4. /\ ReserveSpare(t, One("mmap")', Two("mmap")')
        /\ SplitSpare(t, One("mmap")', Two("mmap")')
        /\ AllocSpare(t, One("mmap")')
    BY <1>3, <1>6, <1>8, <2>1, <2>2, <2>3
       DEF ReserveSpare, SplitSpare, AllocSpare, AllocFrom, ExtPc
  <2>5. QED
    BY <1>1, <1>2, <1>5, <2>4, SpareReturned DEF t
<1>9. CASE g.pc = "res_scan" /\ g.ext = FALSE /\ Top.cache = "mmap" /\ Top.nmemb = ExtNmemb
  <2>1. Two("mmap")'
    <3> DEFINE n == Len(slabs["mmap"]) + 1
    <3>1. slabs'["mmap"] \in Seq(Slab) /\ Len(slabs["mmap"]) \in Nat
      <4>1. TypeInv' /\ "mmap" \in Caches
        BY ExtendLinkKeepsTypes DEF Caches
      <4>2. QED
        BY <4>1, SlabTypes DEF TypeInv, TypeOK
    <3>2. n \in DOMAIN slabs'["mmap"]
      BY <1>1, <1>9, <3>1, LenProperties
    <3>3. slabs'["mmap"][n].free > 1
      BY <1>1, <1>9, SizesFit DEF NewSlab, EnoughDescriptors
    <3>4. QED
      BY <3>2, <3>3 DEF Two
  <2>2. /\ ReserveSpare(t, One("mmap")', Two("mmap")')
        /\ SplitSpare(t, One("mmap")', Two("mmap")')
        /\ AllocSpare(t, One("mmap")')
    BY <1>3, <1>6, <1>9, <2>1 DEF ReserveSpare, SplitSpare, AllocSpare, AllocFrom, ExtPc
  <2>3. QED
    BY <1>1, <1>2, <1>5, <2>2, SpareReturned DEF t
<1>10. QED
  BY <1>2, <1>7, <1>8, <1>9, Callers

LEMMA CacheStepKeepsSpare ==
    ASSUME EnoughDescriptors, TypeInv, CallShape, Spare, ~starved, ~starved', CacheStep
    PROVE  Spare'
BY CacheCallsKeepSpare, AllocHitKeepsSpare, ExtendAllocKeepsSpare, ExtendLinkKeepsSpare
   DEF CacheStep

(* The reservations keep the margins: two descriptors before the scan that *)
(* no extension precedes, one left when it returns.                        *)
LEMMA SplitStepsKeepSpare ==
    ASSUME TypeInv, CallShape, Spare, ~starved, SplitAlloc \/ SplitLink
    PROVE  Spare'
<1> DEFINE t == stack'
<1>1. stack # <<>> /\ Top \in LiveFrame /\ Top = stack[1] /\ Top.pc \in SplitPc
  <2>1. stack # <<>> /\ Top.pc \in SplitPc
    BY DEF SplitAlloc, SplitLink, At, SplitPc
  <2>2. QED
    BY <2>1, TopIsLive, CallerFacts
<1>2. SplitSpare(stack, One("mmap"), Two("mmap")) /\ slabs' = slabs
  BY <1>1, SpareFacts DEF SplitAlloc, SplitLink
<1>3. CASE SplitAlloc
  <2> DEFINE resumed == [Top EXCEPT !.pc = "split_link"]
             callee == Alloc("mmap", FALSE)
  <2>1. Top.pc = "split_alloc" /\ t = <<callee, resumed>> \o Tail(stack)
    BY <1>3 DEF SplitAlloc, At, Call
  <2>2. resumed \in LiveFrame /\ resumed.pc = "split_link"
    <3>1. resumed \in LiveFrame
      BY <1>1, SplitByPc DEF SplitPc
    <3>2. QED
      BY <1>1, <3>1, LiveIsFrame, Resumed
  <2>3. callee \in LiveFrame /\ callee.pc = "alloc_try" /\ callee.cache = "mmap"
    <3>1. "mmap" \in Caches /\ slabs["mmap"] # <<>>
      BY DEF Caches, TypeInv, LiveReferences
    <3>2. QED
      BY <3>1, AllocIsLive DEF Alloc
  <2> HIDE DEF resumed, callee
  <2>4. /\ t # <<>> /\ t[1] = callee /\ Caller(t, 1) = "split_link"
        /\ Caller(t, 2) = Caller(stack, 1) /\ Caller(t, 3) = Caller(stack, 2)
    BY <1>1, <2>1, <2>2, <2>3, PushedCaller
  <2> HIDE DEF t
  <2>5. /\ LeavesOne(t, 2) <=> LeavesOne(stack, 1)
        /\ TakesLast(t, 2) <=> TakesLast(stack, 1)
    BY <2>4 DEF LeavesOne, TakesLast
  <2>6. ReserveSpare(t, One("mmap"), Two("mmap")) /\ AllocSpare(t, One("mmap"))
    BY <2>3, <2>4 DEF ReserveSpare, AllocSpare, AllocFrom, ExtPc
  <2>7. SplitSpare(t, One("mmap"), Two("mmap"))
    BY <1>1, <1>2, <2>1, <2>3, <2>4, <2>5 DEF SplitSpare
  <2>8. QED
    BY <1>2, <2>4, <2>6, <2>7, SpareHolds DEF t
<1>4. CASE SplitLink
  <2>1. Top.pc = "split_link" /\ stack' = Tail(stack)
    BY <1>4 DEF SplitLink, At, Return
  <2>2. LeavesOne(stack, 1) => One("mmap")
    BY <1>1, <1>2, <2>1 DEF SplitSpare
  <2>3. One("mmap")' = One("mmap") /\ Two("mmap")' = Two("mmap")
    BY <1>2, SameFree
  <2>4. /\ Len(stack) > 1 => Calls(stack[2], Top) /\ Caller(stack, 1) = stack[2].pc
        /\ Len(stack) = 1 => Caller(stack, 1) = "client"
        /\ Len(stack) = 1 \/ Len(stack) > 1
    BY <1>1, NextFrame
  <2>5. Len(stack) = 1 => One("mmap")
    BY <2>2, <2>4 DEF LeavesOne
  <2>6. ASSUME Len(stack) > 1
        PROVE  /\ ReserveSpare(t, One("mmap"), Two("mmap"))
               /\ SplitSpare(t, One("mmap"), Two("mmap"))
               /\ AllocSpare(t, One("mmap"))
    <3>1. t # <<>> /\ t[1] = stack[2]
      BY <1>1, <2>1, <2>6, PoppedCaller
    <3>2. /\ t[1].pc \in {"alloc_meta", "alloc_grow", "res_extend", "res_again"}
          /\ t[1].pc \in {"alloc_grow", "res_again"} => One("mmap")
      <4>1. stack[2].pc \in {"alloc_meta", "alloc_grow", "res_extend", "res_again"}
        BY <1>1, <2>4, <2>6, Callers
      <4>2. QED
        BY <2>2, <2>4, <2>6, <3>1, <4>1 DEF LeavesOne
    <3> HIDE DEF t
    <3>3. QED
      BY <3>2 DEF ReserveSpare, SplitSpare, AllocSpare, AllocFrom, ExtPc
  <2>7. QED
    BY <1>1, <2>1, <2>3, <2>4, <2>5, <2>6, SpareReturned
<1>5. QED
  BY <1>3, <1>4

LEMMA ReserveCallsKeepSpare ==
    ASSUME TypeInv, CallShape, Spare, ~starved,
           ReserveExtendFirst \/ ReserveExtend \/ ScanPrefix
    PROVE  Spare'
<1> DEFINE t == stack'
<1>1. PICK pc \in ReservePc : At(pc)
  BY DEF ReservePc, ReserveExtendFirst, ReserveExtend, ScanPrefix
<1>2. /\ stack # <<>> /\ Top \in ReserveFrame /\ Top \in LiveFrame /\ Top.pc = pc
      /\ \A q \in ReservePc : [Top EXCEPT !.pc = q] \in LiveFrame
      /\ Top = stack[1] /\ Top.ext \in BOOLEAN /\ Top.base \in Address
  BY <1>1, ReserveTop, CallerFacts DEF At
<1>3. ReserveSpare(stack, One("mmap"), Two("mmap")) /\ (Two("mmap") => One("mmap"))
  BY <1>2, SpareFacts
<1>4. slabs'["mmap"] = slabs["mmap"]
  BY DEF ReserveExtendFirst, ReserveExtend, ScanPrefix
<1>5. ASSUME NEW callee \in LiveFrame, NEW q \in ReservePc, Call(callee, q)
      PROVE  /\ t # <<>> /\ t[1] = callee /\ Caller(t, 1) = q
             /\ Caller(t, 2) = Caller(stack, 1)
  <2> DEFINE resumed == [Top EXCEPT !.pc = q]
  <2>1. t = <<callee, resumed>> \o Tail(stack)
    BY <1>5 DEF Call
  <2>2. resumed \in LiveFrame /\ resumed.pc = q
    BY <1>2, Resumed, LiveIsFrame
  <2> HIDE DEF t, resumed
  <2>3. /\ t # <<>> /\ t[1] = callee /\ Caller(t, 1) = resumed.pc
        /\ Caller(t, 2) = Caller(stack, 1)
    BY <1>2, <2>1, <2>2, PushedCaller DEF t
  <2>4. QED
    BY <2>2, <2>3
<1>6. /\ "res_extend" \in ReservePc /\ "res_scan" \in ReservePc /\ "res_again" \in ReservePc
  BY DEF ReservePc
<1>7. CASE ReserveExtendFirst
  <2> DEFINE callee == Reserve(0, ExtSize, TRUE)
  <2>1. Top.pc = "res_check" /\ Top.ext = FALSE /\ Call(callee, "res_extend")
    BY <1>2, <1>7 DEF ReserveExtendFirst, At
  <2>2. callee \in LiveFrame /\ callee.pc = "res_check" /\ callee.ext = TRUE
    <3>1. callee \in LiveFrame
      BY SizesFit, WordIsPositive, ReserveIsLive DEF NULL
    <3>2. QED
      BY <3>1 DEF Reserve
  <2> HIDE DEF callee
  <2>3. /\ t # <<>> /\ t[1] = callee /\ Caller(t, 1) = "res_extend"
        /\ Caller(t, 2) = Caller(stack, 1)
    BY <1>5, <1>6, <2>1, <2>2
  <2> HIDE DEF t
  <2>4. TakesLast(t, 1) => One("mmap")
    BY <1>2, <1>3, <2>1, <2>3 DEF TakesLast, ReserveSpare
  <2>5. ReserveSpare(t, One("mmap"), Two("mmap"))
    BY <2>2, <2>3, <2>4 DEF ReserveSpare
  <2>6. SplitSpare(t, One("mmap"), Two("mmap")) /\ AllocSpare(t, One("mmap"))
    BY <2>2, <2>3 DEF SplitSpare, AllocSpare, AllocFrom, ExtPc
  <2>7. QED
    BY <1>4, <2>3, <2>5, <2>6, SpareHolds DEF t
<1>8. CASE ReserveExtend
  <2> DEFINE callee == Extend("mmap", ret, ExtSize, ExtNmemb, FALSE)
  <2>1. Call(callee, "res_scan")
    BY <1>8 DEF ReserveExtend
  <2>2. callee \in LiveFrame /\ callee.pc = "ext_alloc"
    <3>1. "mmap" \in Caches /\ slabs["mmap"] # <<>> /\ ret \in Address
      BY DEF Caches, TypeInv, TypeOK, LiveReferences
    <3>2. callee \in LiveFrame
      BY <3>1, SizesFit, ExtendIsLive
    <3>3. QED
      BY <3>2 DEF Extend
  <2> HIDE DEF callee
  <2>3. t # <<>> /\ t[1] = callee /\ Caller(t, 1) = "res_scan"
    BY <1>5, <1>6, <2>1, <2>2
  <2> HIDE DEF t
  <2>4. /\ ReserveSpare(t, One("mmap"), Two("mmap"))
        /\ SplitSpare(t, One("mmap"), Two("mmap"))
        /\ AllocSpare(t, One("mmap"))
    BY <2>2, <2>3 DEF ReserveSpare, SplitSpare, AllocSpare, AllocFrom, ExtPc
  <2>5. QED
    BY <1>4, <2>3, <2>4, SpareHolds DEF t
<1>9. CASE ScanPrefix
  <2> DEFINE callee == Split(Hit, Top.base - blocks[Hit].base)
  <2>1. /\ Top.pc = "res_scan" /\ Hits # {} /\ ~AnyFit(blocks[Hit])
        /\ Top.base # blocks[Hit].base /\ Call(callee, "res_again")
    BY <1>9 DEF ScanPrefix, At
  <2>2. Top.base # 0
    <3>1. Covers(blocks[Hit]) /\ blocks[Hit].base \in Nat
      BY <2>1, HitExists DEF Block, Address
    <3>2. QED
      BY <1>2, <2>1, <3>1, WordIsPositive DEF Covers, Address
  <2>3. Top.ext = FALSE
    BY <1>1, <1>2, <2>2, ReserveShape
  <2>4. Two("mmap") /\ One("mmap")
    BY <1>2, <1>3, <2>1, <2>3 DEF ReserveSpare
  <2>5. callee \in LiveFrame /\ callee.pc = "split_alloc"
    <3>1. callee \in LiveFrame
      BY <1>9, PrefixIsLive
    <3>2. QED
      BY <3>1 DEF Split
  <2> HIDE DEF callee
  <2>6. t # <<>> /\ t[1] = callee
    BY <1>5, <1>6, <2>1, <2>5
  <2> HIDE DEF t
  <2>7. /\ ReserveSpare(t, One("mmap"), Two("mmap"))
        /\ SplitSpare(t, One("mmap"), Two("mmap"))
        /\ AllocSpare(t, One("mmap"))
    BY <2>4, <2>5, <2>6 DEF ReserveSpare, SplitSpare, AllocSpare, AllocFrom, ExtPc
  <2>8. QED
    BY <1>4, <2>6, <2>7, SpareHolds DEF t
<1>10. QED
  BY <1>7, <1>8, <1>9

LEMMA ReserveJumpsKeepSpare ==
    ASSUME TypeInv, CallShape, Spare, ~starved,
           ReserveEnough \/ ScanSplits \/ ReserveAgain
    PROVE  Spare'
<1> DEFINE t == stack'
<1>1. PICK pc \in ReservePc : At(pc)
  BY DEF ReservePc, ReserveEnough, ScanSplits, ReserveAgain
<1>2. /\ stack # <<>> /\ Top \in ReserveFrame /\ Top \in LiveFrame /\ Top.pc = pc
      /\ \A q \in ReservePc : [Top EXCEPT !.pc = q] \in LiveFrame
      /\ Top = stack[1] /\ Top.ext \in BOOLEAN
      /\ Top.base \in Address /\ Top.size \in Address
  BY <1>1, ReserveTop, CallerFacts DEF At
<1>3. ReserveSpare(stack, One("mmap"), Two("mmap")) /\ (Two("mmap") => One("mmap"))
  BY <1>2, SpareFacts
<1>4. slabs'["mmap"] = slabs["mmap"]
  BY DEF ReserveEnough, ScanSplits, ReserveAgain
<1>5. ASSUME NEW frame \in LiveFrame, Goto(frame)
      PROVE  /\ t # <<>> /\ t[1] = frame /\ Caller(t, 1) = Caller(stack, 1)
             /\ LeavesOne(t, 1) <=> LeavesOne(stack, 1)
             /\ TakesLast(t, 1) <=> TakesLast(stack, 1)
  <2>1. /\ t # <<>> /\ t[1] = frame /\ Caller(t, 1) = Caller(stack, 1)
        /\ Caller(t, 2) = Caller(stack, 2)
    BY <1>2, <1>5, JumpedCaller
  <2> HIDE DEF t
  <2>2. QED
    BY <2>1 DEF LeavesOne, TakesLast
<1>6. CASE ReserveEnough
  <2> DEFINE frame == [Top EXCEPT !.pc = "res_scan"]
  <2>1. /\ Top.pc = "res_check" /\ Goto(frame)
        /\ CacheRemaining("mmap") > 2 \/ Top.ext = TRUE
    BY <1>2, <1>6 DEF ReserveEnough, At
  <2>2. frame \in LiveFrame /\ frame.pc = "res_scan" /\ frame.ext = Top.ext
    <3>1. frame \in LiveFrame
      BY <1>2 DEF ReservePc
    <3>2. QED
      BY <1>2, <3>1, LiveIsFrame, Resumed DEF ReserveFrame
  <2>3. Top.ext = FALSE => Two("mmap")
    BY <2>1, RemainingCounts DEF Caches
  <2> HIDE DEF frame
  <2>4. /\ t # <<>> /\ t[1] = frame
        /\ TakesLast(t, 1) <=> TakesLast(stack, 1)
    BY <1>5, <2>1, <2>2
  <2> HIDE DEF t
  <2>5. Top.ext = TRUE /\ TakesLast(stack, 1) => One("mmap")
    BY <1>2, <1>3, <2>1 DEF ReserveSpare
  <2>6. /\ ReserveSpare(t, One("mmap"), Two("mmap"))
        /\ SplitSpare(t, One("mmap"), Two("mmap"))
        /\ AllocSpare(t, One("mmap"))
    BY <2>2, <2>3, <2>4, <2>5 DEF ReserveSpare, SplitSpare, AllocSpare, AllocFrom, ExtPc
  <2>7. QED
    BY <1>4, <2>4, <2>6, SpareHolds DEF t
<1>7. CASE ScanSplits
  <2> DEFINE frame == Split(Hit, Top.size)
  <2>1. Top.pc = "res_scan" /\ Hits # {} /\ Goto(frame)
    BY <1>7 DEF ScanSplits, At
  <2>2. frame \in LiveFrame /\ frame.pc = "split_alloc"
    <3>1. Hit \in 1 .. Len(blocks) /\ Len(blocks) \in Nat
      BY <2>1, HitExists DEF TypeInv, TypeOK
    <3>2. frame \in LiveFrame
      BY <1>2, <3>1, SplitIsLive
    <3>3. QED
      BY <3>2 DEF Split
  <2> HIDE DEF frame
  <2>3. /\ t # <<>> /\ t[1] = frame
        /\ LeavesOne(t, 1) <=> LeavesOne(stack, 1)
        /\ TakesLast(t, 1) <=> TakesLast(stack, 1)
    BY <1>5, <2>1, <2>2
  <2> HIDE DEF t
  <2>4. /\ LeavesOne(stack, 1) => Top.ext = FALSE
        /\ TakesLast(stack, 1) => Top.ext = TRUE
    <3>1. Top.pc \in ReservePc
      BY <1>2
    <3>2. /\ Len(stack) > 1 => Calls(stack[2], Top) /\ Caller(stack, 1) = stack[2].pc
          /\ Len(stack) = 1 => Caller(stack, 1) = "client" /\ Top.ext = FALSE
          /\ Len(stack) = 1 \/ Len(stack) > 1
      BY <1>2, <3>1, NextFrame, ReserveShape
    <3>3. Len(stack) > 1 =>
             \/ Caller(stack, 1) \in {"alloc_meta", "res_extend"} /\ Top.ext = TRUE
             \/ Caller(stack, 1) = "alloc_grow" /\ Top.ext = FALSE
      BY <3>1, <3>2, Callers
    <3>4. QED
      BY <3>2, <3>3 DEF LeavesOne, TakesLast
  <2>5. /\ LeavesOne(t, 1) => Two("mmap")
        /\ TakesLast(t, 1) => One("mmap")
    BY <1>2, <1>3, <2>1, <2>3, <2>4 DEF ReserveSpare
  <2>6. /\ ReserveSpare(t, One("mmap"), Two("mmap"))
        /\ SplitSpare(t, One("mmap"), Two("mmap"))
        /\ AllocSpare(t, One("mmap"))
    BY <2>2, <2>3, <2>5 DEF ReserveSpare, SplitSpare, AllocSpare, AllocFrom, ExtPc
  <2>7. QED
    BY <1>4, <2>3, <2>6, SpareHolds DEF t
<1>8. CASE ReserveAgain
  <2> DEFINE frame == Reserve(Top.base, Top.size, FALSE)
  <2>1. Top.pc = "res_again" /\ Goto(frame)
    BY <1>8 DEF ReserveAgain, At
  <2>2. frame \in LiveFrame /\ frame.pc = "res_check" /\ frame.ext = FALSE
    <3>1. frame \in LiveFrame
      BY <1>2, ReserveIsLive
    <3>2. QED
      BY <3>1 DEF Reserve
  <2>3. One("mmap")
    BY <1>2, <1>3, <2>1 DEF ReserveSpare
  <2> HIDE DEF frame
  <2>4. t # <<>> /\ t[1] = frame
    BY <1>5, <2>1, <2>2
  <2> HIDE DEF t
  <2>5. /\ ReserveSpare(t, One("mmap"), Two("mmap"))
        /\ SplitSpare(t, One("mmap"), Two("mmap"))
        /\ AllocSpare(t, One("mmap"))
    BY <2>2, <2>3, <2>4 DEF ReserveSpare, SplitSpare, AllocSpare, AllocFrom, ExtPc
  <2>6. QED
    BY <1>4, <2>4, <2>5, SpareHolds DEF t
<1>9. QED
  BY <1>6, <1>7, <1>8

LEMMA ScanReturnsKeepSpare ==
    ASSUME TypeInv, CallShape, Spare, ~starved, ScanFails \/ ScanExact
    PROVE  Spare'
<1> DEFINE t == stack'
<1>1. stack # <<>> /\ Top.pc = "res_scan" /\ stack' = Tail(stack) /\ slabs' = slabs
  BY DEF ScanFails, ScanExact, At, Return
<1>2. Top.pc \in ReservePc
  BY <1>1 DEF ReservePc
<1>3. /\ Len(stack) > 1 => Calls(stack[2], Top)
      /\ Len(stack) = 1 => Top.ext = FALSE
      /\ Len(stack) = 1 \/ Len(stack) > 1
      /\ Top = stack[1]
  BY <1>1, <1>2, NextFrame, ReserveShape
<1>4. Top.ext = FALSE => One("mmap")
  BY <1>1, <1>3, SpareFacts DEF ReserveSpare
<1>5. One("mmap")' = One("mmap") /\ Two("mmap")' = Two("mmap")
  BY <1>1, SameFree
<1>6. ASSUME Len(stack) > 1
      PROVE  /\ ReserveSpare(t, One("mmap"), Two("mmap"))
             /\ SplitSpare(t, One("mmap"), Two("mmap"))
             /\ AllocSpare(t, One("mmap"))
  <2>1. t # <<>> /\ t[1] = stack[2]
    BY <1>1, <1>6, PoppedCaller
  <2>2. \/ stack[2].pc \in {"alloc_meta", "res_extend"} /\ Top.ext = TRUE
        \/ stack[2].pc = "alloc_grow" /\ Top.ext = FALSE
    BY <1>2, <1>3, <1>6, Callers
  <2> HIDE DEF t
  <2>3. QED
    BY <1>4, <2>1, <2>2 DEF ReserveSpare, SplitSpare, AllocSpare, AllocFrom, ExtPc
<1>7. QED
  BY <1>1, <1>3, <1>4, <1>5, <1>6, SpareReturned

(* A call begins with a descriptor in hand.                                *)
LEMMA OtherStepKeepsSpare ==
    ASSUME TypeInv, CallShape, Spare, ~starved,
           \/ StackOverflow \/ BootCall \/ BootDone \/ ReserveDone \/ NewDone
           \/ AllocDone \/ Client \/ UNCHANGED vars
    PROVE  Spare'
<1>1. slabs'["mmap"] = slabs["mmap"]
  <2>1. slabs \in [Caches -> Seq(Slab)] /\ "mmap" \in Caches /\ "mmap" \notin UserCaches
    BY ClientsAssumption DEF TypeInv, TypeOK, Caches
  <2>2. CASE NewDone
    <3>1. call.cache \in UserCaches
      BY <2>2 DEF NewDone, TypeInv, TypeOK, PendingCall
    <3>2. QED
      BY <2>1, <2>2, <3>1 DEF NewDone
  <2>3. CASE \E c \in UserCaches : \E i \in DOMAIN slabs[c] : ClientFree(c, i)
    BY <2>1, <2>3 DEF ClientFree
  <2>4. CASE slabs' = slabs
    BY <2>4
  <2>5. QED
    BY <2>2, <2>3, <2>4
       DEF StackOverflow, BootCall, BootDone, ReserveDone, AllocDone, Client, vars,
           ClientReserve, ClientRelease, ClientNew, ClientAlloc
<1>2. One("mmap")' = One("mmap") /\ Two("mmap")' = Two("mmap")
  BY <1>1, SameFree
<1>3. CASE stack' = stack
  <2>1. Spared(stack', One("mmap")', Two("mmap")')
    BY <1>2, <1>3 DEF Spare
  <2>2. QED
    BY <2>1, SpareNext
<1>4. ASSUME call = NoCall  PROVE One("mmap")
  BY <1>4, NoCallNoStack, SpareFacts DEF NoCall
<1>5. ASSUME call = NoCall, NEW frame, stack' = <<frame>>,
             frame.pc = "alloc_try" \/ (frame.pc = "res_check" /\ frame.ext = FALSE),
             frame.pc = "alloc_try" => frame.cache # "mmap"
      PROVE  Spare'
  <2> DEFINE t == stack'
  <2>1. t # <<>> /\ t[1] = frame /\ Caller(t, 1) = "client" /\ Caller(t, 2) = "client"
    BY <1>5 DEF Caller
  <2> HIDE DEF t
  <2>2. One("mmap")
    BY <1>4, <1>5
  <2>3. /\ ReserveSpare(t, One("mmap"), Two("mmap"))
        /\ SplitSpare(t, One("mmap"), Two("mmap"))
        /\ AllocSpare(t, One("mmap"))
    BY <1>5, <2>1, <2>2 DEF ReserveSpare, SplitSpare, AllocSpare, AllocFrom, ExtPc
  <2>4. QED
    BY <1>1, <2>1, <2>3, SpareHolds DEF t
<1>6. /\ \A b, n : Reserve(b, n, FALSE).pc = "res_check" /\ Reserve(b, n, FALSE).ext = FALSE
      /\ \A c : Alloc(c, FALSE).pc = "alloc_try" /\ Alloc(c, FALSE).cache = c
  BY DEF Reserve, Alloc
<1>7. \A b, n : Reserve(b, n, FALSE).pc # "alloc_try"
  BY <1>6
<1>8. CASE BootCall
  <2>1. call = NoCall /\ \E b, n : stack' = <<Reserve(b, n, FALSE)>>
    BY <1>8 DEF BootCall, BootPhases
  <2>2. QED
    BY <1>5, <1>6, <1>7, <2>1
<1>9. CASE \E r \in Requests : ClientReserve(r)
  <2>1. call = NoCall /\ \E b, n : stack' = <<Reserve(b, n, FALSE)>>
    BY <1>9 DEF ClientReserve, Idle
  <2>2. QED
    BY <1>5, <1>6, <1>7, <2>1
<1>10. CASE \/ \E c \in UserCaches, r \in owned : ClientNew(c, r)
            \/ \E c \in UserCaches : ClientAlloc(c)
  <2>1. call = NoCall /\ \E c : c # "mmap" /\ stack' = <<Alloc(c, FALSE)>>
    BY <1>10, ClientsAssumption DEF ClientNew, ClientAlloc, Idle
  <2>2. QED
    BY <1>5, <1>6, <2>1
<1>11. CASE \/ StackOverflow \/ BootDone \/ ReserveDone \/ NewDone \/ AllocDone
            \/ UNCHANGED vars \/ (\E r \in owned : ClientRelease(r))
            \/ \E c \in UserCaches : \E i \in DOMAIN slabs[c] : ClientFree(c, i)
  BY <1>3, <1>11 DEF StackOverflow, BootDone, ReserveDone, NewDone, AllocDone, vars,
                     ClientRelease, ClientFree
<1>12. QED
  BY <1>8, <1>9, <1>10, <1>11 DEF Client

LEMMA SpareInit ==
    ASSUME EnoughDescriptors, Init
    PROVE  Spare
<1>1. TypeInv
  BY TypeInit
<1>2. "mmap" \in Caches /\ DOMAIN slabs["mmap"] = 1 .. Len(slabs["mmap"])
  BY <1>1, SlabTypes DEF Caches
<1>3. /\ Len(slabs["mmap"]) = 1
      /\ slabs["mmap"][1].free = Len(Zones)
  <2> DEFINE slab == NewSlab((LastLoaded + (Nmemb + 1) * CacheSize) % Word,
                             Len(Zones) * 2 * MapSize, Len(Zones) * 2)
  <2>1. slabs["mmap"] = <<[slab EXCEPT !.free = Len(Zones)]>>
    BY <1>2 DEF Init
  <2>2. [slab EXCEPT !.free = Len(Zones)].free = Len(Zones)
    BY DEF NewSlab
  <2>3. ASSUME NEW s, slabs["mmap"] = <<s>>, s.free = Len(Zones)
        PROVE  Len(slabs["mmap"]) = 1 /\ slabs["mmap"][1].free = Len(Zones)
    BY <2>3
  <2> HIDE DEF slab
  <2>4. QED
    BY <2>1, <2>2, <2>3
<1>4. Len(Zones) > 0
  BY ZonesAssumption DEF EnoughDescriptors
<1>5. 1 \in HasFree("mmap")
  BY <1>2, <1>3, <1>4 DEF HasFree
<1>6. stack = <<>>
  BY DEF Init
<1>7. QED
  BY <1>5, <1>6 DEF Spare, Spared, One

LEMMA SpareStep ==
    ASSUME EnoughDescriptors, TypeInv, CallShape, Spare, [Next]_vars
    PROVE  Spare'
<1>1. starved' \/ ~starved
  BY StarvedStays
<1>2. CASE starved'
  BY <1>2 DEF Spare
<1>3. CASE ~starved'
  <2>1. CASE CacheStep
    BY <1>1, <1>3, <2>1, CacheStepKeepsSpare
  <2>2. CASE MapStep
    BY <1>1, <1>3, <2>2, SplitStepsKeepSpare, ReserveCallsKeepSpare,
       ReserveJumpsKeepSpare, ScanReturnsKeepSpare DEF MapStep
  <2>3. QED
    BY <1>1, <1>3, <2>1, <2>2, OtherStepKeepsSpare DEF Next, Kernel
<1>4. QED
  BY <1>2, <1>3

THEOREM MarginsHold == EnoughDescriptors /\ Spec => [](TypeInv /\ CallShape /\ Spare)
<1> SUFFICES ASSUME EnoughDescriptors PROVE Spec => [](TypeInv /\ CallShape /\ Spare)
  OBVIOUS
<1>1. Init => Spare
  BY SpareInit
<1>2. TypeInv /\ CallShape /\ Spare /\ [Next]_vars => Spare'
  BY SpareStep
<1>3. Spec => [](TypeInv /\ CallShape)
  BY CallsNest, TypeCorrect, PTL DEF TypeInv
<1>4. QED
  BY <1>1, <1>2, <1>3, PTL DEF Spec

(* Whatever is reserved, split, released or allocated, the manager returns *)
(* with a memory_map descriptor in hand for the split that the next        *)
(* reservation begins with, unless it starved before.                      *)
THEOREM DescriptorIsSpared == EnoughDescriptors /\ Spec => []SpareDescriptor
<1>1. TypeInv /\ CallShape /\ Spare => SpareDescriptor
  <2> SUFFICES ASSUME TypeInv, CallShape, Spare, ~starved, call = NoCall
               PROVE  HasFree("mmap") # {}
    BY DEF SpareDescriptor
  <2>1. stack = <<>>
    BY NoCallNoStack DEF NoCall
  <2>2. QED
    BY <2>1, SpareFacts DEF One
<1>2. QED
  BY <1>1, MarginsHold, PTL

(* The step in which the manager starves finds metadata_cache empty, or is *)
(* taken below the refill of metadata_cache or the extension of a client's *)
(* cache: a plain reservation never takes the last descriptor unchecked.   *)
THEOREM StarvesOnlyBelow == EnoughDescriptors /\ Spec => StarvesOnlyWhen
<1> DEFINE Shortage == \/ HasFree("meta") = {}
                       \/ \E i \in DOMAIN stack : stack[i].pc \in {"alloc_meta", "alloc_grow"}
           Cause == starved' /\ ~starved => Shortage
<1>1. ASSUME TypeInv, CallShape, Spare, [Next]_vars, starved', ~starved
      PROVE  Shortage
  <2>1. At("alloc_try") /\ HasFree(Top.cache) = {} /\ Top.cache \in {"meta", "mmap"}
    <3>1. AllocRefill \/ AllocMiss
      BY <1>1
         DEF Next, Kernel, CacheStep, MapStep, Client, vars, History,
             AllocHit, AllocMeta, AllocOwn, AllocGrow, ExtendAlloc, ExtendLink,
             SplitAlloc, SplitLink, ReserveExtendFirst, ReserveEnough, ReserveExtend,
             ScanFails, ScanExact, ScanSplits, ScanPrefix, ReserveAgain, StackOverflow,
             BootCall, BootDone, ReserveDone, NewDone, AllocDone, ClientReserve,
             ClientRelease, ClientNew, ClientAlloc, ClientFree
    <3>2. QED
      BY <1>1, <3>1 DEF AllocRefill, AllocMiss
  <2>2. CASE Top.cache = "meta"
    BY <2>1, <2>2
  <2>3. CASE Top.cache = "mmap"
    <3>1. stack # <<>> /\ AllocFrom(Top, "mmap") /\ ~One("mmap")
      BY <2>1, <2>3 DEF At, AllocFrom, One
    <3>2. /\ Len(stack) > 1 /\ Calls(stack[2], Top) /\ Top = stack[1]
          /\ Len(stack) \in Nat
      BY <1>1, <3>1, NextFrame, CallerFacts
    <3>3. stack[2].pc = "split_link"
      BY <3>1, <3>2, Callers
    <3>4. ~LeavesOne(stack, 2) /\ ~TakesLast(stack, 2)
      BY <1>1, <3>1, <3>2, SpareFacts DEF SplitSpare
    <3>5. /\ Caller(stack, 2) = IF 2 < Len(stack) THEN stack[3].pc ELSE "client"
          /\ Caller(stack, 3) = IF 3 < Len(stack) THEN stack[4].pc ELSE "client"
      BY DEF Caller
    <3>6. 2 < Len(stack)
      BY <3>4, <3>5 DEF LeavesOne
    <3>7. /\ Calls(stack[3], stack[2])
          /\ 3 < Len(stack) => Calls(stack[4], stack[3])
      <4>1. \A i \in 1 .. Len(stack) - 1 : Calls(stack[i + 1], stack[i])
        BY <1>1 DEF CallShape
      <4>2. /\ 2 \in 1 .. Len(stack) - 1 /\ 2 + 1 = 3 /\ 3 + 1 = 4
            /\ 3 < Len(stack) => 3 \in 1 .. Len(stack) - 1
        BY <3>2, <3>6
      <4>3. QED
        BY <4>1, <4>2
    <3>8. stack[3].pc \in {"alloc_meta", "res_extend"}
      <4>1. stack[3].pc \in {"alloc_meta", "alloc_grow", "res_extend", "res_again"}
        BY <3>3, <3>7, Callers DEF SplitPc
      <4>2. QED
        BY <3>4, <3>5, <3>6, <4>1 DEF LeavesOne
    <3>9. DOMAIN stack = 1 .. Len(stack)
      BY <1>1 DEF TypeInv, TypeOK
    <3>10. CASE stack[3].pc = "alloc_meta"
      <4>1. 3 \in DOMAIN stack
        BY <3>2, <3>6, <3>9
      <4>2. QED
        BY <3>10, <4>1
    <3>11. CASE stack[3].pc = "res_extend"
      <4>1. 3 < Len(stack)
        BY <3>4, <3>5, <3>6, <3>11 DEF TakesLast
      <4>2. stack[3].ext = FALSE
        BY <3>7, <3>11 DEF Calls, AllocPc
      <4>3. stack[4].pc = "alloc_grow"
        BY <3>7, <3>11, <4>1, <4>2, Callers DEF ReservePc
      <4>4. 4 \in DOMAIN stack
        BY <3>2, <3>9, <4>1
      <4>5. QED
        BY <4>3, <4>4
    <3>12. QED
      BY <3>8, <3>10, <3>11
  <2>4. QED
    BY <2>1, <2>2, <2>3
<1>2. TypeInv /\ CallShape /\ Spare /\ [Next]_vars => [Cause]_vars
  BY <1>1
<1>3. QED
  BY <1>2, MarginsHold, PTL DEF Spec, StarvesOnlyWhen
=============================================================================
