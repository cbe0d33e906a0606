--------------------------- MODULE Ownership_proof ---------------------------
(***************************************************************************)
(* Who holds which block of the memory map: the reservations of clients,   *)
(* the slabs of caches, and the block a call has taken and not yet handed  *)
(* to either.  Every claim is a reserved block of exactly its size, and no *)
(* two claims have one base.                                               *)
(***************************************************************************)
EXTENDS KernelMemory_proof

-----------------------------------------------------------------------------
(* A reserved block of the map with this base and this size.               *)
Backed(bl, b, n) ==
    n > 0 /\ \E d \in 1 .. Len(bl) :
                 bl[d].type # Available /\ bl[d].base = b /\ bl[d].size = n

(* The call s[1] of the stack s has, or was just returned, the block b of  *)
(* n bytes; r is the value returned, k the client's call, sl the slabs.    *)
InHand(s, r, k, sl, b, n) ==
    IF s = <<>>
    THEN k.op = "reserve" /\ b = r /\ n = k.size
    ELSE \/ s[1].pc = "alloc_meta" /\ b = r /\ n = MetaSize
         \/ s[1].pc = "alloc_grow" /\ b = r /\ n = sl[s[1].cache][1].size
         \/ s[1].pc = "res_extend" /\ b = r /\ n = ExtSize
         \/ s[1].pc \in {"ext_alloc", "ext_link"} /\ b = s[1].p /\ n = s[1].size
         \/ /\ s[1].pc = "alloc_try" /\ s[1].cache = "meta" /\ Len(s) > 1
            /\ s[2].pc = "ext_link" /\ b = s[2].p /\ n = s[2].size

(* A claim: user and slot say whose it is, a client's, slot i of a cache,  *)
(* or the call's in progress.                                              *)
Claim == [user : {"client", "call"} \cup Caches, slot : Nat,
          base : Address, size : Address]
OfClient(x, ow) ==
    x.user = "client" /\ x.slot = 0 /\ [base |-> x.base, size |-> x.size] \in ow
OfSlab(x, sl) ==
    /\ x.user \in Caches /\ x.slot \in 1 .. Len(sl[x.user])
    /\ x.slot = 1 => x.user \notin {"meta", "mmap"}
    /\ sl[x.user][x.slot].base = x.base /\ sl[x.user][x.slot].size = x.size
OfCall(x, s, r, k, sl) ==
    x.user = "call" /\ x.slot = 0 /\ InHand(s, r, k, sl, x.base, x.size)
Claims ==
    {x \in Claim : /\ x.base # NULL
                   /\ \/ OfClient(x, owned)
                      \/ OfSlab(x, slabs)
                      \/ OfCall(x, stack, ret, call, slabs)}

Exclusive(bl, C) ==
    /\ \A x \in C : Backed(bl, x.base, x.size)
    /\ \A x, y \in C : x # y => x.base # y.base

(* What the claims of a later step are made of.                            *)
Grounded ==
    /\ \A r \in owned : r.base # NULL
    /\ call.op = "reserve" => call.size > 0
    /\ call.op = "new" => call.at \in owned
    /\ \A c \in UserCaches : slabs[c] # <<>> => slabs[c][1].size > 0
    /\ nullSlab = FALSE =>
         \A c \in Caches : \A i \in 1 .. Len(slabs[c]) :
            (i = 1 => c \notin {"meta", "mmap"}) => slabs[c][i].base # NULL

Ownership == ~starved => Grounded /\ Exclusive(blocks, Claims)
OwnInv == MapInv /\ CallShape /\ Ownership

-----------------------------------------------------------------------------
(* Claims that stay, move from one holder to another, or are made.         *)

BlocksStay(bl, bl2) == \A b, n : Backed(bl, b, n) => Backed(bl2, b, n)

(* Areas of memory_init's own, which no step of the manager claims.        *)
BootSet(K) == \A x \in K : x.user = "boot"

LEMMA ClaimsStay ==
    ASSUME NEW bl, NEW bl2, NEW C, NEW D, NEW K, Exclusive(bl, C \cup K),
           BlocksStay(bl, bl2), D \subseteq C
    PROVE  Exclusive(bl2, D \cup K)
BY DEF Exclusive, BlocksStay

LEMMA ClaimMoves ==
    ASSUME NEW bl, NEW bl2, NEW C, NEW D, NEW K, BootSet(K), Exclusive(bl, C \cup K),
           BlocksStay(bl, bl2), NEW y \in C, y.user # "boot",
           NEW z, z.base = y.base, z.size = y.size,
           D \subseteq (C \ {y}) \cup {z}
    PROVE  Exclusive(bl2, D \cup K)
<1>1. y \notin K
  BY DEF BootSet
<1>2. D \cup K \subseteq ((C \cup K) \ {y}) \cup {z}
  BY <1>1
<1>3. QED
  BY <1>2 DEF Exclusive, BlocksStay

LEMMA ClaimMade ==
    ASSUME NEW bl, NEW bl2, NEW C, NEW D, NEW K, Exclusive(bl, C \cup K),
           BlocksStay(bl, bl2), NEW z, Backed(bl2, z.base, z.size),
           \A x \in C \cup K : x.base # z.base,
           D \subseteq C \cup {z}
    PROVE  Exclusive(bl2, D \cup K)
BY DEF Exclusive, BlocksStay

(* A block in a claim is not the available one a reservation found.        *)
LEMMA AvailableUnclaimed ==
    ASSUME TypeInv, MapSound, ~starved, NEW h \in 1 .. Len(blocks),
           blocks[h].type = Available, blocks[h].size > 0,
           NEW b, NEW n, Backed(blocks, b, n)
    PROVE  b # blocks[h].base
<1>1. PICK d \in 1 .. Len(blocks) : blocks[d].type # Available /\ blocks[d].base = b
                                    /\ blocks[d].size = n
  BY DEF Backed
<1>2. n > 0 /\ d # h
  BY <1>1 DEF Backed
<1>3. blocks[d] \in Block /\ blocks[h] \in Block /\ DOMAIN blocks = 1 .. Len(blocks)
  BY DEF TypeInv, TypeOK
<1>4. Disjoint(blocks[d], blocks[h])
  BY <1>2, <1>3 DEF MapSound
<1>5. /\ blocks[d].base \in Int /\ blocks[d].size \in Int /\ blocks[d].size > 0
      /\ blocks[h].base \in Int /\ blocks[h].size \in Int
  BY <1>1, <1>2, <1>3 DEF Block, Address
<1>6. QED
  BY <1>1, <1>4, <1>5 DEF Disjoint

LEMMA SameBlocks ==
    ASSUME blocks' = blocks
    PROVE  BlocksStay(blocks, blocks')
BY DEF BlocksStay

(* Clients' and slabs' claims are the same when no reservation changes     *)
(* hands and no slab is added.                                             *)
LEMMA SameHolders ==
    ASSUME SameSlabs, owned' = owned, NEW x \in Claims'
    PROVE  /\ x \in Claim /\ x.base # NULL
           /\ \/ x \in Claims
              \/ OfCall(x, stack', ret', call', slabs')
<1>1. /\ x \in Claim /\ x.base # NULL
      /\ \/ OfClient(x, owned')
         \/ OfSlab(x, slabs')
         \/ OfCall(x, stack', ret', call', slabs')
  BY DEF Claims
<1>2. ASSUME OfSlab(x, slabs') PROVE OfSlab(x, slabs)
  BY <1>2 DEF OfSlab, SameSlabs
<1>3. QED
  BY <1>1, <1>2 DEF Claims

LEMMA QuietStep ==
    ASSUME NEW K, BootSet(K), SameSlabs, owned' = owned,
           BlocksStay(blocks, blocks'),
           Exclusive(blocks, Claims \cup K),
           \A b, n : b # NULL /\ InHand(stack', ret', call', slabs', b, n)
                         => InHand(stack, ret, call, slabs, b, n)
    PROVE  Exclusive(blocks', Claims' \cup K)
<1>1. ASSUME NEW x \in Claims' PROVE x \in Claims
  <2>1. /\ x \in Claim /\ x.base # NULL
        /\ \/ x \in Claims
           \/ OfCall(x, stack', ret', call', slabs')
    BY SameHolders
  <2>2. ASSUME OfCall(x, stack', ret', call', slabs') PROVE x \in Claims
    BY <2>1, <2>2 DEF OfCall, Claims
  <2>3. QED
    BY <2>1, <2>2
<1>2. Claims' \subseteq Claims
  BY <1>1
<1>3. QED
  BY <1>2, ClaimsStay

(* The step of a call that takes a block: base a, n bytes.                 *)
LEMMA TakingStep ==
    ASSUME NEW K, BootSet(K), SameSlabs, owned' = owned,
           BlocksStay(blocks, blocks'),
           Exclusive(blocks, Claims \cup K), NEW a, NEW k,
           \A b, n : InHand(stack', ret', call', slabs', b, n)
                        => b = a /\ n = k /\ Backed(blocks', a, k),
           k > 0 => \A b, n : Backed(blocks, b, n) => b # a
    PROVE  Exclusive(blocks', Claims' \cup K)
<1> DEFINE z == [user |-> "call", slot |-> 0, base |-> a, size |-> k]
<1>1. CASE \E b, n : InHand(stack', ret', call', slabs', b, n)
  <2>1. Backed(blocks', a, k)
    BY <1>1
  <2>2. ASSUME NEW x \in Claims' PROVE x \in Claims \/ x = z
    <3>1. /\ x \in Claim /\ x.base # NULL
          /\ \/ x \in Claims
             \/ OfCall(x, stack', ret', call', slabs')
      BY SameHolders
    <3>2. ASSUME OfCall(x, stack', ret', call', slabs') PROVE x = z
      <4>1. /\ x.user = "call" /\ x.slot = 0
            /\ InHand(stack', ret', call', slabs', x.base, x.size)
        BY <3>2 DEF OfCall
      <4>2. x.base = a /\ x.size = k
        BY <4>1
      <4>3. QED
        BY <3>1, <4>1, <4>2 DEF Claim
    <3>3. QED
      BY <3>1, <3>2
  <2>3. Claims' \subseteq Claims \cup {z}
    BY <2>2
  <2>4. z.base = a /\ z.size = k
    OBVIOUS
  <2>5. \A x \in Claims \cup K : x.base # z.base
    BY <2>1, <2>4 DEF Exclusive, Backed
  <2> HIDE DEF z
  <2>6. QED
    BY <2>1, <2>3, <2>4, <2>5, ClaimMade
<1>2. CASE ~\E b, n : InHand(stack', ret', call', slabs', b, n)
  BY <1>2, QuietStep
<1>3. QED
  BY <1>1, <1>2

LEMMA SlabsUnchanged ==
    ASSUME slabs' = slabs
    PROVE  SameSlabs
BY DEF SameSlabs

(* What is in hand after a call, a jump, a start.                          *)
LEMMA NothingInHand ==
    ASSUME NEW s, NEW r, NEW k, NEW sl,
           s # <<>>,
           \/ s[1].pc \in {"res_check", "res_scan", "res_again", "split_alloc", "split_link"}
           \/ s[1].pc = "alloc_own"
           \/ s[1].pc = "alloc_try" /\ (s[1].cache = "meta" => Len(s) = 1)
    PROVE  \A b, n : ~InHand(s, r, k, sl, b, n)
BY DEF InHand

-----------------------------------------------------------------------------
(* The steps of the manager.                                               *)

(* Calls with nothing in hand, and calls that pass on what they were       *)
(* returned.                                                               *)
LEMMA CacheCallsKeepClaims ==
    ASSUME NEW K, BootSet(K), TypeInv, CallShape, ~starved,
           Exclusive(blocks, Claims \cup K),
           \/ AllocRefill \/ AllocMiss \/ AllocMeta \/ AllocOwn \/ AllocGrow
           \/ ExtendAlloc
    PROVE  Exclusive(blocks', Claims' \cup K)
<1>1. /\ stack # <<>> /\ stack \in Seq(LiveFrame) /\ Top = stack[1] /\ Len(stack) \in Nat
      /\ UNCHANGED <<blocks, slabs, ret, call, owned>>
  BY CallerFacts
     DEF AllocRefill, AllocMiss, AllocMeta, AllocOwn, AllocGrow, ExtendAlloc, At, Control,
         History
<1>2. SameSlabs /\ BlocksStay(blocks, blocks')
  BY <1>1, SlabsUnchanged, SameBlocks
<1>3. ASSUME NEW callee, callee.pc = "res_check", NEW pc, Call(callee, pc)
      PROVE  Exclusive(blocks', Claims' \cup K)
    <2>1. stack' # <<>> /\ stack'[1] = callee
      BY <1>1, <1>3 DEF Call
    <2>2. \A b, n : ~InHand(stack', ret', call', slabs', b, n)
      BY <1>3, <2>1, NothingInHand
    <2>3. QED
      BY <1>1, <1>2, <2>2, QuietStep
<1>4. CASE AllocRefill
  BY <1>3, <1>4 DEF AllocRefill, Reserve
<1>5. CASE AllocMiss
  BY <1>3, <1>5 DEF AllocMiss, Reserve
<1>6. CASE AllocOwn
  BY <1>3, <1>6 DEF AllocOwn, Reserve
<1>7. CASE AllocMeta
  <2> DEFINE callee == Extend("meta", ret, MetaSize, Nmemb, TRUE)
  <2>1. stack' # <<>> /\ stack'[1] = callee
    BY <1>1, <1>7 DEF AllocMeta, Call
  <2>2. callee.pc = "ext_alloc" /\ callee.p = ret /\ callee.size = MetaSize
    BY DEF Extend
  <2>3. stack[1].pc = "alloc_meta"
    BY <1>1, <1>7 DEF AllocMeta, At
  <2> HIDE DEF callee
  <2>4. \A b, n : InHand(stack', ret', call', slabs', b, n)
                     => InHand(stack, ret, call, slabs, b, n)
    BY <1>1, <2>1, <2>2, <2>3 DEF InHand
  <2>5. QED
    BY <1>1, <1>2, <2>4, QuietStep
<1>8. CASE AllocGrow
  <2> DEFINE root == slabs[Top.cache][1]
             callee == Extend(Top.cache, ret, root.size, root.nmemb, FALSE)
  <2>1. stack' # <<>> /\ stack'[1] = callee
    BY <1>1, <1>8 DEF AllocGrow, Call
  <2>2. callee.pc = "ext_alloc" /\ callee.p = ret /\ callee.size = slabs[stack[1].cache][1].size
    BY <1>1 DEF Extend
  <2>3. stack[1].pc = "alloc_grow"
    BY <1>1, <1>8 DEF AllocGrow, At
  <2> HIDE DEF callee
  <2>4. \A b, n : InHand(stack', ret', call', slabs', b, n)
                     => InHand(stack, ret, call, slabs, b, n)
    BY <1>1, <2>1, <2>2, <2>3 DEF InHand
  <2>5. QED
    BY <1>1, <1>2, <2>4, QuietStep
<1>9. CASE ExtendAlloc
  <2> DEFINE callee == Alloc("meta", Top.ext)
             resumed == [Top EXCEPT !.pc = "ext_link"]
  <2>1. Top \in ExtendFrame /\ Top.pc = "ext_alloc"
    BY <1>1, <1>9, TopIsLive, ExtendByPc DEF ExtendAlloc, At, ExtPc
  <2>2. stack' = <<callee, resumed>> \o Tail(stack)
    BY <1>9 DEF ExtendAlloc, Call
  <2>3. stack' # <<>> /\ stack'[1] = callee /\ stack'[2] = resumed
    BY <1>1, <2>2
  <2>4. callee.pc = "alloc_try" /\ resumed.p = Top.p /\ resumed.size = Top.size
    BY <2>1 DEF Alloc, ExtendFrame
  <2> HIDE DEF callee, resumed
  <2>5. \A b, n : InHand(stack', ret', call', slabs', b, n)
                     => InHand(stack, ret, call, slabs, b, n)
    BY <1>1, <2>1, <2>3, <2>4 DEF InHand
  <2>6. QED
    BY <1>1, <1>2, <2>5, QuietStep
<1>10. QED
  BY <1>4, <1>5, <1>6, <1>7, <1>8, <1>9

LEMMA AllocHitKeepsClaims ==
    ASSUME NEW K, BootSet(K), TypeInv, CallShape, ~starved,
           Exclusive(blocks, Claims \cup K), AllocHit
    PROVE  Exclusive(blocks', Claims' \cup K)
<1>1. /\ stack # <<>> /\ stack' = Tail(stack) /\ Top.pc = "alloc_try" /\ SameSlabs
      /\ UNCHANGED <<blocks, call, owned>>
  BY AllocHitEffect
<1>2. /\ Top = stack[1] /\ stack \in Seq(LiveFrame)
      /\ Len(stack) = 1 => Outermost(Top)
      /\ Len(stack) > 1 => Calls(stack[2], Top)
      /\ Len(stack) = 1 \/ Len(stack) > 1
  BY <1>1, NextFrame, CallerFacts
<1>3. /\ Len(stack) = 1 => stack' = <<>>
      /\ Len(stack) > 1 => stack' # <<>> /\ stack'[1] = stack[2]
  BY <1>1, PoppedCaller
<1>4. BlocksStay(blocks, blocks')
  BY <1>1, SameBlocks
<1>5. CASE Len(stack) = 1
  <2>1. call.op # "reserve"
    BY <1>1, <1>2, <1>5 DEF Outermost, ReservePc, SplitPc
  <2>2. \A b, n : ~InHand(stack', ret', call', slabs', b, n)
    BY <1>1, <1>3, <1>5, <2>1 DEF InHand
  <2>3. QED
    BY <1>1, <1>4, <2>2, QuietStep
<1>6. CASE Len(stack) > 1
  <2>1. \/ stack[2].pc = "split_link"
        \/ stack[2].pc = "ext_link" /\ stack[1].cache = "meta"
    BY <1>1, <1>2, <1>6 DEF Calls, Reserving, Extending, AllocFrom, ReservePc, SplitPc,
                            ExtPc
  <2>2. \A b, n : InHand(stack', ret', call', slabs', b, n)
                     => InHand(stack, ret, call, slabs, b, n)
    BY <1>1, <1>2, <1>3, <1>6, <2>1 DEF InHand
  <2>3. QED
    BY <1>1, <1>4, <2>2, QuietStep
<1>7. QED
  BY <1>2, <1>5, <1>6

(* cache_extend hands the block to the cache, as its last slab.            *)
LEMMA ExtendLinkKeepsClaims ==
    ASSUME NEW K, BootSet(K), TypeInv, CallShape, ~starved,
           Exclusive(blocks, Claims \cup K), ExtendLink
    PROVE  Exclusive(blocks', Claims' \cup K)
<1> DEFINE c == Top.cache
           y == [user |-> "call", slot |-> 0, base |-> Top.p, size |-> Top.size]
           z == [user |-> c, slot |-> Len(slabs[c]) + 1, base |-> Top.p,
                 size |-> Top.size]
<1>1. /\ stack # <<>> /\ stack' = Tail(stack) /\ Top \in ExtendFrame
      /\ Top.pc = "ext_link" /\ c \in Caches
      /\ UNCHANGED <<blocks, call, owned>>
      /\ Len(slabs'[c]) = Len(slabs[c]) + 1
      /\ slabs'[c][Len(slabs[c]) + 1] = NewSlab(Top.p, Top.size, Top.nmemb)
      /\ \A i \in 1 .. Len(slabs[c]) : slabs'[c][i] = slabs[c][i]
      /\ \A d \in Caches : d # c => slabs'[d] = slabs[d]
  BY ExtendLinkEffect
<1>2. /\ Top = stack[1] /\ stack \in Seq(LiveFrame)
      /\ Len(stack) > 1 /\ Calls(stack[2], Top)
  BY <1>1, NextFrame, CallerFacts DEF ExtPc
<1>3. stack' # <<>> /\ stack'[1] = stack[2]
  BY <1>1, <1>2, PoppedCaller
<1>4. \A b, n : ~InHand(stack', ret', call', slabs', b, n)
  <2>1. \/ stack[2].pc \in {"alloc_own", "res_scan"}
        \/ stack[2].pc = "alloc_try" /\ stack[2].cache # "meta"
    <3>1. \/ stack[2].pc = "alloc_own"
          \/ stack[2].pc = "alloc_try" /\ stack[2].cache \in UserCaches
          \/ stack[2].pc = "res_scan"
      <4>1. Top.pc \in ExtPc
        BY <1>1 DEF ExtPc
      <4>2. QED
        BY <1>2, <4>1, Callers
    <3>2. QED
      BY <3>1, ClientsAssumption
  <2>2. QED
    BY <1>3, <2>1, NothingInHand
<1>5. BlocksStay(blocks, blocks')
  BY <1>1, SameBlocks
<1>6. Len(slabs[c]) \in Nat /\ Top.p \in Address /\ Top.size \in Address
  BY <1>1, SlabTypes DEF ExtendFrame
<1>7. /\ NewSlab(Top.p, Top.size, Top.nmemb).base = Top.p
      /\ NewSlab(Top.p, Top.size, Top.nmemb).size = Top.size
  BY DEF NewSlab
<1>8. ASSUME NEW x \in Claims'
      PROVE  \/ x \in Claims /\ ~(x.user = "call" /\ x.slot = 0)
             \/ x = z /\ Top.p # NULL
  <2>1. /\ x \in Claim /\ x.base # NULL
        /\ \/ OfClient(x, owned')
           \/ OfSlab(x, slabs')
           \/ OfCall(x, stack', ret', call', slabs')
    BY DEF Claims
  <2>2. ~OfCall(x, stack', ret', call', slabs')
    BY <1>4 DEF OfCall
  <2>3. ASSUME OfClient(x, owned') PROVE x \in Claims /\ x.user # "call"
    BY <1>1, <2>1, <2>3 DEF Claims, OfClient
  <2>4. ASSUME OfSlab(x, slabs'), x.user = c, x.slot = Len(slabs[c]) + 1
        PROVE  x = z /\ Top.p # NULL
    BY <1>1, <1>7, <2>1, <2>4 DEF OfSlab, Claim
  <2>5. ASSUME OfSlab(x, slabs'), ~(x.user = c /\ x.slot = Len(slabs[c]) + 1)
        PROVE  x \in Claims /\ x.slot # 0
    <3>1. /\ x.user \in Caches /\ x.slot \in 1 .. Len(slabs'[x.user])
          /\ x.slot = 1 => x.user \notin {"meta", "mmap"}
          /\ slabs'[x.user][x.slot].base = x.base /\ slabs'[x.user][x.slot].size = x.size
      BY <2>5 DEF OfSlab
    <3>2. x.slot \in 1 .. Len(slabs[x.user]) /\ slabs'[x.user][x.slot] = slabs[x.user][x.slot]
      <4>1. CASE x.user = c
        BY <1>1, <1>6, <2>5, <3>1, <4>1, SMTT(30)
      <4>2. CASE x.user # c
        BY <1>1, <3>1, <4>2
      <4>3. QED
        BY <4>1, <4>2
    <3>3. OfSlab(x, slabs)
      BY <3>1, <3>2 DEF OfSlab
    <3>4. x.slot # 0
      BY <3>2
    <3>5. QED
      BY <2>1, <3>3, <3>4 DEF Claims
  <2>6. CASE OfClient(x, owned')
    BY <2>3, <2>6
  <2>7. CASE OfSlab(x, slabs')
    <3>1. CASE x.user = c /\ x.slot = Len(slabs[c]) + 1
      BY <2>4, <2>7, <3>1
    <3>2. CASE ~(x.user = c /\ x.slot = Len(slabs[c]) + 1)
      BY <2>5, <2>7, <3>2
    <3>3. QED
      BY <3>1, <3>2
  <2>8. QED
    BY <2>1, <2>2, <2>6, <2>7
<1>9. CASE Top.p = NULL
  <2>1. Claims' \subseteq Claims
    BY <1>8, <1>9
  <2>2. QED
    BY <1>5, <2>1, ClaimsStay
<1>10. CASE Top.p # NULL
  <2>1. y.base = Top.p /\ y.size = Top.size /\ y.user = "call" /\ y.slot = 0 /\ y \in Claim
    BY <1>6 DEF Claim
  <2>2. InHand(stack, ret, call, slabs, Top.p, Top.size)
    BY <1>1, <1>2 DEF InHand
  <2>3. z.base = Top.p /\ z.size = Top.size
    OBVIOUS
  <2> HIDE DEF y, z
  <2>4. y \in Claims
    BY <1>10, <2>1, <2>2 DEF Claims, OfCall
  <2>5. Claims' \subseteq (Claims \ {y}) \cup {z}
    BY <1>8, <2>1
  <2>6. QED
    BY <1>5, <2>1, <2>3, <2>4, <2>5, ClaimMoves
<1>11. QED
  BY <1>9, <1>10

LEMMA MapCallsKeepClaims ==
    ASSUME NEW K, BootSet(K), TypeInv, ~starved, Exclusive(blocks, Claims \cup K),
           \/ SplitAlloc \/ ReserveExtendFirst \/ ReserveEnough \/ ReserveExtend
           \/ ScanSplits \/ ScanPrefix \/ ReserveAgain
    PROVE  Exclusive(blocks', Claims' \cup K)
<1>1. /\ stack # <<>> /\ stack \in Seq(LiveFrame) /\ Top = stack[1] /\ Len(stack) \in Nat
      /\ UNCHANGED <<blocks, slabs, ret, call, owned>>
  BY CallerFacts
     DEF SplitAlloc, ReserveExtendFirst, ReserveEnough, ReserveExtend, ScanSplits,
         ScanPrefix, ReserveAgain, At, Control, History
<1>2. SameSlabs /\ BlocksStay(blocks, blocks')
  BY <1>1, SlabsUnchanged, SameBlocks
<1>3. ASSUME NEW frame,
             \/ frame.pc \in {"res_check", "res_scan", "split_alloc"}
             \/ frame.pc = "alloc_try" /\ frame.cache = "mmap",
             Goto(frame) \/ \E pc : Call(frame, pc)
      PROVE  Exclusive(blocks', Claims' \cup K)
    <2>1. stack' # <<>> /\ stack'[1] = frame
      <3>1. CASE Goto(frame)
        BY <1>1, <3>1 DEF Goto
      <3>2. ASSUME NEW pc, Call(frame, pc) PROVE stack' # <<>> /\ stack'[1] = frame
        BY <1>1, <3>2 DEF Call
      <3>3. QED
        BY <1>3, <3>1, <3>2
    <2>2. \A b, n : ~InHand(stack', ret', call', slabs', b, n)
      BY <1>3, <2>1, NothingInHand
    <2>3. QED
      BY <1>1, <1>2, <2>2, QuietStep
<1>4. CASE SplitAlloc
  BY <1>3, <1>4 DEF SplitAlloc, Alloc
<1>5. CASE ReserveExtendFirst
  BY <1>3, <1>5 DEF ReserveExtendFirst, Reserve
<1>6. CASE ReserveEnough
  <2> DEFINE frame == [Top EXCEPT !.pc = "res_scan"]
  <2>1. Top \in ReserveFrame
    BY <1>6, ReserveTop DEF ReserveEnough, ReservePc
  <2>2. frame.pc = "res_scan" /\ Goto(frame)
    BY <1>6, <2>1 DEF ReserveEnough, ReserveFrame
  <2>3. QED
    BY <1>3, <2>2
<1>7. CASE ScanSplits
  BY <1>3, <1>7 DEF ScanSplits, Split
<1>8. CASE ScanPrefix
  BY <1>3, <1>8 DEF ScanPrefix, Split
<1>9. CASE ReserveAgain
  BY <1>3, <1>9 DEF ReserveAgain, Reserve
<1>10. CASE ReserveExtend
  <2> DEFINE callee == Extend("mmap", ret, ExtSize, ExtNmemb, FALSE)
  <2>1. stack' # <<>> /\ stack'[1] = callee
    BY <1>1, <1>10 DEF ReserveExtend, Call
  <2>2. callee.pc = "ext_alloc" /\ callee.p = ret /\ callee.size = ExtSize
    BY DEF Extend
  <2>3. stack[1].pc = "res_extend"
    BY <1>1, <1>10 DEF ReserveExtend, At
  <2> HIDE DEF callee
  <2>4. \A b, n : InHand(stack', ret', call', slabs', b, n)
                     => InHand(stack, ret, call, slabs, b, n)
    BY <1>1, <2>1, <2>2, <2>3 DEF InHand
  <2>5. QED
    BY <1>1, <1>2, <2>4, QuietStep
<1>11. QED
  BY <1>4, <1>5, <1>6, <1>7, <1>8, <1>9, <1>10

LEMMA SizesArePositive == MetaSize > 0 /\ ExtSize > 0
<1>1. \A a, b \in Nat \ {0} : a * b > 0
  OBVIOUS
<1>2. {CacheSize, Nmemb, ExtNmemb} \subseteq Nat \ {0}
  BY SizesAssumption
<1>3. QED
  BY <1>1, <1>2 DEF MetaSize, ExtSize

(* A reservation that returns puts what it returns in its caller's hand,   *)
(* and it is of the size the caller asked for, which is not 0.             *)
LEMMA ReturnedInHand ==
    ASSUME TypeInv, CallShape, ~starved, Grounded, stack # <<>>,
           Top.pc \in {"res_scan", "split_link"},
           stack' = Tail(stack), call' = call, slabs' = slabs
    PROVE  \A b, n : InHand(stack', ret', call', slabs', b, n)
                        => b = ret' /\ n = Top.size /\ n > 0
<1>1. /\ Top = stack[1] /\ stack \in Seq(LiveFrame)
      /\ Len(stack) = 1 => Outermost(Top)
      /\ Len(stack) > 1 => Calls(stack[2], Top)
      /\ Len(stack) = 1 \/ Len(stack) > 1
  BY NextFrame, CallerFacts
<1>2. /\ Len(stack) = 1 => stack' = <<>>
      /\ Len(stack) > 1 => stack' # <<>> /\ stack'[1] = stack[2]
  BY PoppedCaller
<1>3. CASE Len(stack) = 1
  BY <1>1, <1>2, <1>3 DEF Outermost, AllocFrom, AllocPc, InHand, Grounded
<1>4. CASE Len(stack) > 1
  <2>1. \/ stack[2].pc = "alloc_meta" /\ Top.size = MetaSize
        \/ /\ stack[2].pc = "alloc_grow" /\ stack[2].cache \in UserCaches
           /\ Top.size = slabs[stack[2].cache][1].size
        \/ stack[2].pc = "res_extend" /\ Top.size = ExtSize
        \/ stack[2].pc = "res_again"
    BY <1>1, <1>4 DEF Calls, Reserving, Extending, AllocFrom, ReservePc, SplitPc, ExtPc,
                      AllocPc, RootSize
  <2>2. CASE stack[2].pc = "alloc_grow" /\ stack[2].cache \in UserCaches
    <3>1. slabs[stack[2].cache] # <<>>
      <4>1. stack[2] \in LiveFrame
        BY <1>1, <1>4
      <4>2. QED
        BY <2>2, <4>1 DEF LiveFrame, CachePc
    <3>2. slabs[stack[2].cache][1].size > 0
      BY <2>2, <3>1 DEF Grounded
    <3>3. QED
      BY <1>2, <1>4, <2>1, <2>2, <3>2 DEF InHand
  <2>3. CASE stack[2].pc # "alloc_grow"
    BY <1>2, <1>4, <2>1, <2>3, SizesArePositive DEF InHand
  <2>4. QED
    BY <2>1, <2>2, <2>3
<1>5. QED
  BY <1>1, <1>3, <1>4

-----------------------------------------------------------------------------
(* The steps that change the map.                                          *)

LEMMA SplitLinkKeepsBlocks ==
    ASSUME TypeInv, MapSound, SplitsSound, ~starved, SplitLink
    PROVE  /\ BlocksStay(blocks, blocks')
           /\ Top.size > 0 => Backed(blocks', blocks[Top.m].base, Top.size)
           /\ blocks[Top.m].type = Available /\ blocks[Top.m].size > 0
           /\ Top.m \in 1 .. Len(blocks) /\ stack # <<>> /\ Top.pc = "split_link"
           /\ ret' = blocks[Top.m].base /\ stack' = Tail(stack)
           /\ UNCHANGED <<slabs, call, owned>>
<1> DEFINE m == Top.m
<1>1. /\ stack # <<>> /\ Top \in SplitFrame /\ m \in 1 .. Len(blocks)
      /\ blocks[m] \in Block
      /\ Len(blocks) \in Nat /\ Len(blocks)' = Len(blocks) + 1
      /\ \A d \in 1 .. Len(blocks) : blocks'[d] =
             IF d = m THEN Shrink(blocks[d], Top.size) ELSE blocks[d]
      /\ blocks'[Len(blocks) + 1] = FrontOf(blocks[m], Top.size)
  BY SplitLinkEffect
<1>2. /\ Top.pc = "split_link" /\ ret' = blocks[m].base /\ stack' = Tail(stack)
      /\ UNCHANGED <<slabs, call, owned>>
  BY DEF SplitLink, At, Return, Control, History
<1>3. /\ blocks[m].type = Available /\ Top.size < blocks[m].size
      /\ blocks[m].base + blocks[m].size <= Word
  <2>1. stack \in Seq(LiveFrame) /\ Top = stack[1] /\ Len(stack) >= 1 /\ Len(stack) \in Nat
    BY <1>1, CallerFacts
  <2>2. DOMAIN blocks = 1 .. Len(blocks)
    BY DEF TypeInv, TypeOK
  <2>3. QED
    BY <1>1, <1>2, <2>1, <2>2 DEF SplitsSound, SplitPc, MapSound
<1>4. Top.size \in Address /\ Top.size \in Nat
  BY <1>1 DEF SplitFrame, Address
<1>5. FrontOf(blocks[m], Top.size).base = blocks[m].base
      /\ FrontOf(blocks[m], Top.size).size = Top.size
      /\ FrontOf(blocks[m], Top.size).type # Available
  BY <1>1, <1>3, <1>4, SplitParts DEF FrontOf, Reserved, Available
<1>6. blocks[m].size > 0
  BY <1>1, <1>3, <1>4 DEF Block, Address
<1>7. ASSUME Top.size > 0 PROVE Backed(blocks', blocks[m].base, Top.size)
  BY <1>1, <1>5, <1>7 DEF Backed
<1>8. ASSUME NEW b, NEW n, Backed(blocks, b, n) PROVE Backed(blocks', b, n)
  <2>1. PICK d \in 1 .. Len(blocks) : blocks[d].type # Available /\ blocks[d].base = b
                                      /\ blocks[d].size = n
    BY <1>8 DEF Backed
  <2>2. d # m /\ d \in 1 .. Len(blocks') /\ blocks'[d] = blocks[d]
    BY <1>1, <1>3, <2>1
  <2>3. QED
    BY <1>8, <2>1, <2>2 DEF Backed
<1>9. QED
  BY <1>1, <1>2, <1>3, <1>6, <1>7, <1>8 DEF BlocksStay

LEMMA ScanExactKeepsBlocks ==
    ASSUME TypeInv, ScanExact
    PROVE  /\ BlocksStay(blocks, blocks')
           /\ Top.size > 0 => Backed(blocks', blocks[Hit].base, Top.size)
           /\ blocks[Hit].type = Available /\ blocks[Hit].size = Top.size
           /\ Hit \in 1 .. Len(blocks) /\ stack # <<>> /\ Top.pc = "res_scan"
           /\ ret' = blocks[Hit].base /\ stack' = Tail(stack)
           /\ UNCHANGED <<slabs, call, owned>>
<1>1. /\ Hit \in 1 .. Len(blocks) /\ blocks[Hit].type = Available
  BY HitExists DEF ScanExact
<1>2. /\ Top.pc = "res_scan" /\ ret' = blocks[Hit].base /\ stack' = Tail(stack)
      /\ stack # <<>> /\ blocks[Hit].size = Top.size
      /\ UNCHANGED <<slabs, call, owned>>
      /\ blocks' = [blocks EXCEPT ![Hit].type = Reserved]
  BY DEF ScanExact, At, Return, Control, History
<1>3. /\ Len(blocks') = Len(blocks)
      /\ \A e \in 1 .. Len(blocks) :
            /\ blocks'[e].base = blocks[e].base
            /\ blocks'[e].size = blocks[e].size
            /\ blocks'[e].type = IF e = Hit THEN Reserved ELSE blocks[e].type
  BY <1>1, <1>2, RetypedBlocks DEF Reserved
<1>4. Reserved # Available
  BY DEF Reserved, Available
<1> HIDE DEF Hit
<1>5. ASSUME Top.size > 0 PROVE Backed(blocks', blocks[Hit].base, Top.size)
  BY <1>1, <1>2, <1>3, <1>4, <1>5 DEF Backed
<1>6. BlocksStay(blocks, blocks')
  BY <1>1, <1>3, <1>4 DEF Backed, BlocksStay
<1>7. QED
  BY <1>1, <1>2, <1>5, <1>6

LEMMA MapReturnsKeepClaims ==
    ASSUME NEW K, BootSet(K), TypeInv, MapSound, SplitsSound, CallShape,
           ~starved, Grounded,
           Exclusive(blocks, Claims \cup K), ScanFails \/ ScanExact \/ SplitLink
    PROVE  Exclusive(blocks', Claims' \cup K)
<1>1. CASE ScanFails
  <2>1. /\ stack # <<>> /\ Top.pc = "res_scan" /\ stack' = Tail(stack) /\ ret' = NULL
        /\ UNCHANGED <<blocks, slabs, call, owned>>
    BY <1>1 DEF ScanFails, At, Return, Control, History
  <2>2. \A b, n : InHand(stack', ret', call', slabs', b, n) => b = NULL
    BY <2>1, ReturnedInHand
  <2>3. QED
    BY <2>1, <2>2, SlabsUnchanged, SameBlocks, QuietStep
<1>2. ASSUME NEW h \in 1 .. Len(blocks), blocks[h].type = Available,
             blocks[h].size > 0 \/ blocks[h].size = Top.size,
             BlocksStay(blocks, blocks'),
             Top.size > 0 => Backed(blocks', blocks[h].base, Top.size),
             stack # <<>>, Top.pc \in {"res_scan", "split_link"},
             ret' = blocks[h].base, stack' = Tail(stack),
             UNCHANGED <<slabs, call, owned>>
      PROVE  Exclusive(blocks', Claims' \cup K)
  <2>1. \A b, n : InHand(stack', ret', call', slabs', b, n)
                     => b = blocks[h].base /\ n = Top.size
                        /\ Backed(blocks', blocks[h].base, Top.size)
    BY <1>2, ReturnedInHand
  <2>2. Top.size > 0 => \A b, n : Backed(blocks, b, n) => b # blocks[h].base
    BY <1>2, AvailableUnclaimed
  <2>3. SameSlabs
    BY <1>2, SlabsUnchanged
  <2>4. QED
    BY <1>2, <2>1, <2>2, <2>3, TakingStep
<1>3. CASE ScanExact
  BY <1>2, <1>3, ScanExactKeepsBlocks
<1>4. CASE SplitLink
  BY <1>2, <1>4, SplitLinkKeepsBlocks
<1>5. QED
  BY <1>1, <1>3, <1>4

-----------------------------------------------------------------------------
(* The steps of memory_init and of clients.                                *)

LEMMA FreeEffect ==
    ASSUME TypeInv, NEW c \in UserCaches, NEW i \in DOMAIN slabs[c], ClientFree(c, i)
    PROVE  /\ SameSlabs
           /\ UNCHANGED <<blocks, order, stack, ret, call, phase, owned, starved, nullSlab>>
<1> DEFINE ptr == slabs[c][i].base
           in == {j \in DOMAIN slabs[c] : /\ slabs[c][j].base <= ptr
                                         /\ ptr < slabs[c][j].base + slabs[c][j].size}
           to == First(in)
<1>1. c \in Caches
  BY DEF Caches
<1>2. DOMAIN slabs[c] = 1 .. Len(slabs[c]) /\ Len(slabs[c]) \in Nat
  BY <1>1, SlabTypes
<1>3. in \subseteq Nat /\ in \subseteq DOMAIN slabs[c]
  BY <1>2
<1>4. to \in 1 .. Len(slabs[c])
  <2>1. in # {}
    BY DEF ClientFree
  <2> HIDE DEF in
  <2>2. QED
    BY <1>2, <1>3, <2>1, FirstIsIn
<1>5. slabs' = [slabs EXCEPT ![c] =
                  [slabs[c] EXCEPT ![to] = [slabs[c][to] EXCEPT !.free =
                                               slabs[c][to].free + 1]]]
  BY DEF ClientFree
<1> HIDE DEF to, in
<1> DEFINE n == slabs[c][to].free + 1
<1>6. n \in Nat
  <2>1. slabs[c][to] \in Slab
    BY <1>1, <1>4, SlabTypes
  <2>2. QED
    BY <2>1 DEF Slab
<1>7. slabs' = [slabs EXCEPT ![c] =
                  [slabs[c] EXCEPT ![to] = [slabs[c][to] EXCEPT !.free = n]]]
  BY <1>5
<1> HIDE DEF n
<1>8. SameSlabs
  BY <1>1, <1>4, <1>6, <1>7, CountChanged
<1>9. QED
  BY <1>8 DEF ClientFree, Control, History

LEMMA IdleHolds ==
    ASSUME TypeInv, CallShape, ~starved, Idle
    PROVE  stack = <<>> /\ \A r, sl, b, n : ~InHand(stack, r, call, sl, b, n)
<1>1. call.op = "none"
  BY DEF Idle, NoCall
<1>2. stack = <<>>
  BY <1>1, NoCallNoStack
<1>3. QED
  BY <1>1, <1>2 DEF InHand

LEMMA QuietOtherSteps ==
    ASSUME NEW K, BootSet(K), TypeInv, CallShape, ~starved,
           Exclusive(blocks, Claims \cup K),
           \/ StackOverflow \/ BootCall \/ BootDone \/ AllocDone \/ UNCHANGED vars
           \/ \E r \in Requests : ClientReserve(r)
           \/ \E c \in UserCaches, r \in owned : ClientNew(c, r)
           \/ \E c \in UserCaches : ClientAlloc(c)
           \/ \E c \in UserCaches : \E i \in DOMAIN slabs[c] : ClientFree(c, i)
    PROVE  Exclusive(blocks', Claims' \cup K)
<1>1. CASE StackOverflow \/ UNCHANGED vars
  <2>1. UNCHANGED <<blocks, slabs, stack, ret, call, owned>>
    BY <1>1 DEF StackOverflow, vars, History
  <2>2. QED
    BY <2>1, SlabsUnchanged, SameBlocks, QuietStep
<1>2. CASE BootDone \/ AllocDone
  <2>1. /\ UNCHANGED <<blocks, slabs, stack, ret, owned>>
        /\ stack = <<>> /\ call'.op = "none"
    BY <1>2 DEF BootDone, AllocDone, History, NoCall
  <2>2. \A b, n : ~InHand(stack', ret', call', slabs', b, n)
    BY <2>1 DEF InHand
  <2>3. QED
    BY <2>1, <2>2, SlabsUnchanged, SameBlocks, QuietStep
<1>3. ASSUME stack' # <<>>, Len(stack') = 1, stack'[1].pc \in {"res_check", "alloc_try"},
             UNCHANGED <<blocks, slabs, ret, owned>>
      PROVE  Exclusive(blocks', Claims' \cup K)
  <2>1. \A b, n : ~InHand(stack', ret', call', slabs', b, n)
    BY <1>3, NothingInHand
  <2>2. QED
    BY <1>3, <2>1, SlabsUnchanged, SameBlocks, QuietStep
<1>4. CASE BootCall
  <2>1. PICK b, n : stack' = <<Reserve(b, n, FALSE)>>
    BY <1>4 DEF BootCall, BootPhases
  <2>2. Reserve(b, n, FALSE).pc = "res_check"
    BY DEF Reserve
  <2>3. UNCHANGED <<blocks, slabs, ret, owned>>
    BY <1>4 DEF BootCall, History
  <2>4. stack' # <<>> /\ Len(stack') = 1 /\ stack'[1].pc \in {"res_check", "alloc_try"}
    BY <2>1, <2>2
  <2>5. QED
    BY <1>3, <2>3, <2>4
<1>5. CASE \E r \in Requests : ClientReserve(r)
  <2>1. PICK r \in Requests : ClientReserve(r)
    BY <1>5
  <2>2. Reserve(r.base, r.size, FALSE).pc = "res_check"
    BY DEF Reserve
  <2>3. stack' # <<>> /\ Len(stack') = 1 /\ stack'[1].pc \in {"res_check", "alloc_try"}
    BY <2>1, <2>2 DEF ClientReserve
  <2>4. QED
    BY <1>3, <2>1, <2>3 DEF ClientReserve, History
<1>6. CASE \/ \E c \in UserCaches, r \in owned : ClientNew(c, r)
           \/ \E c \in UserCaches : ClientAlloc(c)
  <2>1. PICK c \in Caches : /\ stack' = <<Alloc(c, FALSE)>>
                            /\ UNCHANGED <<blocks, slabs, ret, owned>>
    BY <1>6 DEF ClientNew, ClientAlloc, History, Caches
  <2>2. Alloc(c, FALSE).pc = "alloc_try"
    BY DEF Alloc
  <2>3. stack' # <<>> /\ Len(stack') = 1 /\ stack'[1].pc \in {"res_check", "alloc_try"}
    BY <2>1, <2>2
  <2>4. QED
    BY <1>3, <2>1, <2>3
<1>7. CASE \E c \in UserCaches : \E i \in DOMAIN slabs[c] : ClientFree(c, i)
  <2>1. SameSlabs /\ UNCHANGED <<blocks, stack, call, owned>> /\ Idle
    <3>1. PICK c \in UserCaches : \E i \in DOMAIN slabs[c] : ClientFree(c, i)
      BY <1>7
    <3>2. PICK i \in DOMAIN slabs[c] : ClientFree(c, i)
      BY <3>1
    <3>3. QED
      BY <3>2, FreeEffect DEF ClientFree
  <2>2. \A b, n : ~InHand(stack', ret', call', slabs', b, n)
    BY <2>1, IdleHolds
  <2>3. QED
    BY <2>1, <2>2, SameBlocks, QuietStep
<1>8. QED
  BY <1>1, <1>2, <1>4, <1>5, <1>6, <1>7

(* memory_reserve's client gets the block that was in hand.                *)
LEMMA ReserveDoneKeepsClaims ==
    ASSUME NEW K, BootSet(K), TypeInv, ~starved,
           Exclusive(blocks, Claims \cup K), ReserveDone
    PROVE  Exclusive(blocks', Claims' \cup K)
<1> DEFINE r == [base |-> ret, size |-> call.size]
           y == [user |-> "call", slot |-> 0, base |-> ret, size |-> call.size]
           z == [user |-> "client", slot |-> 0, base |-> ret, size |-> call.size]
<1>1. /\ call.op = "reserve" /\ stack = <<>> /\ UNCHANGED <<blocks, slabs, stack, ret>>
      /\ owned' = IF ret = NULL THEN owned ELSE owned \cup {r}
      /\ call'.op = "none"
  BY DEF ReserveDone, NoCall
<1>2. \A b, n : ~InHand(stack', ret', call', slabs', b, n)
  BY <1>1 DEF InHand
<1>3. BlocksStay(blocks, blocks')
  BY <1>1, SameBlocks
<1>4. ret \in Address /\ call.size \in Address
  BY <1>1 DEF TypeInv, TypeOK, PendingCall
<1>5. ASSUME NEW x \in Claims'
      PROVE  \/ x \in Claims /\ x # y
             \/ x = z /\ ret # NULL
  <2>1. /\ x \in Claim /\ x.base # NULL
        /\ \/ OfClient(x, owned')
           \/ OfSlab(x, slabs)
    BY <1>1, <1>2 DEF Claims, OfCall
  <2>2. ASSUME OfSlab(x, slabs) PROVE x \in Claims /\ x # y
    <3>1. x.slot # 0
      BY <2>2 DEF OfSlab
    <3>2. QED
      BY <2>1, <2>2, <3>1 DEF Claims
  <2>3. ASSUME OfClient(x, owned), x.user = "client" PROVE x \in Claims /\ x # y
    BY <2>1, <2>3 DEF Claims
  <2>4. ASSUME OfClient(x, owned'), ~OfClient(x, owned)
        PROVE  x = z /\ ret # NULL
    <3>1. x.user = "client" /\ x.slot = 0 /\ ret # NULL /\ [base |-> x.base, size |-> x.size] = r
      BY <1>1, <2>4 DEF OfClient
    <3>2. x.base = ret /\ x.size = call.size
      BY <3>1
    <3>3. QED
      BY <2>1, <3>1, <3>2 DEF Claim
  <2>5. OfClient(x, owned') => x.user = "client"
    BY DEF OfClient
  <2>6. QED
    BY <2>1, <2>2, <2>3, <2>4, <2>5
<1>6. CASE ret = NULL
  <2>1. Claims' \subseteq Claims
    BY <1>5, <1>6
  <2>2. QED
    BY <1>3, <2>1, ClaimsStay
<1>7. CASE ret # NULL
  <2>1. /\ y.base = ret /\ y.size = call.size /\ y.user = "call" /\ y.slot = 0 /\ y \in Claim
        /\ z.base = ret /\ z.size = call.size
    BY <1>4 DEF Claim
  <2>2. InHand(stack, ret, call, slabs, ret, call.size)
    BY <1>1 DEF InHand
  <2> HIDE DEF y, z
  <2>3. y \in Claims
    BY <1>7, <2>1, <2>2 DEF Claims, OfCall
  <2>4. Claims' \subseteq (Claims \ {y}) \cup {z}
    BY <1>5
  <2>5. QED
    BY <1>3, <2>1, <2>3, <2>4, ClaimMoves
<1>8. QED
  BY <1>6, <1>7

(* cache_new builds the root slab on memory its client holds.              *)
LEMMA NewDoneKeepsClaims ==
    ASSUME NEW K, BootSet(K), TypeInv, ~starved, Grounded,
           Exclusive(blocks, Claims \cup K), NewDone
    PROVE  Exclusive(blocks', Claims' \cup K)
<1> DEFINE c == call.cache
           r == call.at
           y == [user |-> "client", slot |-> 0, base |-> r.base, size |-> r.size]
           z == [user |-> c, slot |-> 1, base |-> r.base, size |-> r.size]
<1>1. /\ call.op = "new" /\ stack = <<>> /\ UNCHANGED <<blocks, stack, ret>>
      /\ owned' = owned \ {r} /\ call'.op = "none"
      /\ slabs' = [slabs EXCEPT ![c] = <<NewSlab(r.base, r.size, UserNmemb)>>]
  BY DEF NewDone, NoCall
<1>2. \A b, n : ~InHand(stack', ret', call', slabs', b, n)
  BY <1>1 DEF InHand
<1>3. BlocksStay(blocks, blocks')
  BY <1>1, SameBlocks
<1>4. c \in Caches /\ r \in owned /\ r.base \in Address /\ r.size \in Address
      /\ r.base # NULL /\ r = [base |-> r.base, size |-> r.size]
  <2>1. c \in UserCaches /\ r \in [base : Address, size : Address]
    BY <1>1 DEF TypeInv, TypeOK, PendingCall
  <2>2. r \in owned
    BY <1>1 DEF Grounded
  <2>3. QED
    BY <2>1, <2>2 DEF Grounded, Caches
<1>5. /\ slabs'[c] = <<NewSlab(r.base, r.size, UserNmemb)>>
      /\ \A d \in Caches : d # c => slabs'[d] = slabs[d]
  BY <1>1, <1>4 DEF TypeInv, TypeOK
<1>6. /\ Len(slabs'[c]) = 1 /\ slabs'[c][1].base = r.base /\ slabs'[c][1].size = r.size
  BY <1>5 DEF NewSlab
<1> HIDE DEF c, r
<1>7. ASSUME NEW x \in Claims'
      PROVE  \/ x \in Claims /\ x # y
             \/ x = z
  <2>1. /\ x \in Claim /\ x.base # NULL
        /\ \/ OfClient(x, owned')
           \/ OfSlab(x, slabs')
    BY <1>2 DEF Claims, OfCall
  <2>2. ASSUME OfSlab(x, slabs'), x.user = c PROVE x = z
    <3>1. x.slot = 1 /\ x.base = r.base /\ x.size = r.size
      BY <1>6, <2>2 DEF OfSlab
    <3>2. QED
      BY <2>1, <2>2, <3>1 DEF Claim
  <2>3. ASSUME OfSlab(x, slabs'), x.user # c PROVE x \in Claims /\ x # y
    <3>1. OfSlab(x, slabs) /\ x.slot # 0
      BY <1>5, <2>3 DEF OfSlab
    <3>2. QED
      BY <2>1, <3>1 DEF Claims
  <2>4. ASSUME OfClient(x, owned') PROVE x \in Claims /\ x # y
    <3>1. /\ OfClient(x, owned) /\ [base |-> x.base, size |-> x.size] # r
      BY <1>1, <2>4 DEF OfClient
    <3>2. x # y
      BY <1>4, <3>1
    <3>3. QED
      BY <2>1, <3>1, <3>2 DEF Claims
  <2>5. QED
    BY <2>1, <2>2, <2>3, <2>4
<1>8. /\ y.base = r.base /\ y.size = r.size /\ y.user = "client" /\ y.slot = 0
      /\ y \in Claim /\ z.base = r.base /\ z.size = r.size
  BY <1>4 DEF Claim
<1> HIDE DEF y, z
<1>9. y \in Claims
  BY <1>4, <1>8 DEF Claims, OfClient
<1>10. Claims' \subseteq (Claims \ {y}) \cup {z}
  BY <1>7
<1>11. QED
  BY <1>3, <1>8, <1>9, <1>10, ClaimMoves

(* memory_release retypes one block at the address, or none.               *)
LEMMA ReleaseEffect ==
    ASSUME TypeInv, NEW r \in owned, ClientRelease(r)
    PROVE  /\ UNCHANGED <<order, slabs, stack, ret, call, phase, starved, nullSlab>>
           /\ Idle /\ owned' = owned \ {r}
           /\ \/ blocks' = blocks
              \/ \E d \in 1 .. Len(blocks) :
                    /\ blocks[d].base = r.base
                    /\ blocks' = [blocks EXCEPT ![d].type = Available]
<1> DEFINE at == {i \in DOMAIN order : blocks[order[i]].base = r.base}
<1>1. /\ UNCHANGED <<order, slabs, stack, ret, call, phase, starved, nullSlab>>
      /\ Idle /\ owned' = owned \ {r}
  BY DEF ClientRelease, Control
<1>2. CASE at = {}
  BY <1>1, <1>2 DEF ClientRelease
<1>3. CASE at # {}
  <2> DEFINE d == order[First(at)]
  <2>1. order \in Seq(1 .. Len(blocks)) /\ DOMAIN order = 1 .. Len(order)
    BY LenProperties DEF TypeInv, TypeOK
  <2>2. First(at) \in at
    <3>1. at \subseteq Nat
      BY <2>1
    <3> HIDE DEF at
    <3>2. QED
      BY <1>3, <3>1, FirstIsIn
  <2>3. blocks' = [blocks EXCEPT ![d].type = Available]
    BY <1>3 DEF ClientRelease
  <2>4. blocks[d].base = r.base /\ First(at) \in DOMAIN order
    BY <2>2
  <2>5. d \in 1 .. Len(blocks)
    BY <2>1, <2>4, ElementOfSeq
  <2> HIDE DEF d, at
  <2>6. QED
    BY <1>1, <2>3, <2>4, <2>5
<1>4. QED
  BY <1>2, <1>3

(* The block is the reservation's own, or empty.                           *)
LEMMA ReleaseKeepsOthers ==
    ASSUME TypeInv, NEW r \in owned, ClientRelease(r),
           NEW b, NEW n, Backed(blocks, b, n), b # r.base
    PROVE  Backed(blocks', b, n)
<1>1. CASE blocks' = blocks
  BY <1>1
<1>2. ASSUME NEW d \in 1 .. Len(blocks), blocks[d].base = r.base,
             blocks' = [blocks EXCEPT ![d].type = Available]
      PROVE  Backed(blocks', b, n)
  <2>1. /\ Len(blocks') = Len(blocks)
        /\ \A e \in 1 .. Len(blocks) :
              /\ blocks'[e].base = blocks[e].base
              /\ blocks'[e].size = blocks[e].size
              /\ blocks'[e].type = IF e = d THEN Available ELSE blocks[e].type
    BY <1>2, RetypedBlocks DEF Available
  <2>2. PICK e \in 1 .. Len(blocks) : blocks[e].type # Available /\ blocks[e].base = b
                                      /\ blocks[e].size = n
    BY DEF Backed
  <2>3. e # d
    BY <1>2, <2>2
  <2>4. e \in 1 .. Len(blocks') /\ blocks'[e].type # Available /\ blocks'[e].base = b
        /\ blocks'[e].size = n
    BY <2>1, <2>2, <2>3
  <2>5. QED
    BY <2>4 DEF Backed
<1>3. QED
  BY <1>1, <1>2, ReleaseEffect

LEMMA ReleaseKeepsClaims ==
    ASSUME NEW K, BootSet(K), TypeInv, CallShape, ~starved, Grounded,
           Exclusive(blocks, Claims \cup K),
           NEW r \in owned, ClientRelease(r)
    PROVE  Exclusive(blocks', Claims' \cup K)
<1> DEFINE y == [user |-> "client", slot |-> 0, base |-> r.base, size |-> r.size]
<1>1. UNCHANGED <<slabs, stack, ret, call>> /\ Idle /\ owned' = owned \ {r}
  BY ReleaseEffect
<1>2. \A b, n : ~InHand(stack', ret', call', slabs', b, n)
  BY <1>1, IdleHolds
<1>3. r.base \in Address /\ r.size \in Address /\ r.base # NULL
      /\ r = [base |-> r.base, size |-> r.size]
  <2>1. r \in [base : Address, size : Address]
    BY DEF TypeInv, TypeOK
  <2>2. QED
    BY <2>1 DEF Grounded
<1>4. y.base = r.base /\ y \in Claims
  BY <1>3 DEF Claims, Claim, OfClient
<1>5. ASSUME NEW x \in Claims' PROVE x \in Claims /\ x # y
  <2>1. /\ x \in Claim /\ x.base # NULL
        /\ \/ OfClient(x, owned')
           \/ OfSlab(x, slabs)
    BY <1>1, <1>2 DEF Claims, OfCall
  <2>2. ASSUME OfSlab(x, slabs) PROVE x \in Claims /\ x # y
    <3>1. x.slot # 0
      BY <2>2 DEF OfSlab
    <3>2. QED
      BY <2>1, <2>2, <3>1 DEF Claims
  <2>3. ASSUME OfClient(x, owned') PROVE x \in Claims /\ x # y
    <3>1. OfClient(x, owned) /\ [base |-> x.base, size |-> x.size] # r
      BY <1>1, <2>3 DEF OfClient
    <3>2. x # y
      BY <1>3, <3>1
    <3>3. QED
      BY <2>1, <3>1, <3>2 DEF Claims
  <2>4. QED
    BY <2>1, <2>2, <2>3
<1>6. y.user = "client"
  OBVIOUS
<1> HIDE DEF y
<1>7. ASSUME NEW x \in Claims' \cup K PROVE x \in Claims \cup K /\ x # y
  BY <1>5, <1>6 DEF BootSet
<1>8. ASSUME NEW x \in Claims' \cup K PROVE Backed(blocks', x.base, x.size)
  <2>1. Backed(blocks, x.base, x.size) /\ x.base # r.base
    BY <1>4, <1>7 DEF Exclusive
  <2>2. QED
    BY <2>1, ReleaseKeepsOthers
<1>9. \A x, z \in Claims' \cup K : x # z => x.base # z.base
  BY <1>7 DEF Exclusive
<1>10. QED
  BY <1>8, <1>9 DEF Exclusive

LEMMA ClaimsStep ==
    ASSUME NEW K, BootSet(K), MapInv, CallShape, ~starved, ~starved', Grounded,
           Exclusive(blocks, Claims \cup K),
           [Next]_vars
    PROVE  Exclusive(blocks', Claims' \cup K)
<1>1. TypeInv /\ MapSound /\ SplitsSound
  BY DEF MapInv
<1>2. CASE CacheStep
  BY <1>1, <1>2, CacheCallsKeepClaims, AllocHitKeepsClaims, ExtendLinkKeepsClaims
     DEF CacheStep
<1>3. CASE MapStep
  BY <1>1, <1>3, MapCallsKeepClaims, MapReturnsKeepClaims DEF MapStep
<1>4. CASE ReserveDone
  BY <1>1, <1>4, ReserveDoneKeepsClaims
<1>5. CASE NewDone
  BY <1>1, <1>5, NewDoneKeepsClaims
<1>6. CASE \E r \in owned : ClientRelease(r)
  BY <1>1, <1>6, ReleaseKeepsClaims
<1>7. CASE \/ StackOverflow \/ BootCall \/ BootDone \/ AllocDone \/ UNCHANGED vars
           \/ \E r \in Requests : ClientReserve(r)
           \/ \E c \in UserCaches, r \in owned : ClientNew(c, r)
           \/ \E c \in UserCaches : ClientAlloc(c)
           \/ \E c \in UserCaches : \E i \in DOMAIN slabs[c] : ClientFree(c, i)
  BY <1>1, <1>7, QuietOtherSteps
<1>8. QED
  BY <1>2, <1>3, <1>4, <1>5, <1>6, <1>7 DEF Next, Kernel, Client

-----------------------------------------------------------------------------
(* Grounded is kept.                                                       *)

LEMMA SameGround ==
    ASSUME TypeInv, TypeInv', Grounded, SameSlabs, nullSlab' = nullSlab,
           owned' \subseteq owned,
           call'.op \notin {"reserve", "new"} \/ UNCHANGED <<call, owned>>
    PROVE  Grounded'
<1>1. \A c \in Caches : /\ slabs[c] \in Seq(Slab) /\ slabs'[c] \in Seq(Slab)
                        /\ Len(slabs'[c]) = Len(slabs[c])
  BY DEF TypeInv, TypeOK, SameSlabs
<1>2. \A c \in Caches : slabs'[c] # <<>> => slabs[c] # <<>> /\ 1 \in 1 .. Len(slabs[c])
  BY <1>1
<1>3. \A c \in UserCaches : slabs'[c] # <<>> => slabs'[c][1].size > 0
  BY <1>2 DEF Grounded, SameSlabs, Caches
<1>4. nullSlab' = FALSE =>
         \A c \in Caches : \A i \in 1 .. Len(slabs'[c]) :
            (i = 1 => c \notin {"meta", "mmap"}) => slabs'[c][i].base # NULL
  BY <1>1 DEF Grounded, SameSlabs
<1>5. \A r \in owned' : r.base # NULL
  BY DEF Grounded
<1>6. /\ call'.op = "reserve" => call'.size > 0
      /\ call'.op = "new" => call'.at \in owned'
  BY DEF Grounded
<1>7. QED
  BY <1>3, <1>4, <1>5, <1>6 DEF Grounded

LEMMA ExtendLinkGrounded ==
    ASSUME TypeInv, TypeInv', Grounded, ExtendLink
    PROVE  Grounded'
<1> DEFINE c == Top.cache
           k == Len(slabs[c]) + 1
<1>1. /\ c \in Caches /\ slabs[c] # <<>>
      /\ UNCHANGED <<call, owned>>
      /\ Len(slabs'[c]) = k
      /\ slabs'[c][k] = NewSlab(Top.p, Top.size, Top.nmemb)
      /\ \A i \in 1 .. Len(slabs[c]) : slabs'[c][i] = slabs[c][i]
      /\ \A d \in Caches : d # c => slabs'[d] = slabs[d]
  BY ExtendLinkEffect
<1>2. nullSlab' = (nullSlab \/ Top.p = NULL)
  BY DEF ExtendLink
<1>3. Len(slabs[c]) \in Nat /\ Len(slabs[c]) >= 1
  BY <1>1, SlabTypes
<1>4. NewSlab(Top.p, Top.size, Top.nmemb).base = Top.p
  BY DEF NewSlab
<1>5. nullSlab \in BOOLEAN
  BY DEF TypeInv, TypeOK
<1> HIDE DEF c
<1>6. \A d \in UserCaches : slabs'[d] # <<>> => slabs'[d][1].size > 0
  <2>1. UserCaches \subseteq Caches
    BY DEF Caches
  <2>2. 1 \in 1 .. Len(slabs[c])
    BY <1>3
  <2>3. slabs'[c][1] = slabs[c][1]
    BY <1>1, <2>2
  <2>4. QED
    BY <1>1, <2>1, <2>3 DEF Grounded
<1>7. ASSUME nullSlab' = FALSE, NEW d \in Caches, NEW i \in 1 .. Len(slabs'[d]),
             i = 1 => d \notin {"meta", "mmap"}
      PROVE  slabs'[d][i].base # NULL
  <2>1. nullSlab = FALSE /\ Top.p # NULL
    BY <1>2, <1>5, <1>7
  <2>2. CASE d # c
    BY <1>1, <1>7, <2>1, <2>2 DEF Grounded
  <2>3. CASE d = c /\ i = k
    BY <1>1, <1>4, <2>1, <2>3
  <2>4. CASE d = c /\ i # k
    <3>1. i \in 1 .. Len(slabs[c])
      BY <1>1, <1>3, <2>4
    <3>2. QED
      BY <1>1, <1>7, <2>1, <2>4, <3>1 DEF Grounded
  <2>5. QED
    BY <2>2, <2>3, <2>4
<1>8. QED
  BY <1>1, <1>6, <1>7 DEF Grounded

LEMMA NewDoneGrounded ==
    ASSUME TypeInv, TypeInv', Grounded, Exclusive(blocks, Claims), NewDone
    PROVE  Grounded'
<1> DEFINE c == call.cache
           r == call.at
           y == [user |-> "client", slot |-> 0, base |-> r.base, size |-> r.size]
<1>1. /\ call.op = "new" /\ nullSlab' = nullSlab
      /\ owned' = owned \ {r} /\ call'.op = "none"
      /\ slabs' = [slabs EXCEPT ![c] = <<NewSlab(r.base, r.size, UserNmemb)>>]
  BY DEF NewDone, NoCall
<1>2. /\ c \in UserCaches /\ c \in Caches /\ r \in owned
      /\ r \in [base : Address, size : Address]
  BY <1>1 DEF TypeInv, TypeOK, PendingCall, Grounded, Caches
<1>3. r.base # NULL /\ r = [base |-> r.base, size |-> r.size]
  BY <1>2 DEF Grounded
<1>4. y \in Claims /\ y.size = r.size
  BY <1>2, <1>3 DEF Claims, Claim, OfClient
<1>5. r.size > 0
  BY <1>4 DEF Exclusive, Backed
<1>6. /\ slabs'[c] = <<NewSlab(r.base, r.size, UserNmemb)>>
      /\ \A d \in Caches : d # c => slabs'[d] = slabs[d]
  BY <1>1, <1>2 DEF TypeInv, TypeOK
<1>7. /\ Len(slabs'[c]) = 1 /\ slabs'[c][1].base = r.base /\ slabs'[c][1].size = r.size
  BY <1>6 DEF NewSlab
<1> HIDE DEF c, r
<1>8. \A d \in UserCaches : slabs'[d] # <<>> => slabs'[d][1].size > 0
  BY <1>5, <1>6, <1>7 DEF Grounded, Caches
<1>9. nullSlab' = FALSE =>
         \A d \in Caches : \A i \in 1 .. Len(slabs'[d]) :
            (i = 1 => d \notin {"meta", "mmap"}) => slabs'[d][i].base # NULL
  BY <1>1, <1>3, <1>6, <1>7 DEF Grounded
<1>10. QED
  BY <1>1, <1>8, <1>9 DEF Grounded

LEMMA GroundedStep ==
    ASSUME TypeInv, CallShape, ~starved, Grounded, Exclusive(blocks, Claims), [Next]_vars
    PROVE  Grounded'
<1>1. TypeInv'
  BY TypeStep
<1>2. CASE ExtendLink
  BY <1>1, <1>2, ExtendLinkGrounded
<1>3. CASE NewDone
  BY <1>1, <1>3, NewDoneGrounded
<1>4. CASE AllocHit
  BY <1>1, <1>4, AllocHitEffect, SameGround
<1>5. CASE \E c \in UserCaches : \E i \in DOMAIN slabs[c] : ClientFree(c, i)
  BY <1>1, <1>5, FreeEffect, SameGround
<1>6. CASE \E r \in owned : ClientRelease(r)
  <2>1. /\ UNCHANGED <<slabs, call, nullSlab>> /\ owned' \subseteq owned
        /\ call.op = "none"
    BY <1>6, ReleaseEffect DEF Idle, NoCall
  <2>2. QED
    BY <1>1, <2>1, SlabsUnchanged, SameGround
<1>7. CASE ReserveDone
  <2>1. /\ call.op = "reserve" /\ call'.op = "none" /\ UNCHANGED <<slabs, nullSlab>>
        /\ owned' = IF ret = NULL THEN owned
                    ELSE owned \cup {[base |-> ret, size |-> call.size]}
    BY <1>7 DEF ReserveDone, NoCall
  <2>2. \A r \in owned' : r.base # NULL
    BY <2>1 DEF Grounded
  <2>3. QED
    BY <2>1, <2>2 DEF Grounded
<1>8. CASE \E r \in Requests : ClientReserve(r)
  <2>1. PICK r \in Requests : ClientReserve(r)
    BY <1>8
  <2>2. r.size \in Address \ {0}
    BY ClientsAssumption
  <2>3. r.size > 0
    BY <2>2 DEF Address
  <2>4. /\ call' = [op |-> "reserve", size |-> r.size]
        /\ UNCHANGED <<slabs, owned, nullSlab>>
    BY <2>1 DEF ClientReserve, History
  <2>5. QED
    BY <2>3, <2>4 DEF Grounded
<1>9. CASE \E c \in UserCaches, r \in owned : ClientNew(c, r)
  <2>1. PICK c \in UserCaches, r \in owned : ClientNew(c, r)
    BY <1>9
  <2>2. /\ call' = [op |-> "new", cache |-> c, at |-> r]
        /\ UNCHANGED <<slabs, owned, nullSlab>>
    BY <2>1 DEF ClientNew, History
  <2>3. QED
    BY <2>2 DEF Grounded
<1>10. CASE \/ BootCall \/ BootDone \/ AllocDone
            \/ \E c \in UserCaches : ClientAlloc(c)
  <2>1. call'.op \notin {"reserve", "new"} /\ UNCHANGED <<slabs, owned, nullSlab>>
    <3>1. CASE BootCall
      BY <3>1 DEF BootCall, History
    <3>2. CASE BootDone \/ AllocDone
      BY <3>2 DEF BootDone, AllocDone, History, NoCall
    <3>3. CASE \E c \in UserCaches : ClientAlloc(c)
      BY <3>3 DEF ClientAlloc, History
    <3>4. QED
      BY <1>10, <3>1, <3>2, <3>3
  <2>2. QED
    BY <1>1, <2>1, SlabsUnchanged, SameGround
<1>11. CASE \/ UNCHANGED vars \/ StackOverflow \/ MapStep
            \/ AllocRefill \/ AllocMiss \/ AllocMeta \/ AllocOwn \/ AllocGrow \/ ExtendAlloc
  <2>1. UNCHANGED <<slabs, owned, nullSlab, call>>
    BY <1>11
       DEF vars, StackOverflow, MapStep, SplitAlloc, SplitLink, ReserveExtendFirst,
           ReserveEnough, ReserveExtend, ScanFails, ScanExact, ScanSplits, ScanPrefix,
           ReserveAgain, AllocRefill, AllocMiss, AllocMeta, AllocOwn, AllocGrow,
           ExtendAlloc, History, Control
  <2>2. QED
    BY <1>1, <2>1, SlabsUnchanged, SameGround
<1>12. QED
  BY <1>2, <1>3, <1>4, <1>5, <1>6, <1>7, <1>8, <1>9, <1>10, <1>11
     DEF Next, Kernel, Client, CacheStep

-----------------------------------------------------------------------------
(* The invariant.                                                          *)

LEMMA OwnershipInit == ASSUME Init PROVE Ownership
<1>1. /\ owned = {} /\ stack = <<>> /\ call.op = "none"
      /\ slabs = [c \in Caches |->
             CASE c = "meta" ->
                    <<[NewSlab((LastLoaded + CacheSize) % Word, MetaSize, Nmemb)
                         EXCEPT !.free = Nmemb - 1]>>
               [] c = "mmap" ->
                    <<[NewSlab((LastLoaded + (Nmemb + 1) * CacheSize) % Word,
                               Len(Zones) * 2 * MapSize, Len(Zones) * 2)
                         EXCEPT !.free = Len(Zones)]>>
               [] OTHER -> <<>>]
  BY DEF Init, NoCall
<1>2. \A c \in Caches : /\ c \in {"meta", "mmap"} => Len(slabs[c]) = 1
                        /\ c \notin {"meta", "mmap"} => slabs[c] = <<>>
  <2>1. /\ "meta" \in Caches => Len(slabs["meta"]) = 1
        /\ "mmap" \in Caches => Len(slabs["mmap"]) = 1
    BY <1>1
  <2>2. \A c \in Caches : c \notin {"meta", "mmap"} => slabs[c] = <<>>
    BY <1>1
  <2>3. QED
    BY <2>1, <2>2
<1>3. \A c \in UserCaches : slabs[c] = <<>> /\ c \in Caches
  BY <1>2, ClientsAssumption DEF Caches
<1>4. Grounded
  BY <1>1, <1>2, <1>3 DEF Grounded
<1>5. ASSUME NEW x \in Claims PROVE FALSE
  <2>1. \/ OfClient(x, owned)
        \/ OfSlab(x, slabs)
        \/ OfCall(x, stack, ret, call, slabs)
    BY <1>5 DEF Claims
  <2>2. ~OfClient(x, owned)
    BY <1>1 DEF OfClient
  <2>3. ~OfCall(x, stack, ret, call, slabs)
    BY <1>1 DEF OfCall, InHand
  <2>4. ~OfSlab(x, slabs)
    BY <1>2 DEF OfSlab
  <2>5. QED
    BY <2>1, <2>2, <2>3, <2>4
<1>6. QED
  BY <1>4, <1>5 DEF Ownership, Exclusive

LEMMA OwnInvStep ==
    ASSUME NoWrap, OwnInv, [Next]_vars
    PROVE  OwnInv'
<1>1. MapInv' /\ CallShape'
  BY MapInvStep, ShapeStep DEF OwnInv, MapInv
<1>2. CASE starved'
  BY <1>1, <1>2 DEF OwnInv, Ownership
<1>3. CASE ~starved'
  <2>1. ~starved /\ Grounded /\ Exclusive(blocks, Claims)
    BY <1>3, StarvedStays DEF OwnInv, Ownership
  <2>2. Grounded'
    BY <2>1, GroundedStep DEF OwnInv, MapInv
  <2>3. Exclusive(blocks', Claims')
    <3>1. Exclusive(blocks, Claims \cup {}) /\ BootSet({})
      BY <2>1 DEF BootSet
    <3>2. Exclusive(blocks', Claims' \cup {})
      BY <1>3, <2>1, <3>1, ClaimsStep DEF OwnInv
    <3>3. Claims' \cup {} = Claims'
      OBVIOUS
    <3>4. QED
      BY <3>2, <3>3
  <2>4. Ownership'
    BY <2>2, <2>3 DEF Ownership
  <2>5. QED
    BY <1>1, <2>4 DEF OwnInv
<1>4. QED
  BY <1>2, <1>3

(* Whatever clients hold, whatever a cache was given and whatever a call   *)
(* in progress was just returned by __memory_reserve_ex is one reserved    *)
(* block of the memory map of exactly that size, and no block has two such *)
(* owners: until the manager starves, memory_reserve never gives a block   *)
(* out twice and memory_release never frees a block that is not the        *)
(* caller's.                                                               *)
THEOREM OwnersHoldBlocks == SaneMap /\ NoWrap /\ Spec => []OwnInv
<1> SUFFICES ASSUME SaneMap, NoWrap PROVE Spec => []OwnInv
  OBVIOUS
<1>1. Init => OwnInv
  <2> SUFFICES ASSUME Init PROVE OwnInv
    OBVIOUS
  <2>1. MapInv
    BY TypeInit, MapInit DEF MapInv
  <2>2. CallShape
    BY DEF Init, CallShape
  <2>3. QED
    BY <2>1, <2>2, OwnershipInit DEF OwnInv
<1>2. OwnInv /\ [Next]_vars => OwnInv'
  BY OwnInvStep
<1>3. QED
  BY <1>1, <1>2, PTL DEF Spec

-----------------------------------------------------------------------------
(* What a backed area shares bytes with.                                   *)

LEMMA BackedInMap ==
    ASSUME TypeInv, MapSound, ~starved, NEW b, NEW n, Backed(blocks, b, n)
    PROVE  /\ b \in Nat /\ n \in Nat /\ n > 0 /\ b + n <= Word
           /\ \A d \in 1 .. Len(blocks) :
                 blocks[d].type = Available \/ blocks[d].base # b =>
                    \/ b + n <= blocks[d].base
                    \/ blocks[d].base + blocks[d].size <= b
<1>1. PICK e \in 1 .. Len(blocks) : blocks[e].type # Available /\ blocks[e].base = b
                                    /\ blocks[e].size = n
  BY DEF Backed
<1>2. DOMAIN blocks = 1 .. Len(blocks) /\ \A d \in 1 .. Len(blocks) : blocks[d] \in Block
  BY DEF TypeInv, TypeOK
<1>3. blocks[e] \in Block /\ blocks[e].base + blocks[e].size <= Word
  BY <1>1, <1>2 DEF MapSound
<1>4. b \in Nat /\ n \in Nat /\ n > 0 /\ b + n <= Word
  BY <1>1, <1>3 DEF Block, Address, Backed
<1>5. ASSUME NEW d \in 1 .. Len(blocks), blocks[d].type = Available \/ blocks[d].base # b
      PROVE  \/ b + n <= blocks[d].base
             \/ blocks[d].base + blocks[d].size <= b
  <2>1. d # e
    BY <1>1, <1>5
  <2>2. Disjoint(blocks[e], blocks[d])
    BY <1>2, <2>1 DEF MapSound
  <2>3. QED
    BY <1>1, <2>2 DEF Disjoint
<1>6. QED
  BY <1>4, <1>5

LEMMA BackedApart ==
    ASSUME TypeInv, MapSound, ~starved, NEW b, NEW n, NEW c, NEW m,
           Backed(blocks, b, n), Backed(blocks, c, m), b # c
    PROVE  b + n <= c \/ c + m <= b
<1>1. PICK d \in 1 .. Len(blocks) : blocks[d].base = c /\ blocks[d].size = m
  BY DEF Backed
<1>2. QED
  BY <1>1, BackedInMap

(* A block at the base of a backed area is that area's, or empty.          *)
LEMMA BackedAlone ==
    ASSUME TypeInv, MapSound, ~starved, NEW b, NEW n, Backed(blocks, b, n),
           NEW d \in 1 .. Len(blocks), blocks[d].base = b
    PROVE  /\ blocks[d].size \in Nat
           /\ blocks[d].size = n \/ blocks[d].size = 0
<1>1. PICK e \in 1 .. Len(blocks) : blocks[e].type # Available /\ blocks[e].base = b
                                    /\ blocks[e].size = n
  BY DEF Backed
<1>2. DOMAIN blocks = 1 .. Len(blocks) /\ blocks[d] \in Block
  BY DEF TypeInv, TypeOK
<1>3. b \in Nat /\ n \in Nat /\ n > 0
  BY BackedInMap
<1>4. blocks[d].size \in Nat
  BY <1>2 DEF Block, Address
<1>5. CASE d # e
  <2>1. Disjoint(blocks[e], blocks[d])
    BY <1>2, <1>5 DEF MapSound
  <2>2. QED
    BY <1>1, <1>3, <1>4, <2>1 DEF Disjoint
<1>6. QED
  BY <1>1, <1>4, <1>5

LEMMA OwnedAreBacked ==
    ASSUME TypeInv, Grounded, Exclusive(blocks, Claims)
    PROVE  /\ \A r \in owned : /\ r = [base |-> r.base, size |-> r.size]
                               /\ Backed(blocks, r.base, r.size)
           /\ \A r, s \in owned : r # s => r.base # s.base
<1> DEFINE Of(r) == [user |-> "client", slot |-> 0, base |-> r.base, size |-> r.size]
<1>1. ASSUME NEW r \in owned
      PROVE  /\ r = [base |-> r.base, size |-> r.size]
             /\ Of(r) \in Claims /\ Of(r).base = r.base /\ Of(r).size = r.size
  <2>1. r \in [base : Address, size : Address] /\ r.base # NULL
    BY DEF TypeInv, TypeOK, Grounded
  <2>2. QED
    BY <2>1 DEF Claims, Claim, OfClient
<1> HIDE DEF Of
<1>2. ASSUME NEW r \in owned, NEW s \in owned, r # s PROVE r.base # s.base
  <2>1. CASE Of(r) = Of(s)
    BY <1>1, <1>2, <2>1
  <2>2. CASE Of(r) # Of(s)
    BY <1>1, <2>2 DEF Exclusive
  <2>3. QED
    BY <2>1, <2>2
<1>3. QED
  BY <1>1, <1>2 DEF Exclusive

-----------------------------------------------------------------------------
(* The manager implements PhysicalMemory.                                  *)

LEMMA FreeMembers ==
    ASSUME blocks \in Seq(Block)
    PROVE  \A a : a \in Free <=> \E d \in 1 .. Len(blocks) :
                                   blocks[d].type = Available /\ a \in Bytes(blocks[d])
<1>1. DOMAIN blocks = 1 .. Len(blocks)
  OBVIOUS
<1>2. QED
  BY <1>1 DEF Free

LEMMA FreeMembersNext ==
    ASSUME TypeInv'
    PROVE  \A a : a \in Free' <=> \E d \in 1 .. Len(blocks') :
                                   blocks'[d].type = Available /\ a \in Bytes(blocks'[d])
<1>1. DOMAIN blocks' = 1 .. Len(blocks')
  BY DEF TypeInv, TypeOK
<1>2. QED
  BY <1>1 DEF Free, Bytes

LEMMA FreeIsInAddress ==
    ASSUME TypeInv, MapSound, ~starved
    PROVE  Free \subseteq Address
<1>1. blocks \in Seq(Block) /\ DOMAIN blocks = 1 .. Len(blocks)
  BY DEF TypeInv, TypeOK
<1>2. ASSUME NEW d \in 1 .. Len(blocks), NEW a \in Bytes(blocks[d])
      PROVE  a \in Address
  <2>1. blocks[d] \in Block /\ blocks[d].base + blocks[d].size <= Word
    BY <1>1 DEF MapSound
  <2>2. QED
    BY <2>1, WordIsPositive DEF Block, Address, Bytes
<1>3. QED
  BY <1>1, <1>2, FreeMembers

LEMMA SplitLinkTakes ==
    ASSUME TypeInv, TypeInv', MapSound, SplitsSound, ~starved, SplitLink
    PROVE  Free' \subseteq Free
<1> DEFINE m == Top.m
<1>1. /\ m \in 1 .. Len(blocks) /\ blocks[m] \in Block /\ Top.size \in Nat
      /\ Len(blocks) \in Nat /\ Len(blocks') = Len(blocks) + 1
      /\ \A d \in 1 .. Len(blocks) : blocks'[d] =
             IF d = m THEN Shrink(blocks[d], Top.size) ELSE blocks[d]
      /\ blocks'[Len(blocks) + 1] = FrontOf(blocks[m], Top.size)
  BY SplitLinkEffect DEF SplitFrame, Address
<1>2. /\ blocks[m].type = Available /\ blocks[m].size > 0 /\ stack # <<>>
      /\ Top.pc = "split_link"
  BY SplitLinkKeepsBlocks
<1>3. Top.size < blocks[m].size /\ blocks[m].base + blocks[m].size <= Word
  <2>1. Top = stack[1] /\ Len(stack) >= 1 /\ Len(stack) \in Nat
    BY <1>2, CallerFacts
  <2>2. DOMAIN blocks = 1 .. Len(blocks)
    BY DEF TypeInv, TypeOK
  <2>3. QED
    BY <1>1, <1>2, <2>1, <2>2 DEF SplitsSound, SplitPc, MapSound
<1>4. /\ Shrink(blocks[m], Top.size).base = blocks[m].base + Top.size
      /\ Shrink(blocks[m], Top.size).size = blocks[m].size - Top.size
      /\ FrontOf(blocks[m], Top.size).type # Available
  <2>1. Top.size \in Address
    BY SplitLinkEffect DEF SplitFrame
  <2>2. QED
    BY <1>1, <1>3, <2>1, SplitParts DEF FrontOf, Reserved, Available
<1>5. Bytes(Shrink(blocks[m], Top.size)) \subseteq Bytes(blocks[m])
  BY <1>1, <1>3, <1>4, SMTT(30) DEF Bytes, Block, Address
<1> HIDE DEF m
<1>6. ASSUME NEW a \in Free' PROVE a \in Free
  <2>1. PICK d \in 1 .. Len(blocks') : blocks'[d].type = Available /\ a \in Bytes(blocks'[d])
    BY FreeMembersNext
  <2>2. d # Len(blocks) + 1 /\ d \in 1 .. Len(blocks)
    BY <1>1, <1>4, <2>1
  <2>3. blocks[d].type = Available /\ a \in Bytes(blocks[d])
    BY <1>1, <1>2, <1>5, <2>1, <2>2
  <2>4. QED
    BY <2>2, <2>3, FreeMembers DEF TypeInv, TypeOK
<1>7. QED
  BY <1>6

LEMMA RetypedFree ==
    ASSUME TypeInv, TypeInv', NEW d \in 1 .. Len(blocks), NEW type \in Nat,
           blocks' = [blocks EXCEPT ![d].type = type]
    PROVE  /\ type # Available => Free' \subseteq Free
           /\ type = Available => Free' = Free \cup Bytes(blocks[d])
<1>1. /\ Len(blocks') = Len(blocks)
      /\ \A e \in 1 .. Len(blocks) :
            /\ blocks'[e].base = blocks[e].base
            /\ blocks'[e].size = blocks[e].size
            /\ blocks'[e].type = IF e = d THEN type ELSE blocks[e].type
  BY RetypedBlocks
<1>2. \A e \in 1 .. Len(blocks) : Bytes(blocks'[e]) = Bytes(blocks[e])
  BY <1>1 DEF Bytes
<1>3. blocks \in Seq(Block)
  BY DEF TypeInv, TypeOK
<1>4. ASSUME NEW a
      PROVE  a \in Free' <=> \E e \in 1 .. Len(blocks) :
                  (IF e = d THEN type ELSE blocks[e].type) = Available /\ a \in Bytes(blocks[e])
  BY <1>1, <1>2, FreeMembersNext
<1>5. ASSUME NEW a
      PROVE  a \in Free <=> \E e \in 1 .. Len(blocks) :
                  blocks[e].type = Available /\ a \in Bytes(blocks[e])
  BY <1>3, FreeMembers
<1>6. ASSUME type # Available PROVE Free' \subseteq Free
  BY <1>4, <1>5, <1>6
<1>7. ASSUME type = Available PROVE Free' = Free \cup Bytes(blocks[d])
  BY <1>4, <1>5, <1>7
<1>8. QED
  BY <1>6, <1>7

LEMMA ScanExactTakes ==
    ASSUME TypeInv, TypeInv', ScanExact
    PROVE  Free' \subseteq Free
<1>1. Hit \in 1 .. Len(blocks) /\ blocks' = [blocks EXCEPT ![Hit].type = Reserved]
  BY HitExists DEF ScanExact
<1>2. Reserved \in Nat /\ Reserved # Available
  BY DEF Reserved, Available
<1> HIDE DEF Hit
<1>3. QED
  BY <1>1, <1>2, RetypedFree

(* A client is granted only what no other client holds and nobody can      *)
(* reserve.                                                                *)
LEMMA ReserveDoneGrants ==
    ASSUME TypeInv, MapSound, ~starved, Grounded, Exclusive(blocks, Claims),
           ReserveDone, ret # NULL
    PROVE  Physical!Grant
<1> DEFINE n == call.size
           r == [base |-> ret, size |-> n]
           last == ret + n - 1
           y == [user |-> "call", slot |-> 0, base |-> ret, size |-> n]
<1>1. /\ call.op = "reserve" /\ stack = <<>> /\ blocks' = blocks
      /\ owned' = owned \cup {r}
  BY DEF ReserveDone
<1>2. ret \in Address /\ n \in Address
  BY <1>1 DEF TypeInv, TypeOK, PendingCall
<1>3. y \in Claims
  BY <1>1, <1>2 DEF Claims, Claim, OfCall, InHand
<1>4. y.base = ret /\ y.size = n /\ y.user = "call"
  OBVIOUS
<1> HIDE DEF y
<1>5. Backed(blocks, ret, n)
  BY <1>3, <1>4 DEF Exclusive
<1>6. /\ ret \in Nat /\ n \in Nat /\ n > 0 /\ ret + n <= Word
      /\ \A d \in 1 .. Len(blocks) :
            blocks[d].type = Available \/ blocks[d].base # ret =>
               \/ ret + n <= blocks[d].base
               \/ blocks[d].base + blocks[d].size <= ret
  BY <1>5, BackedInMap
<1>7. \A s \in owned : Backed(blocks, s.base, s.size) /\ s.base # ret
  <2> SUFFICES ASSUME NEW s \in owned
               PROVE  Backed(blocks, s.base, s.size) /\ s.base # ret
    OBVIOUS
  <2> DEFINE x == [user |-> "client", slot |-> 0, base |-> s.base, size |-> s.size]
  <2>1. s \in [base : Address, size : Address] /\ s.base # NULL
    BY DEF TypeInv, TypeOK, Grounded
  <2>2. x \in Claims
    BY <2>1 DEF Claims, Claim, OfClient
  <2>3. x.base = s.base /\ x.size = s.size /\ x.user = "client"
    OBVIOUS
  <2> HIDE DEF x
  <2>4. x # y
    BY <1>4, <2>3
  <2>5. x.base # y.base /\ Backed(blocks, x.base, x.size)
    BY <1>3, <2>2, <2>4 DEF Exclusive
  <2>6. Backed(blocks, s.base, s.size)
    BY <2>3, <2>5
  <2>7. s.base # ret
    BY <1>4, <2>3, <2>5
  <2>8. QED
    BY <2>6, <2>7
<1> HIDE DEF n
<1>8. last \in Address /\ ret <= last /\ last - ret + 1 = n
  <2>1. Word \in Int
    BY WordIsPositive
  <2>2. last \in Int /\ last >= 0 /\ last <= Word - 1 /\ ret <= last /\ last - ret + 1 = n
    BY <1>6, <2>1
  <2>3. QED
    BY <2>1, <2>2 DEF Address
<1>9. r.base = ret /\ r.size = n
  OBVIOUS
<1>10. Physical!Covered(r) = ret .. last
  BY <1>6, <1>9 DEF Physical!Covered
<1>11. Physical!Covered(r) \subseteq Address
  BY <1>2, <1>8, <1>10, WordIsPositive DEF Address
<1> HIDE DEF r
<1>12. ASSUME NEW a \in ret .. last PROVE a \notin Free
  <2> SUFFICES ASSUME NEW d \in 1 .. Len(blocks), blocks[d].type = Available,
                      a \in Bytes(blocks[d])
               PROVE  FALSE
    BY FreeMembers DEF TypeInv, TypeOK
  <2>1. blocks[d] \in Block
    BY DEF TypeInv, TypeOK
  <2>2. /\ blocks[d].base <= a /\ a < blocks[d].base + blocks[d].size
        /\ a \in Int /\ blocks[d].base \in Int /\ blocks[d].size \in Int
    BY <2>1 DEF Bytes, Block, Address
  <2>3. \/ ret + n <= blocks[d].base
        \/ blocks[d].base + blocks[d].size <= ret
    BY <1>6
  <2>4. ret <= a /\ a <= ret + n - 1
    BY <1>6
  <2>5. QED
    BY <1>6, <2>2, <2>3, <2>4
<1>13. ASSUME NEW a \in ret .. last, NEW s \in owned PROVE a \notin Physical!Covered(s)
  <2>1. ret + n <= s.base \/ s.base + s.size <= ret
    BY <1>5, <1>7, BackedApart
  <2>2. s.base \in Nat /\ s.size \in Nat
    BY <1>7, BackedInMap
  <2>3. QED
    BY <1>6, <2>1, <2>2 DEF Physical!Covered
<1>14. Physical!Covered(r) \cap (Free \cup Physical!HeldAddresses) = {}
  <2>1. \A a \in ret .. last : a \notin Physical!HeldAddresses
    BY <1>13 DEF Physical!HeldAddresses
  <2>2. QED
    BY <1>10, <1>12, <2>1
<1>15. Free' = Free
  BY <1>1 DEF Free
<1>16. [base |-> ret, size |-> last - ret + 1] = r
  BY <1>8 DEF r
<1> HIDE DEF last
<1>17. QED
  BY <1>1, <1>2, <1>8, <1>11, <1>14, <1>15, <1>16 DEF Physical!Grant

(* memory_release gives back the reservation, or nothing when the first    *)
(* block found at its address is an empty one.                             *)
LEMMA ReleaseImplements ==
    ASSUME TypeInv, TypeInv', MapSound, ~starved, Grounded, Exclusive(blocks, Claims),
           NEW r \in owned, ClientRelease(r)
    PROVE  Physical!Release \/ Physical!Retire
<1>1. /\ owned' = owned \ {r}
      /\ \/ blocks' = blocks
         \/ \E d \in 1 .. Len(blocks) :
               /\ blocks[d].base = r.base
               /\ blocks' = [blocks EXCEPT ![d].type = Available]
  BY ReleaseEffect
<1>2. CASE Free' = Free
  BY <1>1, <1>2 DEF Physical!Retire
<1>3. CASE blocks' = blocks
  <2>1. Free' = Free
    BY <1>3 DEF Free
  <2>2. QED
    BY <1>2, <2>1
<1>4. ASSUME NEW d \in 1 .. Len(blocks), blocks[d].base = r.base,
             blocks' = [blocks EXCEPT ![d].type = Available]
      PROVE  Physical!Release \/ Physical!Retire
  <2>1. Free' = Free \cup Bytes(blocks[d])
    BY <1>4, RetypedFree DEF Available
  <2>2. /\ Backed(blocks, r.base, r.size)
        /\ blocks[d].size \in Nat /\ r.base \in Nat
        /\ blocks[d].size = r.size \/ blocks[d].size = 0
    BY <1>4, OwnedAreBacked, BackedAlone, BackedInMap
  <2>3. CASE blocks[d].size = 0
    <3>1. Bytes(blocks[d]) = {}
      BY <1>4, <2>2, <2>3 DEF Bytes
    <3>2. QED
      BY <1>2, <2>1, <3>1
  <2>4. CASE blocks[d].size = r.size
    <3>1. Bytes(blocks[d]) = Physical!Covered(r)
      BY <1>4, <2>4 DEF Bytes, Physical!Covered
    <3>2. QED
      BY <1>1, <2>1, <3>1 DEF Physical!Release
  <2>5. QED
    BY <2>2, <2>3, <2>4
<1>5. QED
  BY <1>1, <1>3, <1>4

LEMMA PhysicalStep ==
    ASSUME OwnInv, OwnInv', ~starved, ~starved', [Next]_vars
    PROVE  [Physical!Next]_Physical!pvars
<1>1. TypeInv /\ TypeInv' /\ MapSound /\ SplitsSound /\ Grounded /\ Exclusive(blocks, Claims)
  BY DEF OwnInv, MapInv, Ownership
<1>2. CASE SplitLink \/ ScanExact
  <2>1. Free' \subseteq Free
    BY <1>1, <1>2, SplitLinkTakes, ScanExactTakes
  <2>2. owned' = owned
    BY <1>2 DEF SplitLink, ScanExact, History
  <2>3. QED
    BY <2>1, <2>2 DEF Physical!Next, Physical!Take
<1>3. CASE ReserveDone
  <2>1. blocks' = blocks /\ (ret = NULL => owned' = owned)
    BY <1>3 DEF ReserveDone
  <2>2. CASE ret = NULL
    BY <2>1, <2>2 DEF Physical!Next, Physical!Take, Free
  <2>3. CASE ret # NULL
    BY <1>1, <1>3, <2>3, ReserveDoneGrants DEF Physical!Next
  <2>4. QED
    BY <2>2, <2>3
<1>4. CASE NewDone
  <2>1. blocks' = blocks /\ owned' = owned \ {call.at} /\ call.at \in owned
    BY <1>1, <1>4 DEF NewDone, Grounded
  <2>2. Free' = Free
    BY <2>1 DEF Free
  <2>3. Physical!Retire
    BY <2>1, <2>2 DEF Physical!Retire
  <2>4. QED
    BY <2>3 DEF Physical!Next
<1>5. CASE \E r \in owned : ClientRelease(r)
  BY <1>1, <1>5, ReleaseImplements DEF Physical!Next
<1>6. CASE UNCHANGED <<blocks, owned>>
  <2>1. Free' = Free /\ owned' = owned
    BY <1>6 DEF Free
  <2>2. QED
    BY <2>1 DEF Physical!pvars
<1>7. QED
  <2>1. \/ SplitLink \/ ScanExact \/ ReserveDone \/ NewDone
        \/ \E r \in owned : ClientRelease(r)
        \/ UNCHANGED <<blocks, owned>>
    BY DEF Next, Kernel, Client, CacheStep, MapStep, vars, History, StackOverflow,
           BootCall, BootDone, AllocDone, ClientReserve, ClientNew, ClientAlloc, ClientFree,
           AllocHit, AllocRefill, AllocMiss, AllocMeta, AllocOwn, AllocGrow, ExtendAlloc,
           ExtendLink, SplitAlloc, ReserveExtendFirst, ReserveEnough, ReserveExtend,
           ScanFails, ScanSplits, ScanPrefix, ReserveAgain
  <2>2. QED
    BY <1>2, <1>3, <1>4, <1>5, <1>6, <2>1

(* The blocks, descriptors and slabs implement the physical memory that    *)
(* k/memory.h offers: each step of the recursion takes memory for the      *)
(* manager, grants a reservation nobody else holds, gives one back, or     *)
(* retires one into a cache; from a sane memory map, with requests that do *)
(* not wrap, as long as the manager does not starve.                       *)
THEOREM ManagerRefines ==
    SaneMap /\ NoWrap /\ Spec /\ []~starved => ImplementsPhysicalMemory
<1> SUFFICES ASSUME SaneMap, NoWrap PROVE Spec /\ []~starved => Physical!Spec
  BY DEF ImplementsPhysicalMemory
<1>1. Init /\ ~starved /\ OwnInv => Physical!Init
  BY FreeIsInAddress DEF Init, OwnInv, MapInv, Physical!Init
<1>2. OwnInv /\ OwnInv' /\ ~starved /\ ~starved' /\ [Next]_vars
         => [Physical!Next]_Physical!pvars
  BY PhysicalStep
<1>3. Spec => []OwnInv
  BY OwnersHoldBlocks
<1>4. QED
  BY <1>1, <1>2, <1>3, PTL DEF Spec, Physical!Spec

(* Handing out a range that nobody holds keeps the reservations apart.     *)
LEMMA GrantKeepsExclusive == ASSUME Physical!Exclusive, Physical!Grant PROVE Physical!Exclusive'
<1>1. PICK r : /\ Physical!Covered(r) \cap (Free \cup Physical!HeldAddresses) = {}
               /\ owned' = owned \cup {r} /\ Free' = Free
  BY DEF Physical!Grant
<1>2. \A s \in owned : Physical!Covered(s) \subseteq Physical!HeldAddresses
  BY DEF Physical!HeldAddresses
<1>3. Physical!HeldAddresses' = Physical!HeldAddresses \cup Physical!Covered(r)
  BY <1>1 DEF Physical!HeldAddresses
<1>4. Physical!HeldAddresses' \cap Free' = {}
  BY <1>1, <1>3 DEF Physical!Exclusive
<1>5. ASSUME NEW s \in owned', NEW t \in owned', s # t
      PROVE  Physical!Covered(s) \cap Physical!Covered(t) = {}
  <2>1. s \in owned /\ t \in owned => Physical!Covered(s) \cap Physical!Covered(t) = {}
    BY <1>5 DEF Physical!Exclusive
  <2>2. QED
    BY <1>1, <1>2, <1>5, <2>1
<1>6. QED
  BY <1>4, <1>5 DEF Physical!Exclusive

(* What is released was nobody else's, so it may become available.         *)
LEMMA ReleaseKeepsExclusive ==
    ASSUME Physical!Exclusive, Physical!Release PROVE Physical!Exclusive'
<1>1. PICK r \in owned : owned' = owned \ {r} /\ Free' = Free \cup Physical!Covered(r)
  BY DEF Physical!Release
<1>2. ASSUME NEW a \in Physical!HeldAddresses'  PROVE a \notin Free'
  <2>1. PICK s \in owned : s # r /\ a \in Physical!Covered(s)
    BY <1>1, <1>2 DEF Physical!HeldAddresses
  <2>2. a \notin Physical!Covered(r) /\ a \in Physical!HeldAddresses
    BY <1>1, <2>1 DEF Physical!Exclusive, Physical!HeldAddresses
  <2>3. QED
    BY <1>1, <2>2 DEF Physical!Exclusive
<1>3. QED
  BY <1>1, <1>2 DEF Physical!Exclusive

(* No interleaving of reservations and releases that k/memory.h allows     *)
(* makes two reservations share an address, or makes an address that is    *)
(* held available.                                                         *)
THEOREM ReservationsExclusive == Physical!Spec => []Physical!Exclusive
<1>1. Physical!Init => Physical!Exclusive
  BY DEF Physical!Init, Physical!Exclusive, Physical!HeldAddresses
<1>2. Physical!Exclusive /\ [Physical!Next]_Physical!pvars => Physical!Exclusive'
  <2> SUFFICES ASSUME Physical!Exclusive, [Physical!Next]_Physical!pvars
               PROVE  Physical!Exclusive'
    OBVIOUS
  <2>1. CASE Physical!Take \/ Physical!Retire \/ UNCHANGED Physical!pvars
    <3>1. Free' \subseteq Free /\ owned' \subseteq owned
      BY <2>1 DEF Physical!Take, Physical!Retire, Physical!pvars
    <3>2. Physical!HeldAddresses' \subseteq Physical!HeldAddresses
      BY <3>1 DEF Physical!HeldAddresses
    <3>3. QED
      BY <3>1, <3>2 DEF Physical!Exclusive
  <2>2. QED
    BY <2>1, GrantKeepsExclusive, ReleaseKeepsExclusive DEF Physical!Next
<1>3. QED
  BY <1>1, <1>2, PTL DEF Physical!Spec

(* So the reservations the real manager gives its clients never share an   *)
(* address, and none of theirs is in an available block, as long as it     *)
(* does not starve.                                                        *)
THEOREM ManagerKeepsExclusive ==
    SaneMap /\ NoWrap /\ Spec /\ []~starved => []Physical!Exclusive
  BY ManagerRefines, ReservationsExclusive DEF ImplementsPhysicalMemory

-----------------------------------------------------------------------------
(***************************************************************************)
(* memory_init: its three reservations, whose results it does not look at, *)
(* succeed on a machine with the memory map of a PC, and what they reserve *)
(* is nobody else's from then on.  With the claims above this says that no *)
(* two users of memory share a byte.                                       *)
(***************************************************************************)
(* The memory a PC boots with: the first zone is low memory, another one   *)
(* starts at the kernel and ends behind the manager's first data, and the  *)
(* zones leave descriptors for the splits of memory_init's reservations.   *)
PcMap ==
    /\ LowSize > 0 /\ 0 < KernelBase /\ KernelBase < KernelEnd
    /\ Len(Zones) >= 3
    /\ ZoneBlock(Zones[1]).base = 0 /\ ZoneBlock(Zones[1]).type = Available
    /\ \/ LowSize = ZoneBlock(Zones[1]).size
       \/ LowSize < ZoneBlock(Zones[1]).size /\ Len(Zones) >= 4
    /\ \E j \in 1 .. Len(Zones) :
          /\ ZoneBlock(Zones[j]).base = KernelBase
          /\ ZoneBlock(Zones[j]).type = Available
          /\ LastLoaded + CacheDataSize < KernelBase + ZoneBlock(Zones[j]).size
          /\ KernelBase + ZoneBlock(Zones[j]).size < Word

KernelZone ==
    CHOOSE j \in 1 .. Len(Zones) :
        /\ ZoneBlock(Zones[j]).base = KernelBase
        /\ ZoneBlock(Zones[j]).type = Available
        /\ LastLoaded + CacheDataSize < KernelBase + ZoneBlock(Zones[j]).size
        /\ KernelBase + ZoneBlock(Zones[j]).size < Word
ZoneEnd == KernelBase + ZoneBlock(Zones[KernelZone]).size

(* The areas memory_init has reserved when it gets to p.                   *)
LowClaim == [user |-> "boot", slot |-> 0, base |-> 0, size |-> LowSize]
ImageClaim == [user |-> "boot", slot |-> 0, base |-> KernelBase,
               size |-> LastLoaded - KernelBase]
DataClaim == [user |-> "boot", slot |-> 0, base |-> LastLoaded,
              size |-> CacheDataSize]
Kept(p) == IF p = "kernel" THEN {LowClaim}
           ELSE IF p = "caches" THEN {LowClaim, ImageClaim}
           ELSE IF p = "running" THEN {LowClaim, ImageClaim, DataClaim}
           ELSE {}

(* What its reservation in phase p asks for, the block it takes it from,   *)
(* and the descriptors free before and after.                              *)
Wanted(p) == IF p = "low" THEN LowClaim
             ELSE IF p = "kernel" THEN ImageClaim ELSE DataClaim
Target(p) == IF p = "low" THEN 1 ELSE KernelZone
Spares(p) ==
    IF p = "low" THEN IF LowSize = ZoneBlock(Zones[1]).size THEN 3 ELSE 4
    ELSE IF p = "kernel" THEN 3 ELSE 2
SparesLeft(p) == IF p = "low" THEN 3 ELSE IF p = "kernel" THEN 2 ELSE 1

Served(s, k) == s = <<>> /\ k.op = "boot"
Needed(s, k, p) == IF Served(s, k) \/ (s # <<>> /\ s[1].pc = "split_link")
                   THEN SparesLeft(p) ELSE Spares(p)
Serving(s, p) ==
    \/ /\ Len(s) = 1 /\ s[1].pc \in {"res_check", "res_scan"}
       /\ s[1].base = Wanted(p).base /\ s[1].size = Wanted(p).size /\ s[1].ext = FALSE
    \/ Len(s) = 1 /\ s[1].pc \in SplitPc /\ s[1].m = Target(p) /\ s[1].size = Wanted(p).size
    \/ /\ Len(s) = 2 /\ AllocFrom(s[1], "mmap") /\ s[2].pc = "split_link"
       /\ s[2].m = Target(p) /\ s[2].size = Wanted(p).size

(* The zones are as memory_init needs them for what is still to reserve.   *)
ZonesLeft(bl, or, s, k, p) ==
    /\ KernelZone \in 1 .. Len(bl) /\ 1 \in 1 .. Len(bl) /\ 1 \in 1 .. Len(or)
    /\ p = "low" /\ ~Served(s, k) =>
          /\ or[1] = 1 /\ bl[1].base = 0 /\ bl[1].type = Available
          /\ bl[1].size = ZoneBlock(Zones[1]).size
    /\ p # "caches" \/ ~Served(s, k) =>
          /\ bl[KernelZone].type = Available
          /\ bl[KernelZone].base =
                IF p = "low" \/ (p = "kernel" /\ ~Served(s, k)) THEN KernelBase
                ELSE LastLoaded
          /\ bl[KernelZone].base + bl[KernelZone].size = ZoneEnd

Booting ==
    phase \in BootPhases =>
        /\ owned = {} /\ call.op \in {"none", "boot"}
        /\ \A c \in UserCaches : slabs[c] = <<>>
        /\ Len(slabs["meta"]) = 1 /\ Len(slabs["mmap"]) = 1
        /\ slabs["mmap"][1].free >= Needed(stack, call, phase)
        /\ stack # <<>> => Serving(stack, phase)
        /\ ZonesLeft(blocks, order, stack, call, phase)
        /\ Served(stack, call) => Backed(blocks, Wanted(phase).base, Wanted(phase).size)

BootInv == ~starved => Booting /\ Exclusive(blocks, Claims \cup Kept(phase))

LEMMA PcFacts ==
    ASSUME PcMap
    PROVE  /\ KernelZone \in 1 .. Len(Zones) /\ Len(Zones) \in Nat /\ KernelZone # 1
           /\ ZoneBlock(Zones[KernelZone]).base = KernelBase
           /\ ZoneBlock(Zones[KernelZone]).type = Available
           /\ LastLoaded + CacheDataSize < ZoneEnd /\ ZoneEnd < Word
           /\ LowSize > 0 /\ 0 < KernelBase /\ KernelBase < LastLoaded /\ CacheDataSize > 0
           /\ {LowSize, KernelBase, LastLoaded, CacheDataSize, ZoneEnd} \subseteq Nat
<1>1. /\ KernelZone \in 1 .. Len(Zones)
      /\ ZoneBlock(Zones[KernelZone]).base = KernelBase
      /\ ZoneBlock(Zones[KernelZone]).type = Available
      /\ LastLoaded + CacheDataSize < ZoneEnd /\ ZoneEnd < Word
  BY DEF PcMap, KernelZone, ZoneEnd
<1>2. Len(Zones) \in Nat
  BY SizesFit
<1>3. KernelZone # 1
  BY <1>1 DEF PcMap
<1>4. /\ {LowSize, KernelBase, LastLoaded, CacheDataSize} \subseteq Nat
      /\ LowSize > 0 /\ 0 < KernelBase
  BY SizesFit DEF Address, PcMap
<1>5. KernelBase < LastLoaded
  <2>1. KernelEnd \in Nat
    BY SizesAssumption DEF Address
  <2>2. KernelEnd <= LastLoaded
    <3> DEFINE modEnd == IF ModEnds = <<>> THEN 0 ELSE ModEnds[Len(ModEnds)]
    <3>1. modEnd \in Nat
      BY SizesAssumption DEF Address
    <3>2. LastLoaded = IF modEnd < KernelEnd THEN KernelEnd ELSE modEnd
      BY DEF LastLoaded
    <3> HIDE DEF modEnd
    <3>3. QED
      BY <2>1, <3>1, <3>2
  <2>3. QED
    BY <1>4, <2>1, <2>2 DEF PcMap
<1>6. CacheDataSize > 0
  <2>1. (Nmemb + 1) * CacheSize > 0
    <3>1. \A a, b \in Nat \ {0} : (a + 1) * b > 0
      OBVIOUS
    <3>2. {Nmemb, CacheSize} \subseteq Nat \ {0}
      BY SizesAssumption
    <3>3. QED
      BY <3>1, <3>2
  <2>2. (Nmemb + 1) * CacheSize \in Nat /\ Len(Zones) * 2 * MapSize \in Nat
    BY SizesFit DEF Address
  <2>3. QED
    BY <2>1, <2>2 DEF CacheDataSize
<1>7. ZoneEnd \in Nat
  <2>1. ZoneBlock(Zones[KernelZone]).size \in Nat
    <3>1. Zones[KernelZone].len \in Int
      <4>1. Zones[KernelZone] \in [addr : Nat, len : Nat, type : Nat \ {0}]
        BY <1>1, ZonesAssumption, ElementOfSeq
      <4>2. QED
        BY <4>1
    <3>2. Zones[KernelZone].len % Word \in Nat
      BY <3>1, WordIsPositive DEF Address
    <3>3. QED
      BY <3>2 DEF ZoneBlock
  <2>2. QED
    BY <1>4, <2>1 DEF ZoneEnd
<1>8. QED
  BY <1>1, <1>2, <1>3, <1>4, <1>5, <1>6, <1>7

(* Facts about the areas wanted.                                           *)
LEMMA WantedFacts ==
    ASSUME PcMap
    PROVE  /\ \A p : Wanted(p).base \in Nat /\ Wanted(p).size \in Nat /\ Wanted(p).size > 0
           /\ Wanted("low").base = 0 /\ Wanted("low").size = LowSize
           /\ Wanted("kernel").base = KernelBase
           /\ Wanted("kernel").size = LastLoaded - KernelBase
           /\ Wanted("kernel").base + Wanted("kernel").size = LastLoaded
           /\ Wanted("caches").base = LastLoaded /\ Wanted("caches").size = CacheDataSize
<1>1. /\ LowClaim.base = 0 /\ LowClaim.size = LowSize
      /\ ImageClaim.base = KernelBase /\ ImageClaim.size = LastLoaded - KernelBase
      /\ DataClaim.base = LastLoaded /\ DataClaim.size = CacheDataSize
  BY DEF LowClaim, ImageClaim, DataClaim
<1>2. QED
  BY <1>1, PcFacts DEF Wanted

LEMMA BootTop ==
    ASSUME TypeInv, CallShape, Booting, phase \in BootPhases, ~starved, stack # <<>>
    PROVE  /\ Serving(stack, phase) /\ Top = stack[1] /\ stack \in Seq(LiveFrame)
           /\ Len(stack) \in Nat /\ call.op = "boot" /\ ~Served(stack, call)
           /\ \/ Top.pc \in {"res_check", "res_scan", "split_alloc", "split_link"}
              \/ Top.pc = "alloc_try" /\ Top.cache = "mmap"
<1>1. Serving(stack, phase) /\ call.op \in {"none", "boot"}
  BY DEF Booting
<1>2. Top = stack[1] /\ stack \in Seq(LiveFrame) /\ Len(stack) \in Nat
  BY CallerFacts
<1>3. call.op # "none"
  BY NoCallNoStack
<1>4. QED
  BY <1>1, <1>2, <1>3 DEF Serving, Served, SplitPc, AllocFrom

LEMMA BootHit ==
    ASSUME PcMap, TypeInv, MapSound, CallShape, Booting, phase \in BootPhases, ~starved,
           At("res_scan")
    PROVE  /\ Top.base = Wanted(phase).base /\ Top.size = Wanted(phase).size
           /\ Hits # {} /\ Hit = Target(phase)
           /\ phase = "low" => AnyFit(blocks[Hit])
           /\ phase # "low" => /\ ~AnyFit(blocks[Hit]) /\ Top.base = blocks[Hit].base
                               /\ (Top.base + Top.size) % Word < EndOf(blocks[Hit])
<1>1. /\ stack # <<>> /\ Top.pc = "res_scan" /\ Serving(stack, phase) /\ Top = stack[1]
      /\ ~Served(stack, call)
  BY BootTop DEF At
<1>2. Top.base = Wanted(phase).base /\ Top.size = Wanted(phase).size
  BY <1>1 DEF Serving, SplitPc, AllocFrom
<1>3. ZonesLeft(blocks, order, stack, call, phase)
  BY DEF Booting
<1>4. /\ DOMAIN order = 1 .. Len(order) /\ DOMAIN blocks = 1 .. Len(blocks)
      /\ Len(order) \in Nat
  BY DEF TypeInv, TypeOK
<1>5. Hits \subseteq DOMAIN order
  BY DEF Hits
<1>6. CASE phase = "low"
  <2>1. /\ 1 \in 1 .. Len(order) /\ order[1] = 1 /\ 1 \in 1 .. Len(blocks)
        /\ blocks[1].type = Available /\ blocks[1].size = ZoneBlock(Zones[1]).size
    BY <1>1, <1>3, <1>6 DEF ZonesLeft
  <2>2. LowSize <= ZoneBlock(Zones[1]).size
    <3>1. ZoneBlock(Zones[1]).size \in Int
      <4>1. blocks[1] \in Block
        BY <2>1 DEF TypeInv, TypeOK
      <4>2. QED
        BY <2>1, <4>1 DEF Block, Address
    <3>2. QED
      BY <3>1, PcFacts DEF PcMap
  <2>3. AnyFit(blocks[1])
    <3>1. Top.base = 0 /\ Top.size = LowSize
      BY <1>2, <1>6, WantedFacts
    <3>2. LowSize \in Int /\ blocks[1].size \in Int
      <4>1. blocks[1] \in Block
        BY <2>1 DEF TypeInv, TypeOK
      <4>2. QED
        BY <4>1, PcFacts DEF Block, Address
    <3>3. QED
      BY <2>1, <2>2, <3>1, <3>2 DEF AnyFit
  <2>4. 1 \in Hits
    BY <1>4, <2>1, <2>3 DEF Hits
  <2>5. First(Hits) = 1
    <3>1. First(Hits) \in Hits /\ First(Hits) <= 1
      BY <1>4, <1>5, <2>4, FirstIsIn
    <3>2. QED
      BY <1>4, <1>5, <3>1
  <2>6. Hit = 1
    BY <2>1, <2>5 DEF Hit
  <2>7. QED
    BY <1>2, <1>6, <2>3, <2>4, <2>6 DEF Target
<1>7. CASE phase # "low"
  <2> DEFINE z == KernelZone
  <2>1. /\ z \in 1 .. Len(blocks) /\ blocks[z].type = Available
        /\ blocks[z].base = Wanted(phase).base
        /\ blocks[z].base + blocks[z].size = ZoneEnd
    <3>1. phase \in {"kernel", "caches"}
      BY <1>7 DEF BootPhases
    <3>2. QED
      BY <1>1, <1>3, <3>1, WantedFacts DEF ZonesLeft
  <2>2. /\ Top.base \in Nat /\ Top.size \in Nat /\ Top.base > 0
        /\ Top.base + Top.size < ZoneEnd /\ ZoneEnd \in Nat /\ ZoneEnd < Word
        /\ Top.size > 0
    <3>1. phase \in {"kernel", "caches"}
      BY <1>7 DEF BootPhases
    <3>2. QED
      BY <1>2, <3>1, PcFacts, WantedFacts
  <2>3. EndOf(blocks[z]) = ZoneEnd
    <3>1. ZoneEnd % Word = ZoneEnd
      BY <2>2, WordIsPositive
    <3>2. QED
      BY <2>1, <3>1 DEF EndOf
  <2>4. (Top.base + Top.size) % Word = Top.base + Top.size
    <3>1. \A a \in Nat : a < Word => a % Word = a
      BY WordIsPositive
    <3>2. Top.base + Top.size \in Nat /\ Top.base + Top.size < Word
      BY <2>2, WordIsPositive
    <3>3. QED
      BY <3>1, <3>2
  <2>5. Covers(blocks[z]) /\ \A b : ~AnyFit(b)
    BY <1>2, <2>1, <2>2, <2>3 DEF Covers, AnyFit
  <2>6. Hits # {}
    <3>1. PICK i \in 1 .. Len(order) : order[i] = z
      BY <2>1 DEF TypeInv, LiveReferences
    <3>2. i \in Hits
      BY <1>4, <2>1, <2>5, <3>1 DEF Hits
    <3>3. QED
      BY <3>2
  <2>7. Hit \in 1 .. Len(blocks) /\ blocks[Hit] \in Block /\ Covers(blocks[Hit])
    BY <2>5, <2>6, HitExists
  <2>8. Hit = z
    <3> SUFFICES ASSUME Hit # z PROVE FALSE
      OBVIOUS
    <3>1. Disjoint(blocks[Hit], blocks[z])
      BY <1>4, <2>1, <2>7 DEF MapSound
    <3>2. Top.base >= blocks[Hit].base /\ Top.base < blocks[Hit].base + blocks[Hit].size
      <4>1. Top.base >= blocks[Hit].base /\ Top.base < EndOf(blocks[Hit])
        BY <2>7 DEF Covers
      <4>2. Top.base \in Address
        BY ReserveTop DEF ReservePc
      <4>3. QED
        BY <2>7, <4>1, <4>2, EndInMap
    <3>3. blocks[Hit].base \in Int /\ blocks[Hit].size \in Int
      BY <2>7 DEF Block, Address
    <3>4. blocks[z].base = Top.base /\ blocks[z].base + blocks[z].size > Top.base
          /\ blocks[z].base \in Int /\ blocks[z].size \in Int
      <4>1. blocks[z] \in Block
        BY <2>1 DEF TypeInv, TypeOK
      <4>2. QED
        BY <1>2, <2>1, <2>2, <4>1 DEF Block, Address
    <3>5. QED
      BY <3>1, <3>2, <3>3, <3>4 DEF Disjoint
  <2>9. QED
    BY <1>2, <1>7, <2>1, <2>2, <2>3, <2>4, <2>5, <2>6, <2>8 DEF Target
<1>8. QED
  BY <1>6, <1>7

LEMMA NothingKept == Kept("low") = {} /\ Kept("overflow") = {}
BY DEF Kept

LEMMA InitClaims ==
    ASSUME Init
    PROVE  /\ owned = {} /\ stack = <<>> /\ call.op = "none" /\ phase = "low"
           /\ \A c \in Caches : /\ c \in {"meta", "mmap"} => Len(slabs[c]) = 1
                                /\ c \notin {"meta", "mmap"} => slabs[c] = <<>>
           /\ slabs["mmap"][1].free = Len(Zones)
           /\ Claims = {}
<1>1. /\ owned = {} /\ stack = <<>> /\ call.op = "none" /\ phase = "low"
      /\ slabs = [c \in Caches |->
             CASE c = "meta" ->
                    <<[NewSlab((LastLoaded + CacheSize) % Word, MetaSize, Nmemb)
                         EXCEPT !.free = Nmemb - 1]>>
               [] c = "mmap" ->
                    <<[NewSlab((LastLoaded + (Nmemb + 1) * CacheSize) % Word,
                               Len(Zones) * 2 * MapSize, Len(Zones) * 2)
                         EXCEPT !.free = Len(Zones)]>>
               [] OTHER -> <<>>]
  BY DEF Init, NoCall
<1>2. \A c \in Caches : /\ c \in {"meta", "mmap"} => Len(slabs[c]) = 1
                        /\ c \notin {"meta", "mmap"} => slabs[c] = <<>>
  <2>1. /\ "meta" \in Caches => Len(slabs["meta"]) = 1
        /\ "mmap" \in Caches => Len(slabs["mmap"]) = 1
    BY <1>1
  <2>2. \A c \in Caches : c \notin {"meta", "mmap"} => slabs[c] = <<>>
    BY <1>1
  <2>3. QED
    BY <2>1, <2>2
<1>3. slabs["mmap"][1].free = Len(Zones)
  <2>1. "mmap" \in Caches
    BY DEF Caches
  <2>2. slabs["mmap"] =
           <<[NewSlab((LastLoaded + (Nmemb + 1) * CacheSize) % Word,
                      Len(Zones) * 2 * MapSize, Len(Zones) * 2)
                EXCEPT !.free = Len(Zones)]>>
    BY <1>1, <2>1
  <2>3. QED
    BY <2>2 DEF NewSlab
<1>4. Claims = {}
  <2> SUFFICES ASSUME NEW x \in Claims PROVE FALSE
    OBVIOUS
  <2>1. \/ OfClient(x, owned)
        \/ OfSlab(x, slabs)
        \/ OfCall(x, stack, ret, call, slabs)
    BY DEF Claims
  <2>2. ~OfClient(x, owned)
    BY <1>1 DEF OfClient
  <2>3. ~OfCall(x, stack, ret, call, slabs)
    BY <1>1 DEF OfCall, InHand
  <2>4. ~OfSlab(x, slabs)
    BY <1>2 DEF OfSlab
  <2>5. QED
    BY <2>1, <2>2, <2>3, <2>4
<1>5. QED
  BY <1>1, <1>2, <1>3, <1>4

LEMMA BootInit == ASSUME PcMap, Init PROVE BootInv
<1>1. /\ owned = {} /\ stack = <<>> /\ call.op = "none" /\ phase = "low"
      /\ \A c \in Caches : /\ c \in {"meta", "mmap"} => Len(slabs[c]) = 1
                           /\ c \notin {"meta", "mmap"} => slabs[c] = <<>>
      /\ slabs["mmap"][1].free = Len(Zones) /\ Claims = {}
  BY InitClaims
<1>2. /\ blocks = [i \in 1 .. Len(Zones) |-> ZoneBlock(Zones[i])]
      /\ order = [i \in 1 .. Len(Zones) |-> i]
  BY DEF Init
<1>3. /\ Len(Zones) \in Nat /\ 1 \in 1 .. Len(Zones) /\ KernelZone \in 1 .. Len(Zones)
      /\ Len(blocks) = Len(Zones) /\ Len(order) = Len(Zones)
  BY <1>2, PcFacts DEF PcMap
<1>4. ~Served(stack, call)
  BY <1>1 DEF Served
<1>5. ZonesLeft(blocks, order, stack, call, phase)
  <2>1. /\ order[1] = 1 /\ blocks[1] = ZoneBlock(Zones[1])
        /\ blocks[KernelZone] = ZoneBlock(Zones[KernelZone])
    BY <1>2, <1>3
  <2>2. /\ blocks[KernelZone].base = KernelBase /\ blocks[KernelZone].type = Available
        /\ blocks[KernelZone].base + blocks[KernelZone].size = ZoneEnd
    BY <2>1, PcFacts DEF ZoneEnd
  <2>3. blocks[1].base = 0 /\ blocks[1].type = Available
    BY <2>1 DEF PcMap
  <2>4. QED
    BY <1>1, <1>3, <1>4, <2>1, <2>2, <2>3 DEF ZonesLeft
<1>6. slabs["mmap"][1].free >= Spares("low")
  BY <1>1, <1>3 DEF PcMap, Spares
<1>7. Booting
  <2>1. /\ {"meta", "mmap"} \subseteq Caches
        /\ \A c \in UserCaches : c \in Caches /\ c \notin {"meta", "mmap"}
    BY ClientsAssumption DEF Caches
  <2>2. QED
    BY <1>1, <1>4, <1>5, <1>6, <2>1 DEF Booting, Needed
<1>8. Exclusive(blocks, Claims \cup Kept(phase))
  BY <1>1, NothingKept DEF Exclusive
<1>9. QED
  BY <1>7, <1>8 DEF BootInv

LEMMA SparesAreNumbers ==
    ASSUME NEW p, NEW s, NEW k
    PROVE  /\ Spares(p) \in Nat /\ Spares(p) >= 2
           /\ SparesLeft(p) \in Nat /\ SparesLeft(p) >= 1
           /\ SparesLeft(p) <= Spares(p) /\ Needed(s, k, p) \in Nat
           /\ SparesLeft(p) <= Needed(s, k, p) /\ Needed(s, k, p) <= Spares(p)
<1>1. /\ Spares(p) \in Nat /\ Spares(p) >= 2
      /\ SparesLeft(p) \in Nat /\ SparesLeft(p) >= 1 /\ SparesLeft(p) <= Spares(p)
  BY DEF Spares, SparesLeft
<1>2. QED
  BY <1>1 DEF Needed

(* memory_init runs one call at a time, and finds in its first two caches  *)
(* every descriptor it needs.                                              *)
LEMMA BootSteps ==
    ASSUME PcMap, TypeInv, MapSound, CallShape, Booting, phase \in BootPhases,
           ~starved, ~starved', [Next]_vars
    PROVE  \/ StackOverflow \/ UNCHANGED vars \/ BootCall \/ BootDone
           \/ ReserveEnough \/ ScanExact \/ ScanSplits \/ SplitAlloc \/ SplitLink
           \/ AllocHit
<1>1. phase # "running" /\ call.op \in {"none", "boot"}
  BY DEF BootPhases, Booting
<1>2. ~Client
  BY <1>1 DEF Client, ClientReserve, ClientRelease, ClientNew, ClientAlloc, ClientFree, Idle
<1>3. ~ReserveDone /\ ~NewDone /\ ~AllocDone
  BY <1>1 DEF ReserveDone, NewDone, AllocDone
<1>4. ASSUME stack # <<>>
      PROVE  \/ Top.pc \in {"res_check", "res_scan", "split_alloc", "split_link"}
             \/ Top.pc = "alloc_try" /\ Top.cache = "mmap"
  BY <1>4, BootTop
<1>5. CASE CacheStep
  <2>1. AllocHit \/ AllocRefill \/ AllocMiss
    BY <1>4, <1>5 DEF CacheStep, AllocMeta, AllocOwn, AllocGrow, ExtendAlloc, ExtendLink, At
  <2>2. AllocRefill \/ AllocMiss => Top.cache = "mmap"
    BY <1>4 DEF AllocRefill, AllocMiss, At
  <2>3. ~AllocRefill /\ ~AllocMiss
    BY <2>2 DEF AllocRefill, AllocMiss
  <2>4. QED
    BY <2>1, <2>3
<1>6. CASE MapStep
  <2>1. ~ReserveExtend /\ ~ReserveAgain
    BY <1>4 DEF ReserveExtend, ReserveAgain, At
  <2>2. ~ReserveExtendFirst
    <3> SUFFICES ASSUME ReserveExtendFirst PROVE FALSE
      OBVIOUS
    <3>1. /\ slabs["mmap"][1].free >= Needed(stack, call, phase)
          /\ Len(slabs["mmap"]) = 1 /\ "mmap" \in Caches
      BY DEF Booting, Caches
    <3>2. Needed(stack, call, phase) = Spares(phase)
      <4>1. stack # <<>> /\ stack[1].pc = "res_check"
        BY CallerFacts DEF ReserveExtendFirst, At
      <4>2. QED
        BY <4>1 DEF Needed, Served
    <3>3. slabs["mmap"] \in Seq(Slab) /\ 1 \in DOMAIN slabs["mmap"]
      BY <3>1 DEF TypeInv, TypeOK
    <3>4. slabs["mmap"][1].free \in Int
      <4>1. slabs["mmap"][1] \in Slab
        BY <3>3, ElementOfSeq
      <4>2. QED
        BY <4>1 DEF Slab
    <3>5. slabs["mmap"][1].free > 1
      BY <3>1, <3>2, <3>4, SparesAreNumbers
    <3>6. CacheRemaining("mmap") > 2
      BY <3>1, <3>3, <3>5, RemainingCounts DEF Two
    <3>7. CacheRemaining("mmap") <= 2
      BY DEF ReserveExtendFirst
    <3>8. CacheRemaining("mmap") \in Int
      <4> DEFINE N == Len(slabs["mmap"])
      <4>1. PICK len \in [0 .. N -> Nat] : CacheRemaining("mmap") = len[N]
        BY <3>1, RemainingIsSum
      <4>2. N \in 0 .. N
        BY <3>1
      <4>3. QED
        BY <4>1, <4>2
    <3>9. QED
      BY <3>6, <3>7, <3>8
  <2>3. ~ScanFails /\ ~ScanPrefix
    <3>1. CASE At("res_scan")
      <4>1. /\ Hits # {}
            /\ phase = "low" => AnyFit(blocks[Hit])
            /\ phase # "low" => /\ ~AnyFit(blocks[Hit]) /\ Top.base = blocks[Hit].base
                                /\ (Top.base + Top.size) % Word < EndOf(blocks[Hit])
        BY <3>1, BootHit
      <4>2. (Top.base + Top.size) % Word \in Int /\ EndOf(blocks[Hit]) \in Int
        <5>1. Top.base \in Int /\ Top.size \in Int
          BY <3>1, ReserveTop DEF ReservePc, Address
        <5>2. blocks[Hit].base \in Int /\ blocks[Hit].size \in Int
          BY <4>1, HitExists DEF Block, Address
        <5>3. \A n \in Int : n % Word \in Int
          BY WordIsPositive DEF Address
        <5>4. QED
          BY <5>1, <5>2, <5>3 DEF EndOf
      <4>3. QED
        BY <4>1, <4>2 DEF ScanFails, ScanPrefix
    <3>2. QED
      BY <3>1 DEF ScanFails, ScanPrefix
  <2>4. QED
    BY <1>6, <2>1, <2>2, <2>3 DEF MapStep
<1>7. QED
  BY <1>2, <1>3, <1>5, <1>6 DEF Next, Kernel

-----------------------------------------------------------------------------
(* The steps of memory_init.                                               *)

(* A step that leaves the map and the caches alone.                        *)
LEMMA BootMoves ==
    ASSUME TypeInv, Booting, phase \in BootPhases,
           UNCHANGED <<blocks, order, slabs, owned, phase>>,
           ~Served(stack, call), ~Served(stack', call'), call'.op \in {"none", "boot"},
           Needed(stack', call', phase) <= Needed(stack, call, phase),
           stack' # <<>> => Serving(stack', phase)
    PROVE  Booting'
<1>1. /\ owned = {} /\ \A c \in UserCaches : slabs[c] = <<>>
      /\ Len(slabs["meta"]) = 1 /\ Len(slabs["mmap"]) = 1
      /\ slabs["mmap"][1].free >= Needed(stack, call, phase)
      /\ ZonesLeft(blocks, order, stack, call, phase)
  BY DEF Booting
<1>2. ZonesLeft(blocks, order, stack', call', phase)
  BY <1>1 DEF ZonesLeft
<1>3. slabs["mmap"][1].free \in Int
  <2>1. slabs["mmap"] \in Seq(Slab) /\ 1 \in DOMAIN slabs["mmap"]
    BY <1>1 DEF TypeInv, TypeOK, Caches
  <2>2. slabs["mmap"][1] \in Slab
    BY <2>1, ElementOfSeq
  <2>3. QED
    BY <2>2 DEF Slab
<1>4. slabs["mmap"][1].free >= Needed(stack', call', phase)
  <2>1. Needed(stack', call', phase) \in Nat /\ Needed(stack, call, phase) \in Nat
    BY SparesAreNumbers
  <2>2. QED
    BY <1>1, <1>3, <2>1
<1>5. QED
  BY <1>1, <1>2, <1>4 DEF Booting

LEMMA BootCallBoots ==
    ASSUME PcMap, TypeInv, CallShape, ~starved, Booting, BootCall PROVE Booting'
<1>1. /\ phase \in BootPhases /\ call.op = "none" /\ call'.op = "boot"
      /\ UNCHANGED <<blocks, order, slabs, owned, phase>>
  BY DEF BootCall, NoCall, History
<1>2. stack = <<>>
  BY <1>1, NoCallNoStack
<1>3. PICK f : /\ stack' = <<f>> /\ f.pc = "res_check" /\ f.ext = FALSE
               /\ f.base = Wanted(phase).base /\ f.size = Wanted(phase).size
  <2>1. /\ \A b, n : /\ Reserve(b, n, FALSE).pc = "res_check"
                     /\ Reserve(b, n, FALSE).base = b
                     /\ Reserve(b, n, FALSE).size = n
                     /\ Reserve(b, n, FALSE).ext = FALSE
    BY DEF Reserve
  <2> DEFINE low == Reserve(0, LowSize, FALSE)
             image == Reserve(KernelBase, (LastLoaded - KernelBase) % Word, FALSE)
             data == Reserve(LastLoaded, CacheDataSize, FALSE)
  <2>6. stack' = << CASE phase = "low" -> low
                      [] phase = "kernel" -> image
                      [] phase = "caches" -> data >>
    BY DEF BootCall
  <2>7. (LastLoaded - KernelBase) % Word = LastLoaded - KernelBase
    <3>1. /\ LastLoaded - KernelBase \in Nat /\ LastLoaded - KernelBase < Word
      <4>1. /\ {KernelBase, LastLoaded, CacheDataSize, ZoneEnd, Word} \subseteq Nat
            /\ KernelBase < LastLoaded /\ LastLoaded + CacheDataSize < ZoneEnd
            /\ ZoneEnd < Word
        BY PcFacts, WordIsPositive
      <4>2. QED
        BY <4>1
    <3>2. \A a \in Nat : a < Word => a % Word = a
      BY WordIsPositive
    <3>3. QED
      BY <3>1, <3>2
  <2>8. /\ low.pc = "res_check" /\ low.ext = FALSE
        /\ low.base = Wanted("low").base /\ low.size = Wanted("low").size
    BY <2>1, WantedFacts
  <2>9. /\ image.pc = "res_check" /\ image.ext = FALSE
        /\ image.base = Wanted("kernel").base /\ image.size = Wanted("kernel").size
    BY <2>1, <2>7, WantedFacts
  <2>10. /\ data.pc = "res_check" /\ data.ext = FALSE
         /\ data.base = Wanted("caches").base /\ data.size = Wanted("caches").size
    BY <2>1, WantedFacts
  <2> HIDE DEF low, image, data
  <2>2. CASE phase = "low"
    BY <2>2, <2>6, <2>8
  <2>3. CASE phase = "kernel"
    BY <2>3, <2>6, <2>9
  <2>4. CASE phase = "caches"
    BY <2>4, <2>6, <2>10
  <2>5. QED
    BY <1>1, <2>2, <2>3, <2>4 DEF BootPhases
<1>4. stack' # <<>> /\ Len(stack') = 1 /\ stack'[1] = f
  BY <1>3
<1>5. Serving(stack', phase)
  BY <1>3, <1>4 DEF Serving
<1>6. /\ ~Served(stack, call) /\ ~Served(stack', call')
      /\ Needed(stack', call', phase) = Spares(phase)
      /\ Needed(stack, call, phase) = Spares(phase)
  BY <1>1, <1>2, <1>3, <1>4 DEF Served, Needed
<1>7. QED
  BY <1>1, <1>5, <1>6, BootMoves, SparesAreNumbers

LEMMA BootDoneBoots ==
    ASSUME TypeInv, ~starved, Booting, BootDone PROVE Booting'
<1>1. /\ phase \in BootPhases /\ Served(stack, call) /\ call'.op = "none" /\ stack' = <<>>
      /\ UNCHANGED <<blocks, order, slabs, owned>>
      /\ phase' = CASE phase = "low" -> "kernel"
                    [] phase = "kernel" -> "caches"
                    [] phase = "caches" -> "running"
  BY DEF BootDone, NoCall, History, Served
<1>2. ~Served(stack', call')
  BY <1>1 DEF Served
<1>3. CASE phase = "caches"
  BY <1>1, <1>3 DEF Booting, BootPhases
<1>4. CASE phase # "caches"
  <2>1. \/ phase = "low" /\ phase' = "kernel"
        \/ phase = "kernel" /\ phase' = "caches"
    BY <1>1, <1>4 DEF BootPhases
  <2>2. Needed(stack, call, phase) = Needed(stack', call', phase')
    BY <1>1, <1>2, <2>1 DEF Needed, Spares, SparesLeft
  <2>3. ZonesLeft(blocks, order, stack', call', phase')
    BY <1>1, <1>2, <2>1 DEF Booting, ZonesLeft
  <2>4. QED
    BY <1>1, <1>2, <2>2, <2>3 DEF Booting
<1>5. QED
  BY <1>3, <1>4

LEMMA LoneFrame ==
    ASSUME NEW F, NEW s \in Seq(F), Len(s) = 1, NEW f, NEW g
    PROVE  /\ Tail(s) = <<>> /\ <<f>> \o Tail(s) = <<f>>
           /\ <<g, f>> \o Tail(s) = <<g, f>>
<1>1. Tail(s) = <<>>
  <2>1. s # <<>>
    BY EmptySeq
  <2>2. Tail(s) \in Seq(F) /\ Len(Tail(s)) = 0
    BY <2>1, PoppedStack
  <2>3. QED
    BY <2>2, EmptySeq
<1>2. <<f>> \o <<>> = <<f>> /\ <<g, f>> \o <<>> = <<g, f>>
  OBVIOUS
<1>3. QED
  BY <1>1, <1>2

LEMMA BootCallsBoot ==
    ASSUME PcMap, TypeInv, MapSound, CallShape, ~starved, Booting, phase \in BootPhases,
           ReserveEnough \/ ScanSplits \/ SplitAlloc
    PROVE  Booting'
<1>1. /\ stack # <<>> /\ UNCHANGED <<blocks, order, slabs, owned, phase, call>>
  BY DEF ReserveEnough, ScanSplits, SplitAlloc, At, Control, History
<1>2. /\ Serving(stack, phase) /\ Top = stack[1] /\ stack \in Seq(LiveFrame)
      /\ Len(stack) \in Nat /\ call.op = "boot" /\ ~Served(stack, call)
  BY <1>1, BootTop
<1>3. ASSUME stack' # <<>>, stack'[1].pc # "split_link", stack[1].pc # "split_link",
             Serving(stack', phase)
      PROVE  Booting'
  <2>1. /\ ~Served(stack', call')
        /\ Needed(stack', call', phase) = Spares(phase)
        /\ Needed(stack, call, phase) = Spares(phase)
    BY <1>1, <1>2, <1>3 DEF Served, Needed
  <2>2. QED
    BY <1>1, <1>2, <1>3, <2>1, BootMoves, SparesAreNumbers
<1>4. CASE ReserveEnough
  <2> DEFINE f == [Top EXCEPT !.pc = "res_scan"]
  <2>1. /\ At("res_check") /\ Top \in ReserveFrame /\ Top.pc = "res_check"
    BY <1>4, ReserveTop DEF ReserveEnough, ReservePc, At
  <2>2. f.pc = "res_scan" /\ f.base = Top.base /\ f.size = Top.size /\ f.ext = Top.ext
    BY <2>1 DEF ReserveFrame
  <2>3. /\ Len(stack) = 1 /\ Top.base = Wanted(phase).base /\ Top.size = Wanted(phase).size
        /\ Top.ext = FALSE
    BY <1>2, <2>1 DEF Serving, SplitPc, AllocFrom
  <2>4. stack' = <<f>> \o Tail(stack)
    BY <1>4 DEF ReserveEnough, Goto
  <2> HIDE DEF f
  <2>5. stack' = <<f>>
    BY <1>2, <2>3, <2>4, LoneFrame
  <2>6. Len(stack') = 1 /\ stack'[1] = f /\ stack' # <<>>
    BY <2>5
  <2>7. Serving(stack', phase)
    BY <2>2, <2>3, <2>6 DEF Serving
  <2>8. QED
    BY <1>2, <1>3, <2>1, <2>2, <2>6, <2>7
<1>5. CASE ScanSplits
  <2> DEFINE f == Split(Hit, Top.size)
  <2>1. At("res_scan") /\ Top.pc = "res_scan"
    BY <1>5 DEF ScanSplits, At
  <2>2. Hit = Target(phase) /\ Top.size = Wanted(phase).size
    BY <2>1, BootHit
  <2>3. f.pc = "split_alloc" /\ f.m = Target(phase) /\ f.size = Wanted(phase).size
    BY <2>2 DEF Split
  <2>4. Len(stack) = 1
    BY <1>2, <2>1 DEF Serving, SplitPc, AllocFrom
  <2>5. stack' = <<f>> \o Tail(stack)
    BY <1>5 DEF ScanSplits, Goto
  <2> HIDE DEF f
  <2>6. stack' = <<f>>
    BY <1>2, <2>4, <2>5, LoneFrame
  <2>7. Len(stack') = 1 /\ stack'[1] = f /\ stack' # <<>>
    BY <2>6
  <2>8. Serving(stack', phase)
    BY <2>3, <2>7 DEF Serving, SplitPc
  <2>9. QED
    BY <1>2, <1>3, <2>1, <2>3, <2>7, <2>8
<1>6. CASE SplitAlloc
  <2> DEFINE f == [Top EXCEPT !.pc = "split_link"]
             g == Alloc("mmap", FALSE)
  <2>1. At("split_alloc") /\ Top.pc = "split_alloc"
    BY <1>6 DEF SplitAlloc, At
  <2>2. Len(stack) = 1 /\ Top.m = Target(phase) /\ Top.size = Wanted(phase).size
    BY <1>2, <2>1 DEF Serving, AllocFrom
  <2>3. Top \in SplitFrame
    <3>1. Top \in Frame
      BY <1>1, TopIsLive DEF LiveFrame
    <3>2. QED
      BY <2>1, <3>1, PcGroups DEF SplitPc
  <2>4. f.pc = "split_link" /\ f.m = Top.m /\ f.size = Top.size
    BY <2>3 DEF SplitFrame
  <2>5. g.pc = "alloc_try" /\ AllocFrom(g, "mmap")
    BY DEF Alloc, AllocFrom
  <2>6. stack' = <<g, f>> \o Tail(stack)
    BY <1>6 DEF SplitAlloc, Call
  <2> HIDE DEF f, g
  <2>7. stack' = <<g, f>>
    BY <1>2, <2>2, <2>6, LoneFrame
  <2>8. Len(stack') = 2 /\ stack'[1] = g /\ stack'[2] = f /\ stack' # <<>>
    BY <2>7
  <2>9. Serving(stack', phase)
    BY <2>2, <2>4, <2>5, <2>8 DEF Serving
  <2>10. QED
    BY <1>2, <1>3, <2>1, <2>5, <2>8, <2>9
<1>7. QED
  BY <1>4, <1>5, <1>6

(* A block is split for low memory only when the first zone is larger.     *)
LEMMA LowIsSmaller ==
    ASSUME PcMap, TypeInv, SplitsSound, ~starved, CallShape, Booting, phase = "low",
           stack # <<>>, NEW i \in 1 .. Len(stack), stack[i].pc \in SplitPc
    PROVE  Spares(phase) = 4
<1>1. /\ Serving(stack, phase) /\ ~Served(stack, call) /\ phase \in BootPhases
      /\ Len(stack) \in Nat
  BY BootTop DEF BootPhases
<1>2. stack[i].m = 1 /\ stack[i].size = LowSize
  <2>1. stack[i].m = Target(phase) /\ stack[i].size = Wanted(phase).size
    BY <1>1 DEF Serving, SplitPc, AllocFrom
  <2>2. QED
    BY <2>1, WantedFacts DEF Target
<1>3. stack[i].size < blocks[stack[i].m].size
  BY DEF SplitsSound
<1>4. blocks[1].size = ZoneBlock(Zones[1]).size /\ 1 \in 1 .. Len(blocks)
  BY <1>1 DEF Booting, ZonesLeft
<1>5. ZoneBlock(Zones[1]).size \in Int /\ LowSize \in Int
  <2>1. blocks[1] \in Block
    BY <1>4 DEF TypeInv, TypeOK
  <2>2. QED
    BY <1>4, <2>1, PcFacts DEF Block, Address
<1>6. LowSize # ZoneBlock(Zones[1]).size
  BY <1>2, <1>3, <1>4, <1>5
<1>7. QED
  BY <1>6 DEF Spares

LEMMA BootAllocBoots ==
    ASSUME PcMap, TypeInv, SplitsSound, CallShape, ~starved, Booting, phase \in BootPhases,
           AllocHit
    PROVE  Booting'
<1>1. /\ stack # <<>> /\ stack' = Tail(stack) /\ Top.pc = "alloc_try" /\ Top.cache \in Caches
      /\ UNCHANGED <<blocks, order, call, phase, owned>> /\ SameSlabs
      /\ \E i \in 1 .. Len(slabs[Top.cache]) :
            /\ slabs[Top.cache][i].free > 0
            /\ \A d \in Caches : \A j \in 1 .. Len(slabs[d]) : slabs'[d][j].free =
                  IF d = Top.cache /\ j = i THEN slabs[d][j].free - 1
                                            ELSE slabs[d][j].free
  BY AllocHitEffect
<1>2. /\ Serving(stack, phase) /\ Top = stack[1] /\ stack \in Seq(LiveFrame)
      /\ Len(stack) \in Nat /\ call.op = "boot" /\ ~Served(stack, call)
  BY <1>1, BootTop
<1>3. /\ Len(stack) = 2 /\ stack[2].pc = "split_link" /\ stack[2].m = Target(phase)
      /\ stack[2].size = Wanted(phase).size
  BY <1>1, <1>2 DEF Serving, SplitPc
<1>4. stack' # <<>> /\ Len(stack') = 1 /\ stack'[1] = stack[2]
  <2>1. /\ Len(Tail(stack)) = 1 /\ Tail(stack)[1] = stack[2]
    BY <1>1, <1>2, <1>3, PoppedStack, SMTT(30)
  <2>2. Len(<<>>) = 0
    BY EmptySeq
  <2>3. Tail(stack) # <<>>
    <3>1. Len(Tail(stack)) # 0
      BY <2>1
    <3>2. QED
      BY <2>2, <3>1, Zenon
  <2>4. QED
    BY <1>1, <2>1, <2>3
<1>5. Serving(stack', phase)
  BY <1>3, <1>4 DEF Serving, SplitPc
<1>6. /\ ~Served(stack', call') /\ Needed(stack', call', phase) = SparesLeft(phase)
      /\ Needed(stack, call, phase) = Spares(phase)
  BY <1>1, <1>2, <1>3, <1>4 DEF Served, Needed
<1>7. SparesLeft(phase) + 1 <= Spares(phase)
  <2>1. CASE phase = "low"
    <3>1. Spares(phase) = 4
      BY <1>1, <1>3, <2>1, LowIsSmaller DEF SplitPc
    <3>2. QED
      BY <2>1, <3>1 DEF SparesLeft
  <2>2. CASE phase # "low"
    BY <2>2 DEF Spares, SparesLeft, BootPhases
  <2>3. QED
    BY <2>1, <2>2
<1>8. slabs'["mmap"][1].free >= SparesLeft(phase)
  <2>1. /\ "mmap" \in Caches /\ Len(slabs["mmap"]) = 1
        /\ slabs["mmap"][1].free >= Spares(phase)
    BY <1>6 DEF Caches, Booting
  <2>2. slabs["mmap"][1].free \in Int
    <3>1. slabs["mmap"] \in Seq(Slab) /\ 1 \in DOMAIN slabs["mmap"]
      BY <2>1 DEF TypeInv, TypeOK
    <3>2. slabs["mmap"][1] \in Slab
      BY <3>1, ElementOfSeq
    <3>3. QED
      BY <3>2 DEF Slab
  <2>3. 1 \in 1 .. Len(slabs["mmap"])
    BY <2>1
  <2>4. \/ slabs'["mmap"][1].free = slabs["mmap"][1].free - 1
        \/ slabs'["mmap"][1].free = slabs["mmap"][1].free
    BY <1>1, <2>1, <2>3
  <2>5. QED
    BY <1>7, <2>1, <2>2, <2>4, SparesAreNumbers
<1>9. /\ \A c \in UserCaches : slabs'[c] = <<>>
      /\ Len(slabs'["meta"]) = 1 /\ Len(slabs'["mmap"]) = 1
  <2>1. /\ \A c \in UserCaches : slabs[c] = <<>> /\ c \in Caches
        /\ Len(slabs["meta"]) = 1 /\ Len(slabs["mmap"]) = 1
        /\ {"meta", "mmap"} \subseteq Caches
    BY DEF Booting, Caches
  <2>2. \A c \in Caches : slabs'[c] \in Seq(Slab) /\ Len(slabs'[c]) = Len(slabs[c])
    <3>1. TypeInv'
      BY AllocHitKeepsTypes
    <3>2. QED
      BY <1>1, <3>1 DEF TypeInv, TypeOK, SameSlabs
  <2>3. QED
    BY <2>1, <2>2, EmptySeq
<1>10. ZonesLeft(blocks, order, stack', call', phase)
  BY <1>2, <1>6 DEF Booting, ZonesLeft
<1>11. owned' = {} /\ call'.op \in {"none", "boot"}
  BY <1>1 DEF Booting
<1>12. QED
  BY <1>1, <1>5, <1>6, <1>8, <1>9, <1>10, <1>11 DEF Booting

LEMMA FirstOnList ==
    ASSUME TypeInv, NEW d \in 1 .. Len(blocks)
    PROVE  1 \in 1 .. Len(order)
<1>1. PICK i \in 1 .. Len(order) : order[i] = d
  BY DEF TypeInv, LiveReferences
<1>2. Len(order) \in Nat
  BY DEF TypeInv, TypeOK
<1>3. QED
  BY <1>1, <1>2

LEMMA BootSplitBoots ==
    ASSUME PcMap, TypeInv, TypeInv', MapSound, SplitsSound, CallShape, ~starved, Booting,
           phase \in BootPhases, SplitLink
    PROVE  Booting'
<1> DEFINE z == KernelZone
<1>1. /\ stack # <<>> /\ Top \in SplitFrame /\ Top.m \in 1 .. Len(blocks)
      /\ blocks[Top.m] \in Block
      /\ Len(blocks) \in Nat /\ Len(blocks)' = Len(blocks) + 1
      /\ \A d \in 1 .. Len(blocks) : blocks'[d] =
             IF d = Top.m THEN Shrink(blocks[d], Top.size) ELSE blocks[d]
  BY SplitLinkEffect
<1>2. /\ Top.size > 0 => Backed(blocks', blocks[Top.m].base, Top.size)
      /\ blocks[Top.m].type = Available
      /\ Top.pc = "split_link" /\ stack' = Tail(stack)
      /\ UNCHANGED <<slabs, call, owned>>
  BY SplitLinkKeepsBlocks
<1>3. /\ Serving(stack, phase) /\ Top = stack[1] /\ stack \in Seq(LiveFrame)
      /\ Len(stack) \in Nat /\ call.op = "boot" /\ ~Served(stack, call)
  BY <1>1, BootTop
<1>4. Len(stack) = 1 /\ Top.m = Target(phase) /\ Top.size = Wanted(phase).size
  BY <1>2, <1>3 DEF Serving, SplitPc, AllocFrom
<1>5. stack' = <<>> /\ Served(stack', call') /\ phase' = phase
  BY <1>2, <1>3, <1>4, LoneFrame DEF Served, SplitLink, Control
<1>6. ZonesLeft(blocks, order, stack, call, phase)
  BY DEF Booting
<1>7. /\ Needed(stack', call', phase) = SparesLeft(phase)
      /\ Needed(stack, call, phase) = SparesLeft(phase)
  BY <1>1, <1>2, <1>3, <1>5 DEF Needed
<1>8. /\ Shrink(blocks[Top.m], Top.size).base = blocks[Top.m].base + Top.size
      /\ Shrink(blocks[Top.m], Top.size).size = blocks[Top.m].size - Top.size
      /\ Shrink(blocks[Top.m], Top.size).type = blocks[Top.m].type
  <2>1. Top.size < blocks[Top.m].size /\ blocks[Top.m].base + blocks[Top.m].size <= Word
    <3>1. 1 \in 1 .. Len(stack)
      BY <1>4
    <3>2. DOMAIN blocks = 1 .. Len(blocks)
      BY DEF TypeInv, TypeOK
    <3>3. QED
      BY <1>1, <1>2, <1>3, <3>1, <3>2 DEF SplitsSound, SplitPc, MapSound
  <2>2. Shrink(blocks[Top.m], Top.size).type = blocks[Top.m].type
    BY <1>1 DEF Shrink, Block
  <2>3. Top.size \in Address
    BY <1>1 DEF SplitFrame
  <2>4. QED
    BY <1>1, <2>1, <2>2, <2>3, SplitParts
<1>9. z \in 1 .. Len(blocks) /\ z # 1 /\ 1 \in 1 .. Len(blocks)
  BY <1>6, PcFacts DEF ZonesLeft
<1>10. blocks[Top.m].base = Wanted(phase).base
  <2>1. CASE phase = "low"
    BY <1>3, <1>4, <1>6, <2>1, WantedFacts DEF ZonesLeft, Target
  <2>2. CASE phase # "low"
    <3>1. phase \in {"kernel", "caches"}
      BY <2>2 DEF BootPhases
    <3>2. QED
      BY <1>3, <1>4, <1>6, <3>1, WantedFacts DEF ZonesLeft, Target
  <2>3. QED
    BY <2>1, <2>2
<1>11. Backed(blocks', Wanted(phase).base, Wanted(phase).size)
  BY <1>2, <1>4, <1>10, WantedFacts
<1>12. ZonesLeft(blocks', order', stack', call', phase)
  <2>1. z \in 1 .. Len(blocks') /\ 1 \in 1 .. Len(blocks')
    BY <1>1, <1>9
  <2>2. 1 \in 1 .. Len(order')
    <3>1. Len(order') \in Nat /\ \E i \in 1 .. Len(order') : TRUE
      BY <2>1 DEF TypeInv, TypeOK, LiveReferences
    <3>2. QED
      BY <3>1
  <2>3. CASE phase = "low"
    <3>1. blocks'[z] = blocks[z]
      BY <1>1, <1>4, <1>9, <2>3 DEF Target
    <3>2. QED
      BY <1>5, <1>6, <2>1, <2>2, <2>3, <3>1 DEF ZonesLeft
  <2>4. CASE phase = "kernel"
    <3>1. Top.m = z /\ blocks'[z] = Shrink(blocks[z], Top.size)
      BY <1>1, <1>4, <1>9, <2>4 DEF Target
    <3>2. /\ blocks[z].base = KernelBase /\ blocks[z].base + blocks[z].size = ZoneEnd
          /\ blocks[z].type = Available
      BY <1>3, <1>6, <2>4 DEF ZonesLeft
    <3>3. Top.size = LastLoaded - KernelBase
      BY <1>4, <2>4, WantedFacts
    <3>4. /\ blocks[z].base \in Int /\ blocks[z].size \in Int
          /\ LastLoaded \in Int /\ KernelBase \in Int
      BY <1>1, <3>1, PcFacts DEF Block, Address
    <3>5. /\ blocks'[z].base = LastLoaded /\ blocks'[z].type = Available
          /\ blocks'[z].base + blocks'[z].size = ZoneEnd
      BY <1>8, <3>1, <3>2, <3>3, <3>4
    <3>6. QED
      BY <1>5, <2>1, <2>2, <2>4, <3>5 DEF ZonesLeft
  <2>5. CASE phase = "caches"
    BY <1>5, <2>1, <2>2, <2>5 DEF ZonesLeft
  <2>6. QED
    BY <2>3, <2>4, <2>5 DEF BootPhases
<1>13. QED
  BY <1>2, <1>3, <1>5, <1>7, <1>11, <1>12 DEF Booting

LEMMA BootScanBoots ==
    ASSUME PcMap, TypeInv, TypeInv', MapSound, CallShape, ~starved, Booting,
           phase \in BootPhases, ScanExact
    PROVE  Booting'
<1> DEFINE z == KernelZone
           h == Hit
<1>1. /\ Hit \in 1 .. Len(blocks) /\ stack # <<>> /\ Top.pc = "res_scan" /\ At("res_scan")
      /\ stack' = Tail(stack) /\ UNCHANGED <<slabs, call, owned, phase, order>>
      /\ Top.size > 0 => Backed(blocks', blocks[Hit].base, Top.size)
      /\ AnyFit(blocks[Hit]) /\ blocks' = [blocks EXCEPT ![Hit].type = Reserved]
  BY ScanExactKeepsBlocks DEF ScanExact, Control
<1>2. /\ Serving(stack, phase) /\ Top = stack[1] /\ stack \in Seq(LiveFrame)
      /\ Len(stack) \in Nat /\ call.op = "boot" /\ ~Served(stack, call)
  BY <1>1, BootTop
<1>3. /\ phase = "low" /\ h = 1 /\ Top.size = LowSize
  <2>1. /\ phase = "low" /\ Hit = Target(phase) /\ Top.size = Wanted(phase).size
    BY <1>1, BootHit
  <2>2. QED
    BY <2>1, WantedFacts DEF Target
<1>4. Len(stack) = 1
  BY <1>1, <1>2 DEF Serving, SplitPc, AllocFrom
<1>5. stack' = <<>> /\ Served(stack', call')
  BY <1>1, <1>2, <1>4, LoneFrame DEF Served
<1>6. ZonesLeft(blocks, order, stack, call, phase)
  BY DEF Booting
<1>7. z \in 1 .. Len(blocks) /\ z # 1 /\ 1 \in 1 .. Len(blocks) /\ 1 \in 1 .. Len(order)
  BY <1>6, PcFacts DEF ZonesLeft
<1>8. /\ Len(blocks') = Len(blocks)
      /\ \A e \in 1 .. Len(blocks) :
            /\ blocks'[e].base = blocks[e].base
            /\ blocks'[e].size = blocks[e].size
            /\ blocks'[e].type = IF e = Hit THEN Reserved ELSE blocks[e].type
  BY <1>1, RetypedBlocks DEF Reserved
<1> HIDE DEF h
<1>9. ZonesLeft(blocks', order', stack', call', phase)
  <2>1. /\ blocks[z].type = Available /\ blocks[z].base = KernelBase
        /\ blocks[z].base + blocks[z].size = ZoneEnd
    BY <1>2, <1>3, <1>6 DEF ZonesLeft
  <2>2. /\ blocks'[z].type = Available /\ blocks'[z].base = KernelBase
        /\ blocks'[z].base + blocks'[z].size = ZoneEnd
    BY <1>3, <1>7, <1>8, <2>1 DEF h
  <2>3. QED
    BY <1>1, <1>3, <1>5, <1>7, <1>8, <2>2 DEF ZonesLeft
<1>10. Backed(blocks', Wanted(phase).base, Wanted(phase).size)
  <2>1. blocks[1].base = 0
    BY <1>2, <1>3, <1>6 DEF ZonesLeft
  <2>2. Top.size > 0
    BY <1>3, PcFacts
  <2>3. QED
    BY <1>1, <1>3, <2>1, <2>2, WantedFacts DEF h
<1>11. slabs["mmap"][1].free >= SparesLeft(phase)
  <2>1. Needed(stack, call, phase) = Spares(phase)
    BY <1>1, <1>2 DEF Needed
  <2>2. /\ "mmap" \in Caches /\ Len(slabs["mmap"]) = 1
        /\ slabs["mmap"][1].free >= Spares(phase)
    BY <2>1 DEF Caches, Booting
  <2>3. slabs["mmap"][1].free \in Int
    <3>1. slabs["mmap"] \in Seq(Slab) /\ 1 \in DOMAIN slabs["mmap"]
      BY <2>2 DEF TypeInv, TypeOK
    <3>2. slabs["mmap"][1] \in Slab
      BY <3>1, ElementOfSeq
    <3>3. QED
      BY <3>2 DEF Slab
  <2>4. QED
    BY <2>2, <2>3, SparesAreNumbers
<1>12. Needed(stack', call', phase) = SparesLeft(phase)
  BY <1>5 DEF Needed
<1>13. QED
  BY <1>1, <1>2, <1>5, <1>9, <1>10, <1>11, <1>12 DEF Booting

LEMMA PhaseSteps ==
    ASSUME [Next]_vars PROVE phase' = phase \/ StackOverflow \/ BootDone
<1>1. CASE CacheStep
  BY <1>1 DEF CacheStep, AllocHit, AllocRefill, AllocMiss, AllocMeta, AllocOwn,
              AllocGrow, ExtendAlloc, ExtendLink, Control
<1>2. CASE MapStep
  BY <1>2 DEF MapStep, SplitAlloc, SplitLink, ReserveExtendFirst, ReserveEnough,
              ReserveExtend, ScanFails, ScanExact, ScanSplits, ScanPrefix, ReserveAgain,
              Control
<1>3. CASE StackOverflow \/ BootCall \/ BootDone \/ ReserveDone \/ NewDone \/ AllocDone
  BY <1>3 DEF BootCall, ReserveDone, NewDone, AllocDone
<1>4. CASE Client \/ UNCHANGED vars
  BY <1>4 DEF Client, ClientReserve, ClientRelease, ClientNew, ClientAlloc, ClientFree,
              Control, vars
<1>5. QED
  BY <1>1, <1>2, <1>3, <1>4 DEF Next, Kernel

LEMMA BootingStep ==
    ASSUME PcMap, MapInv, CallShape, Booting, ~starved, ~starved', [Next]_vars
    PROVE  Booting'
<1>1. TypeInv /\ TypeInv' /\ MapSound /\ SplitsSound
  BY TypeStep DEF MapInv
<1>2. CASE phase \notin BootPhases
  <2>1. phase' = phase \/ phase' = "overflow"
    BY <1>2, PhaseSteps DEF StackOverflow, BootDone
  <2>2. phase' \notin BootPhases
    BY <1>2, <2>1 DEF BootPhases
  <2>3. QED
    BY <2>2 DEF Booting
<1>3. CASE phase \in BootPhases
  <2>1. CASE StackOverflow
    BY <2>1 DEF StackOverflow, Booting, BootPhases
  <2>2. CASE UNCHANGED vars
    BY <2>2 DEF vars, Booting
  <2>3. CASE BootCall
    BY <1>1, <2>3, BootCallBoots
  <2>4. CASE BootDone
    BY <1>1, <2>4, BootDoneBoots
  <2>5. CASE ReserveEnough \/ ScanSplits \/ SplitAlloc
    BY <1>1, <1>3, <2>5, BootCallsBoot
  <2>6. CASE ScanExact
    BY <1>1, <1>3, <2>6, BootScanBoots
  <2>7. CASE SplitLink
    BY <1>1, <1>3, <2>7, BootSplitBoots
  <2>8. CASE AllocHit
    BY <1>1, <1>3, <2>8, BootAllocBoots
  <2>9. QED
    BY <1>1, <1>3, <2>1, <2>2, <2>3, <2>4, <2>5, <2>6, <2>7, <2>8, BootSteps
<1>4. QED
  BY <1>2, <1>3

(* memory_init's calls claim nothing besides the areas it keeps.           *)
LEMMA BootClaimsNothing ==
    ASSUME TypeInv, Booting, BootDone
    PROVE  Claims' = {}
<1>1. /\ owned = {} /\ \A c \in UserCaches : slabs[c] = <<>>
      /\ Len(slabs["meta"]) = 1 /\ Len(slabs["mmap"]) = 1
      /\ UNCHANGED <<slabs, owned>> /\ stack' = <<>> /\ call'.op = "none"
  BY DEF Booting, BootDone, NoCall, History
<1> SUFFICES ASSUME NEW x \in Claims' PROVE FALSE
  OBVIOUS
<1>2. \/ OfClient(x, owned')
      \/ OfSlab(x, slabs')
      \/ OfCall(x, stack', ret', call', slabs')
  BY DEF Claims
<1>3. ~OfClient(x, owned')
  BY <1>1 DEF OfClient
<1>4. ~OfCall(x, stack', ret', call', slabs')
  BY <1>1 DEF OfCall, InHand
<1>5. ~OfSlab(x, slabs')
  <2>1. Len(<<>>) = 0
    BY EmptySeq
  <2>2. \A c \in UserCaches : Len(slabs[c]) = 0
    BY <1>1, <2>1
  <2> SUFFICES ASSUME OfSlab(x, slabs) PROVE FALSE
    BY <1>1
  <2>3. /\ x.user \in Caches /\ x.slot \in 1 .. Len(slabs[x.user])
        /\ x.slot = 1 => x.user \notin {"meta", "mmap"}
    BY DEF OfSlab
  <2>4. x.user \in UserCaches
    <3>1. ASSUME x.user \in {"meta", "mmap"} PROVE FALSE
      <4>1. Len(slabs[x.user]) = 1
        BY <1>1, <3>1
      <4>2. x.slot = 1
        BY <2>3, <4>1
      <4>3. QED
        BY <2>3, <3>1, <4>2
    <3>2. QED
      BY <2>3, <3>1 DEF Caches
  <2>5. QED
    BY <2>2, <2>3, <2>4
<1>6. QED
  BY <1>2, <1>3, <1>4, <1>5

LEMMA KeptAreas ==
    ASSUME PcMap, NEW p \in BootPhases, NEW q,
           q = CASE p = "low" -> "kernel"
                 [] p = "kernel" -> "caches"
                 [] p = "caches" -> "running"
    PROVE  /\ Kept(q) = Kept(p) \cup {Wanted(p)}
           /\ \A x \in Kept(p) : x.base # Wanted(p).base
           /\ BootSet(Kept(p))
<1>1. /\ LowClaim.base = 0 /\ ImageClaim.base = KernelBase /\ DataClaim.base = LastLoaded
      /\ LowClaim.user = "boot" /\ ImageClaim.user = "boot" /\ DataClaim.user = "boot"
  BY DEF LowClaim, ImageClaim, DataClaim
<1>2. /\ Kept("low") = {} /\ Kept("kernel") = {LowClaim}
      /\ Kept("caches") = {LowClaim, ImageClaim}
      /\ Kept("running") = {LowClaim, ImageClaim, DataClaim}
  BY <1>1 DEF Kept
<1>3. /\ Wanted("low") = LowClaim /\ Wanted("kernel") = ImageClaim
      /\ Wanted("caches") = DataClaim
  BY DEF Wanted
<1>4. 0 # KernelBase /\ 0 # LastLoaded /\ KernelBase # LastLoaded
  BY PcFacts
<1>5. QED
  BY <1>1, <1>2, <1>3, <1>4 DEF BootPhases, BootSet

LEMMA KeptIsBoot == \A p : BootSet(Kept(p))
BY DEF Kept, BootSet, LowClaim, ImageClaim, DataClaim

LEMMA BootInvStep ==
    ASSUME PcMap, OwnInv, BootInv, [Next]_vars
    PROVE  BootInv'
<1>1. CASE starved'
  BY <1>1 DEF BootInv
<1>2. CASE ~starved'
  <2>1. /\ ~starved /\ Booting /\ Exclusive(blocks, Claims \cup Kept(phase))
        /\ MapInv /\ CallShape /\ Grounded
    BY <1>2, StarvedStays DEF OwnInv, Ownership, BootInv
  <2>2. Booting'
    BY <1>2, <2>1, BootingStep
  <2>3. ASSUME NEW K, BootSet(K), Exclusive(blocks, Claims \cup K)
        PROVE  Exclusive(blocks', Claims' \cup K)
    BY <1>2, <2>1, <2>3, ClaimsStep
  <2>4. PICK K : K = Kept(phase)
    OBVIOUS
  <2>5. Exclusive(blocks', Claims' \cup K) /\ BootSet(K)
    BY <2>1, <2>3, <2>4, KeptIsBoot
  <2>6. CASE phase' = phase
    <3>1. Kept(phase') = K
      BY <2>4, <2>6
    <3>2. QED
      BY <2>2, <2>5, <3>1 DEF BootInv
  <2>7. CASE StackOverflow
    <3>1. Kept(phase') = {}
      BY <2>7, NothingKept DEF StackOverflow
    <3>2. Exclusive(blocks', Claims' \cup Kept(phase'))
      BY <2>5, <3>1 DEF Exclusive
    <3>3. QED
      BY <2>2, <3>2 DEF BootInv
  <2>8. CASE BootDone
    <3>1. TypeInv
      BY <2>1 DEF MapInv
    <3>2. Claims' = {}
      BY <2>1, <2>8, <3>1, BootClaimsNothing
    <3>3. PICK y : y = Wanted(phase)
      OBVIOUS
    <3>4. Kept(phase') = K \cup {y} /\ \A x \in K : x.base # y.base
      BY <2>4, <2>8, <3>3, KeptAreas DEF BootDone
    <3>5. Backed(blocks', y.base, y.size)
      <4>1. Served(stack, call) /\ phase \in BootPhases /\ blocks' = blocks
        BY <2>8 DEF BootDone, Served
      <4>2. QED
        BY <2>1, <3>3, <4>1 DEF Booting
    <3>6. Exclusive(blocks', Claims' \cup Kept(phase'))
      BY <2>5, <3>2, <3>4, <3>5 DEF Exclusive
    <3>7. QED
      BY <2>2, <3>6 DEF BootInv
  <2>9. QED
    BY <2>6, <2>7, <2>8, PhaseSteps
<1>3. QED
  BY <1>1, <1>2

(* On such a machine memory_init's three reservations succeed, and what it *)
(* has reserved stays a block that no client, no slab and no call is given.*)
THEOREM BootReserves ==
    SaneMap /\ NoWrap /\ PcMap /\ Spec => [](OwnInv /\ BootInv)
<1> SUFFICES ASSUME SaneMap, NoWrap, PcMap PROVE Spec => [](OwnInv /\ BootInv)
  OBVIOUS
<1>1. Init => BootInv
  BY BootInit
<1>2. OwnInv /\ BootInv /\ [Next]_vars => BootInv'
  BY BootInvStep
<1>3. Spec => []OwnInv
  BY OwnersHoldBlocks
<1>4. QED
  BY <1>1, <1>2, <1>3, PTL DEF Spec

-----------------------------------------------------------------------------
(* What it means for those who use the memory.                             *)

(* The claim of a user, as UsersDisjoint names users.                      *)
ClaimOf(u, c) ==
    \/ u = <<"boot", LowMemory>> /\ c = LowClaim
    \/ u = <<"boot", KernelImage>> /\ c = ImageClaim
    \/ u = <<"boot", CacheData>> /\ c = DataClaim
    \/ \E r \in owned :
          /\ u = <<"client", r>>
          /\ c = [user |-> "client", slot |-> 0, base |-> r.base, size |-> r.size]
    \/ \E k \in Caches : \E i \in DOMAIN slabs[k] :
          /\ u = <<"slab", k, i>>
          /\ c = [user |-> k, slot |-> i, base |-> slabs[k][i].base,
                  size |-> slabs[k][i].size]

LEMMA UserClaims ==
    ASSUME TypeInv, Grounded, nullSlab = FALSE, NEW u \in Users
    PROVE  \E c \in Claims \cup Kept("running") :
              /\ ClaimOf(u, c) /\ c.base = Extent(u).base /\ c.size = Extent(u).size
<1>1. CASE u \in {<<"boot", LowMemory>>, <<"boot", KernelImage>>, <<"boot", CacheData>>}
  <2>1. {LowClaim, ImageClaim, DataClaim} = Kept("running")
    BY DEF Kept
  <2>2. Extent(u) = u[2]
    BY <1>1 DEF Extent
  <2>3. CASE u = <<"boot", LowMemory>>
    <3>1. LowClaim.base = Extent(u).base /\ LowClaim.size = Extent(u).size
      BY <2>2, <2>3 DEF LowClaim, LowMemory
    <3>2. QED
      BY <2>1, <2>3, <3>1 DEF ClaimOf
  <2>4. CASE u = <<"boot", KernelImage>>
    <3>1. ImageClaim.base = Extent(u).base /\ ImageClaim.size = Extent(u).size
      BY <2>2, <2>4 DEF ImageClaim, KernelImage
    <3>2. QED
      BY <2>1, <2>4, <3>1 DEF ClaimOf
  <2>5. CASE u = <<"boot", CacheData>>
    <3>1. DataClaim.base = Extent(u).base /\ DataClaim.size = Extent(u).size
      BY <2>2, <2>5 DEF DataClaim, CacheData
    <3>2. QED
      BY <2>1, <2>5, <3>1 DEF ClaimOf
  <2>6. QED
    BY <1>1, <2>3, <2>4, <2>5
<1>2. ASSUME NEW r \in owned, u = <<"client", r>>
      PROVE  \E c \in Claims : /\ ClaimOf(u, c) /\ c.base = Extent(u).base
                               /\ c.size = Extent(u).size
  <2> DEFINE c == [user |-> "client", slot |-> 0, base |-> r.base, size |-> r.size]
  <2>1. r \in [base : Address, size : Address] /\ r.base # NULL
    BY DEF TypeInv, TypeOK, Grounded
  <2>2. r = [base |-> r.base, size |-> r.size] /\ r.base \in Address /\ r.size \in Address
    BY <2>1
  <2>3. c \in Claim
    BY <2>2 DEF Claim
  <2>4. OfClient(c, owned)
    BY <2>2 DEF OfClient
  <2>5. c \in Claims
    BY <2>1, <2>3, <2>4 DEF Claims
  <2>6. Extent(u) = r
    BY <1>2 DEF Extent
  <2>7. ClaimOf(u, c)
    BY <1>2 DEF ClaimOf
  <2>8. QED
    BY <2>5, <2>6, <2>7
<1>3. ASSUME u \in SlabsInUse
      PROVE  \E c \in Claims : /\ ClaimOf(u, c) /\ c.base = Extent(u).base
                               /\ c.size = Extent(u).size
  <2>1. PICK k \in Caches : \E i \in DOMAIN slabs[k] : u = <<"slab", k, i>>
    BY <1>3 DEF SlabsInUse
  <2>2. PICK i \in DOMAIN slabs[k] : u = <<"slab", k, i>>
    BY <2>1
  <2>3. u # <<"slab", "meta", 1>> /\ u # <<"slab", "mmap", 1>>
    BY <1>3 DEF SlabsInUse
  <2>4. i = 1 => k \notin {"meta", "mmap"}
    BY <2>2, <2>3
  <2>5. slabs[k] \in Seq(Slab) /\ i \in 1 .. Len(slabs[k]) /\ i \in Nat
    BY DEF TypeInv, TypeOK
  <2>6. slabs[k][i].base \in Address /\ slabs[k][i].size \in Address
    <3>1. slabs[k][i] \in Slab
      BY <2>5, ElementOfSeq
    <3>2. QED
      BY <3>1 DEF Slab
  <2>7. slabs[k][i].base # NULL
    BY <2>4, <2>5 DEF Grounded
  <2> DEFINE c == [user |-> k, slot |-> i, base |-> slabs[k][i].base,
                   size |-> slabs[k][i].size]
  <2>8. c \in Claim
    BY <2>5, <2>6 DEF Claim
  <2>9. OfSlab(c, slabs)
    BY <2>4, <2>5 DEF OfSlab
  <2>10. c \in Claims
    BY <2>7, <2>8, <2>9 DEF Claims
  <2>11. Extent(u) = slabs[k][i]
    BY <2>2 DEF Extent
  <2>12. ClaimOf(u, c)
    BY <2>2 DEF ClaimOf
  <2>13. QED
    BY <2>10, <2>11, <2>12
<1>4. QED
  BY <1>1, <1>2, <1>3 DEF Users

(* Two users do not share a claim.                                         *)
LEMMA ClaimTellsUser ==
    ASSUME PcMap, TypeInv, NEW u, NEW v, NEW c, ClaimOf(u, c), ClaimOf(v, c)
    PROVE  u = v
<1>1. ASSUME NEW w, ClaimOf(w, c)
      PROVE  \/ /\ c.slot = 0 /\ c.user = "boot"
                /\ \/ c.base = 0 /\ w = <<"boot", LowMemory>>
                   \/ c.base = KernelBase /\ w = <<"boot", KernelImage>>
                   \/ c.base = LastLoaded /\ w = <<"boot", CacheData>>
             \/ /\ c.slot = 0 /\ c.user = "client"
                /\ w = <<"client", [base |-> c.base, size |-> c.size]>>
             \/ c.slot # 0 /\ w = <<"slab", c.user, c.slot>>
  <2>1. /\ LowClaim.user = "boot" /\ ImageClaim.user = "boot" /\ DataClaim.user = "boot"
        /\ LowClaim.slot = 0 /\ ImageClaim.slot = 0 /\ DataClaim.slot = 0
        /\ LowClaim.base = 0 /\ ImageClaim.base = KernelBase /\ DataClaim.base = LastLoaded
    BY DEF LowClaim, ImageClaim, DataClaim
  <2>2. CASE \E r \in owned :
                /\ w = <<"client", r>>
                /\ c = [user |-> "client", slot |-> 0, base |-> r.base, size |-> r.size]
    <3>1. PICK r \in owned :
                /\ w = <<"client", r>>
                /\ c = [user |-> "client", slot |-> 0, base |-> r.base, size |-> r.size]
      BY <2>2
    <3>2. r = [base |-> r.base, size |-> r.size]
      BY DEF TypeInv, TypeOK
    <3>3. c.slot = 0 /\ c.user = "client" /\ c.base = r.base /\ c.size = r.size
      BY <3>1
    <3>4. QED
      BY <3>1, <3>2, <3>3
  <2>3. CASE \E k \in Caches : \E i \in DOMAIN slabs[k] :
                /\ w = <<"slab", k, i>>
                /\ c = [user |-> k, slot |-> i, base |-> slabs[k][i].base,
                        size |-> slabs[k][i].size]
    <3>1. PICK k \in Caches : \E i \in DOMAIN slabs[k] :
                /\ w = <<"slab", k, i>>
                /\ c = [user |-> k, slot |-> i, base |-> slabs[k][i].base,
                        size |-> slabs[k][i].size]
      BY <2>3
    <3>2. PICK i \in DOMAIN slabs[k] :
                /\ w = <<"slab", k, i>>
                /\ c = [user |-> k, slot |-> i, base |-> slabs[k][i].base,
                        size |-> slabs[k][i].size]
      BY <3>1
    <3>3. i # 0
      <4>1. DOMAIN slabs[k] = 1 .. Len(slabs[k])
        BY DEF TypeInv, TypeOK
      <4>2. QED
        BY <4>1
    <3>4. c.slot = i /\ c.user = k
      BY <3>2
    <3>5. QED
      BY <3>2, <3>3, <3>4
  <2>4. QED
    BY <1>1, <2>1, <2>2, <2>3 DEF ClaimOf
<1>2. 0 # KernelBase /\ 0 # LastLoaded /\ KernelBase # LastLoaded
  BY PcFacts
<1>3. QED
  BY <1>1, <1>2

(* Every user of memory holds a block, and no two the same.                *)
LEMMA UsersHoldBlocks ==
    ASSUME PcMap, OwnInv, BootInv, phase = "running", ~starved, ~nullSlab
    PROVE  /\ \A u \in Users : Backed(blocks, Extent(u).base, Extent(u).size)
           /\ \A u, v \in Users : u # v => Extent(u).base # Extent(v).base
           /\ TypeInv /\ MapSound
<1>1. TypeInv /\ MapSound /\ Grounded /\ Exclusive(blocks, Claims \cup Kept("running"))
  BY DEF OwnInv, BootInv, Ownership, MapInv
<1>2. nullSlab = FALSE
  BY <1>1 DEF TypeInv, TypeOK
<1>3. ASSUME NEW u \in Users PROVE Backed(blocks, Extent(u).base, Extent(u).size)
  BY <1>1, <1>2, <1>3, UserClaims DEF Exclusive
<1>4. ASSUME NEW u \in Users, NEW v \in Users, u # v PROVE Extent(u).base # Extent(v).base
  <2>1. PICK c \in Claims \cup Kept("running") : ClaimOf(u, c) /\ c.base = Extent(u).base
    BY <1>1, <1>2, UserClaims
  <2>2. PICK d \in Claims \cup Kept("running") : ClaimOf(v, d) /\ d.base = Extent(v).base
    BY <1>1, <1>2, UserClaims
  <2>3. c # d
    BY <1>1, <1>4, <2>1, <2>2, ClaimTellsUser
  <2>4. QED
    BY <1>1, <2>1, <2>2, <2>3 DEF Exclusive
<1>5. QED
  BY <1>1, <1>3, <1>4

LEMMA NoSharedByte ==
    ASSUME PcMap, OwnInv, BootInv
    PROVE  UsersDisjoint /\ UsedNotAvailable
<1> SUFFICES ASSUME phase = "running", ~starved, ~nullSlab
             PROVE  /\ \A u, v \in Users : u # v => Disjoint(Extent(u), Extent(v))
                    /\ \A u \in Users, d \in DOMAIN blocks :
                          blocks[d].type = Available => Disjoint(Extent(u), blocks[d])
  BY DEF UsersDisjoint, UsedNotAvailable
<1>1. /\ \A u \in Users : Backed(blocks, Extent(u).base, Extent(u).size)
      /\ \A u, v \in Users : u # v => Extent(u).base # Extent(v).base
      /\ TypeInv /\ MapSound
  BY UsersHoldBlocks
<1>2. ASSUME NEW u \in Users, NEW v \in Users, u # v
      PROVE  Disjoint(Extent(u), Extent(v))
  <2>1. \/ Extent(u).base + Extent(u).size <= Extent(v).base
        \/ Extent(v).base + Extent(v).size <= Extent(u).base
    BY <1>1, <1>2, BackedApart
  <2>2. QED
    BY <2>1 DEF Disjoint
<1>3. ASSUME NEW u \in Users, NEW d \in DOMAIN blocks, blocks[d].type = Available
      PROVE  Disjoint(Extent(u), blocks[d])
  <2>1. d \in 1 .. Len(blocks)
    BY <1>1 DEF TypeInv, TypeOK
  <2>2. \/ Extent(u).base + Extent(u).size <= blocks[d].base
        \/ blocks[d].base + blocks[d].size <= Extent(u).base
    BY <1>1, <1>3, <2>1, BackedInMap
  <2>3. QED
    BY <2>2 DEF Disjoint
<1>4. QED
  BY <1>2, <1>3

(* No two users share a byte once memory_init is done: the kernel's image, *)
(* the manager's first data, the slabs of every cache and the memory of    *)
(* every client, on a machine whose map is sane, has room for the kernel   *)
(* in one zone and low memory in another, for requests below 4 GB, until   *)
(* the manager starves or a slab is built at NULL.                         *)
THEOREM UsersStayDisjoint == SaneMap /\ NoWrap /\ PcMap /\ Spec => []UsersDisjoint
<1> SUFFICES ASSUME SaneMap, NoWrap, PcMap PROVE Spec => []UsersDisjoint
  OBVIOUS
<1>1. OwnInv /\ BootInv => UsersDisjoint
  BY NoSharedByte
<1>2. Spec => [](OwnInv /\ BootInv)
  BY BootReserves
<1>3. QED
  BY <1>1, <1>2, PTL

(* No later reservation finds a byte that is in use available.             *)
THEOREM UsedStaysReserved == SaneMap /\ NoWrap /\ PcMap /\ Spec => []UsedNotAvailable
<1> SUFFICES ASSUME SaneMap, NoWrap, PcMap PROVE Spec => []UsedNotAvailable
  OBVIOUS
<1>1. OwnInv /\ BootInv => UsedNotAvailable
  BY NoSharedByte
<1>2. Spec => [](OwnInv /\ BootInv)
  BY BootReserves
<1>3. QED
  BY <1>1, <1>2, PTL

(* memory_init keeps both its promises on such a machine: two runs show    *)
(* each broken on a memory map that is not PcMap or not SaneMap.           *)
THEOREM BootPromisesKept ==
    SaneMap /\ NoWrap /\ PcMap /\ Spec =>
        [](~starved /\ ~nullSlab => KernelReserved /\ CacheDataReserved)
<1> SUFFICES ASSUME SaneMap, NoWrap, PcMap
             PROVE  Spec => [](~starved /\ ~nullSlab => KernelReserved /\ CacheDataReserved)
  OBVIOUS
<1>1. OwnInv /\ BootInv => (~starved /\ ~nullSlab => KernelReserved /\ CacheDataReserved)
  <2> SUFFICES ASSUME OwnInv, BootInv, ~starved, ~nullSlab, phase = "running"
               PROVE  OthersAvoid(KernelImage) /\ OthersAvoid(CacheData)
    BY DEF KernelReserved, CacheDataReserved
  <2>1. /\ \A u, v \in Users : u # v => Disjoint(Extent(u), Extent(v))
        /\ \A u \in Users, d \in DOMAIN blocks :
              blocks[d].type = Available => Disjoint(Extent(u), blocks[d])
    BY NoSharedByte DEF UsersDisjoint, UsedNotAvailable
  <2>2. ASSUME NEW a, <<"boot", a>> \in Users PROVE OthersAvoid(a)
    <3>1. Extent(<<"boot", a>>) = a
      BY DEF Extent
    <3>2. \A u : u[1] # "boot" => u # <<"boot", a>>
      OBVIOUS
    <3>3. QED
      BY <2>1, <2>2, <3>1, <3>2 DEF OthersAvoid
  <2>3. <<"boot", KernelImage>> \in Users /\ <<"boot", CacheData>> \in Users
    BY DEF Users
  <2>4. QED
    BY <2>2, <2>3
<1>2. Spec => [](OwnInv /\ BootInv)
  BY BootReserves
<1>3. QED
  BY <1>1, <1>2, PTL
=============================================================================
