---------------------------- MODULE KernelMemory ----------------------------
(***************************************************************************)
(* The kernel's memory manager, k/memory.c: the physical memory map (a     *)
(* list of blocks), first-fit reservation with block splitting, and the    *)
(* two slab caches the manager allocates its own descriptors from.  The    *)
(* two halves call each other: splitting a block allocates a descriptor,   *)
(* an empty descriptor cache reserves a block.  `in_extend' is all that    *)
(* keeps that recursion finite, so calls are modelled one at a time on an  *)
(* explicit stack of frames, each with the point it resumes at.            *)
(*                                                                         *)
(* Abstracted: an object of a cache is counted and not addressed (module   *)
(* SlabCache keeps addresses), a linked list is a sequence (module List).  *)
(***************************************************************************)
EXTENDS Integers, Sequences, SequencesExt

CONSTANTS
    Word,        \* 2^32: addresses and sizes are computed modulo Word
    Zones,       \* multiboot memory map: sequence of [addr, len, type]
    LowSize,     \* info->mem_lower * 1024
    KernelBase,  \* 0x100000
    KernelEnd,   \* _end
    ModEnds,     \* mod_end of the multiboot modules, in the loader's order
    CacheSize,   \* sizeof(struct cache)
    MapSize,     \* sizeof(struct memory_map)
    Nmemb,       \* BASE_METADATA_CACHE_NMEMB
    ExtNmemb,    \* the 10 descriptors of an extension of memory_map_cache
    Requests,    \* the [base, size] clients may ask for (base 0: anywhere)
    UserCaches,  \* caches a client may create with cache_new
    UserNmemb,   \* objects in a client's cache
    UserBsize,   \* size of such an object
    MaxSlabs,    \* bound: slabs of a client's cache, which NULL slabs let grow
    MaxDepth     \* frames the 8 KB kernel stack has room for

Address == 0 .. Word - 1
Available == 0          \* memory_map.type of memory free to reserve
Reserved == 2           \* the type memory_reserve_ex gives what it hands out
NULL == 0

ASSUME SizesAssumption ==
    /\ Word \in Nat \ {0}
    /\ {LowSize, KernelBase, KernelEnd} \subseteq Address
    /\ ModEnds \in Seq(Address)
    /\ {CacheSize, MapSize, Nmemb, ExtNmemb, UserNmemb, UserBsize, MaxSlabs,
     MaxDepth}
          \subseteq Nat \ {0}
ASSUME ZonesAssumption ==
    Zones \in Seq([addr : Nat, len : Nat, type : Nat \ {0}])
ASSUME ClientsAssumption ==
    /\ Requests \subseteq [base : Address, size : Address \ {0}]
    /\ UserCaches \cap {"meta", "mmap"} = {}

Caches == {"meta", "mmap"} \cup UserCaches

MetaSize == Nmemb * CacheSize           \* metadata_cache->size
ExtSize == ExtNmemb * CacheSize         \* __memory_reserve_ex's extension

(* Where the manager puts its first data: behind the last loaded module.   *)
LastLoaded ==
    LET modEnd == IF ModEnds = <<>> THEN 0 ELSE ModEnds[Len(ModEnds)]
    IN  IF modEnd < KernelEnd THEN KernelEnd ELSE modEnd
CacheDataSize ==
    (Nmemb + 1) * CacheSize + Len(Zones) * 2 * MapSize

(* The manager's own data fit behind the kernel, below 4 GB.               *)
ASSUME DataAssumption ==
    /\ KernelBase <= KernelEnd /\ LastLoaded + CacheDataSize < Word
    /\ ExtSize < Word /\ UserNmemb * UserBsize < Word

-----------------------------------------------------------------------------
VARIABLES
    blocks,   \* the memory_map descriptors, in the order they were created
    order,    \* the list memory_map: indices into blocks
    slabs,    \* for each cache its root slab, then the slabs of ->caches
    stack,    \* frames of the calls in progress, innermost first
    ret,      \* what the last call returned
    call,     \* the call a client, or memory_init, is waiting for
    phase,    \* the reservation memory_init makes next, or "running"
    owned,    \* history: the [base, size] clients hold
    starved,  \* history: one of the manager's own caches was found empty
    nullSlab  \* history: a slab was built at the NULL a reservation returned

vars == <<blocks, order, slabs, stack, ret, call, phase, owned, starved,
          nullSlab>>

Block == [base : Address, size : Address, type : Nat]
Slab == [base : Address, size : Address, nmemb : Nat, free : Nat]
ReserveFrame == [pc : {"res_check", "res_extend", "res_scan", "res_again"},
                 base : Address, size : Address, ext : BOOLEAN]
SplitFrame == [pc : {"split_alloc", "split_link"}, m : Nat, size : Address]
AllocFrame == [pc : {"alloc_try", "alloc_meta", "alloc_own", "alloc_grow"},
               cache : Caches, ext : BOOLEAN]
ExtendFrame == [pc : {"ext_alloc", "ext_link"}, cache : Caches,
                p : Address, size : Address, nmemb : Nat, ext : BOOLEAN]
Frame == ReserveFrame \cup SplitFrame \cup AllocFrame \cup ExtendFrame

NoCall == [op |-> "none"]
PendingCall ==
    [op : {"none", "boot", "alloc"}] \cup [op : {"reserve"}, size : Address]
      \cup [op : {"new"}, cache : UserCaches, at : [base : Address, size : Address]]
BootPhases == {"low", "kernel", "caches"}

-----------------------------------------------------------------------------
(* Calls.  A frame is pushed with its arguments and resumes at `pc'.       *)
Reserve(base, size, ext) ==
    [pc |-> "res_check", base |-> base, size |-> size, ext |-> ext]
Split(m, size) == [pc |-> "split_alloc", m |-> m, size |-> size]
Alloc(cache, ext) == [pc |-> "alloc_try", cache |-> cache, ext |-> ext]
Extend(cache, p, size, nmemb, ext) ==
    [pc |-> "ext_alloc", cache |-> cache, p |-> p, size |-> size,
     nmemb |-> nmemb, ext |-> ext]

Top == Head(stack)
At(pc) == stack # <<>> /\ Len(stack) <= MaxDepth /\ Top.pc = pc
Call(callee, resume) ==
    stack' = <<callee, [Top EXCEPT !.pc = resume]>> \o Tail(stack)
Goto(frame) == stack' = <<frame>> \o Tail(stack)
Return(value) == stack' = Tail(stack) /\ ret' = value

History == <<owned, starved, nullSlab>>
Control == <<call, phase>>

-----------------------------------------------------------------------------
(* Slab caches.  An object is free or allocated; only the count matters.   *)
NewSlab(base, size, nmemb) ==
    [base |-> base, size |-> size, nmemb |-> nmemb, free |-> nmemb]

(* As in the code, a list of n > 0 elements has "size" n + 1.              *)
FreelistSize(slab) == IF slab.free = 0 THEN 0 ELSE slab.free + 1
CacheRemaining(c) ==
    LET len[i \in 0 .. Len(slabs[c])] ==
            IF i = 0 THEN 0 ELSE len[i - 1] + FreelistSize(slabs[c][i])
    IN  len[Len(slabs[c])]
HasFree(c) == {i \in DOMAIN slabs[c] : slabs[c][i].free > 0}
First(S) == CHOOSE i \in S : \A j \in S : i <= j

(* __cache_alloc: the root freelist first, then the first slab with a free *)
(* object.                                                                 *)
\* Fault: the root freelist is popped without looking whether it is empty.
AllocHitPopsRoot ==
    /\ At("alloc_try")
    /\ HasFree(Top.cache) # {}
    /\ slabs' = [slabs EXCEPT ![Top.cache][1].free = @ - 1]
    /\ Return(NULL)
    /\ UNCHANGED <<blocks, order, Control, History>>

AllocHit ==
    /\ At("alloc_try")
    /\ HasFree(Top.cache) # {}
    /\ slabs' = [slabs EXCEPT ![Top.cache][First(HasFree(Top.cache))].free
                                = @ - 1]
    /\ Return(NULL)
    /\ UNCHANGED <<blocks, order, Control, History>>

(* Nothing free, and the descriptors for slabs running out: these are      *)
(* refilled first, under in_extend.                                        *)
AllocRefill ==
    /\ At("alloc_try")
    /\ HasFree(Top.cache) = {}
    /\ CacheRemaining("meta") <= 2 /\ ~Top.ext
    /\ Call(Reserve(0, MetaSize, TRUE), "alloc_meta")
    /\ starved' = (starved \/ Top.cache \in {"meta", "mmap"})
    /\ UNCHANGED <<blocks, order, slabs, ret, Control, owned, nullSlab>>

AllocMiss ==
    /\ At("alloc_try")
    /\ HasFree(Top.cache) = {}
    /\ CacheRemaining("meta") > 2 \/ Top.ext
    /\ Call(Reserve(0, slabs[Top.cache][1].size, FALSE), "alloc_grow")
    /\ starved' = (starved \/ Top.cache \in {"meta", "mmap"})
    /\ UNCHANGED <<blocks, order, slabs, ret, Control, owned, nullSlab>>

AllocMeta ==
    /\ At("alloc_meta")
    /\ Call(Extend("meta", ret, MetaSize, Nmemb, TRUE), "alloc_own")
    /\ UNCHANGED <<blocks, order, slabs, ret, Control, History>>

AllocOwn ==
    /\ At("alloc_own")
    /\ Call(Reserve(0, slabs[Top.cache][1].size, FALSE), "alloc_grow")
    /\ UNCHANGED <<blocks, order, slabs, ret, Control, History>>

(* The new slab is as large as the root; then `goto try_alloc'.            *)
AllocGrow ==
    /\ At("alloc_grow")
    /\ LET root == slabs[Top.cache][1]
       IN  Call(Extend(Top.cache, ret, root.size, root.nmemb, FALSE),
                "alloc_try")
    /\ UNCHANGED <<blocks, order, slabs, ret, Control, History>>

(* cache_extend: a descriptor from metadata_cache, the slab carved into    *)
(* objects, linked behind the others.  p is not checked against NULL.      *)
ExtendAlloc ==
    /\ At("ext_alloc")
    /\ Call(Alloc("meta", Top.ext), "ext_link")
    /\ UNCHANGED <<blocks, order, slabs, ret, Control, History>>

ExtendLink ==
    /\ At("ext_link")
    /\ slabs' = [slabs EXCEPT ![Top.cache] =
                     Append(@, NewSlab(Top.p, Top.size, Top.nmemb))]
    /\ nullSlab' = (nullSlab \/ Top.p = NULL)
    /\ Return(NULL)
    /\ UNCHANGED <<blocks, order, Control, owned, starved>>

-----------------------------------------------------------------------------
(* memory_split: the descriptor is allocated before m is read, and m is    *)
(* used after that allocation returns.                                     *)
SplitAlloc ==
    /\ At("split_alloc")
    /\ Call(Alloc("mmap", FALSE), "split_link")
    /\ UNCHANGED <<blocks, order, slabs, ret, Control, History>>

\* Faults: the remainder keeps its base, its size; the new block is left free.
ShrinkKeepsBase(b, size) == [b EXCEPT !.size = (@ - size) % Word]
ShrinkKeepsSize(b, size) == [b EXCEPT !.base = (@ + size) % Word]
FrontOfAvailable(b, size) == [base |-> b.base, size |-> size % Word,
                              type |-> Available]

Shrink(b, size) == [b EXCEPT !.base = (@ + size) % Word,
                             !.size = (@ - size) % Word]
FrontOf(b, size) == [base |-> b.base, size |-> size % Word,
                     type |-> Reserved]
Position(d) == CHOOSE i \in DOMAIN order : order[i] = d

SplitLink ==
    /\ At("split_link")
    /\ LET m == Top.m
       IN  /\ blocks' = Append([blocks EXCEPT ![m] = Shrink(@, Top.size)],
                               FrontOf(blocks[m], Top.size))
           /\ order' = InsertAt(order, Position(m), Len(blocks) + 1)
           /\ Return(blocks[m].base)
    /\ UNCHANGED <<slabs, Control, History>>

-----------------------------------------------------------------------------
(* __memory_reserve_ex                                                     *)
\* Faults: in_extend is not looked at; the margin is one descriptor short; the
\* map cache is never extended.
ReserveExtendAlways ==
    /\ At("res_check")
    /\ CacheRemaining("mmap") <= 2
    /\ Call(Reserve(0, ExtSize, TRUE), "res_extend")
    /\ UNCHANGED <<blocks, order, slabs, ret, Control, History>>
ReserveEnoughShort ==
    /\ At("res_check")
    /\ CacheRemaining("mmap") >= 2 \/ Top.ext
    /\ Goto([Top EXCEPT !.pc = "res_scan"])
    /\ UNCHANGED <<blocks, order, slabs, ret, Control, History>>
ReserveEnoughAlways ==
    /\ At("res_check")
    /\ Goto([Top EXCEPT !.pc = "res_scan"])
    /\ UNCHANGED <<blocks, order, slabs, ret, Control, History>>

ReserveExtendFirst ==
    /\ At("res_check")
    /\ CacheRemaining("mmap") <= 2 /\ ~Top.ext
    /\ Call(Reserve(0, ExtSize, TRUE), "res_extend")
    /\ UNCHANGED <<blocks, order, slabs, ret, Control, History>>

ReserveEnough ==
    /\ At("res_check")
    /\ CacheRemaining("mmap") > 2 \/ Top.ext
    /\ Goto([Top EXCEPT !.pc = "res_scan"])
    /\ UNCHANGED <<blocks, order, slabs, ret, Control, History>>

ReserveExtend ==
    /\ At("res_extend")
    /\ Call(Extend("mmap", ret, ExtSize, ExtNmemb, FALSE), "res_scan")
    /\ UNCHANGED <<blocks, order, slabs, ret, Control, History>>

(* The scan stops at the first available block that is large enough, when  *)
(* any address will do, or else that contains the address.                 *)
EndOf(b) == (b.base + b.size) % Word
AnyFit(b) == Top.base = 0 /\ b.size >= Top.size
Covers(b) == Top.base >= b.base /\ Top.base < EndOf(b)
Hits == {i \in DOMAIN order :
            LET b == blocks[order[i]]
            IN  b.type = Available /\ (AnyFit(b) \/ Covers(b))}
Hit == order[First(Hits)]

ScanFails ==
    /\ At("res_scan")
    /\ Hits # {} => /\ ~AnyFit(blocks[Hit])
                    /\ (Top.base + Top.size) % Word >= EndOf(blocks[Hit])
    /\ Return(NULL)
    /\ UNCHANGED <<blocks, order, slabs, Control, History>>

\* Fault: a block taken whole stays available.
ScanExactKeepsType ==
    /\ At("res_scan") /\ Hits # {}
    /\ AnyFit(blocks[Hit]) /\ blocks[Hit].size = Top.size
    /\ Return(blocks[Hit].base)
    /\ UNCHANGED <<blocks, order, slabs, Control, History>>

ScanExact ==
    /\ At("res_scan") /\ Hits # {}
    /\ AnyFit(blocks[Hit]) /\ blocks[Hit].size = Top.size
    /\ blocks' = [blocks EXCEPT ![Hit].type = Reserved]
    /\ Return(blocks[Hit].base)
    /\ UNCHANGED <<order, slabs, Control, History>>

\* Fault: a block of exactly the size asked for is split too.
ScanSplitsExact ==
    /\ At("res_scan") /\ Hits # {}
    /\ LET b == blocks[Hit]
       IN  \/ AnyFit(b)
           \/ /\ ~AnyFit(b) /\ Top.base = b.base
              /\ (Top.base + Top.size) % Word < EndOf(b)
    /\ Goto(Split(Hit, Top.size))
    /\ UNCHANGED <<blocks, order, slabs, ret, Control, History>>

ScanSplits ==
    /\ At("res_scan") /\ Hits # {}
    /\ LET b == blocks[Hit]
       IN  \/ AnyFit(b) /\ b.size # Top.size
           \/ /\ ~AnyFit(b) /\ Top.base = b.base
              /\ (Top.base + Top.size) % Word < EndOf(b)
    /\ Goto(Split(Hit, Top.size))
    /\ UNCHANGED <<blocks, order, slabs, ret, Control, History>>

\* Fault: the reservation is tried again with nothing split off.
ScanPrefixRetries ==
    /\ At("res_scan") /\ Hits # {}
    /\ LET b == blocks[Hit]
       IN  /\ ~AnyFit(b) /\ Top.base # b.base
           /\ (Top.base + Top.size) % Word < EndOf(b)
    /\ Goto(Reserve(Top.base, Top.size, FALSE))
    /\ UNCHANGED <<blocks, order, slabs, ret, Control, History>>

(* The part of the block before the address is split off, and reserved,    *)
(* before the reservation is tried again from the start.                   *)
ScanPrefix ==
    /\ At("res_scan") /\ Hits # {}
    /\ LET b == blocks[Hit]
       IN  /\ ~AnyFit(b) /\ Top.base # b.base
           /\ (Top.base + Top.size) % Word < EndOf(b)
           /\ Call(Split(Hit, Top.base - b.base), "res_again")
    /\ UNCHANGED <<blocks, order, slabs, ret, Control, History>>

ReserveAgain ==
    /\ At("res_again")
    /\ Goto(Reserve(Top.base, Top.size, FALSE))
    /\ UNCHANGED <<blocks, order, slabs, ret, Control, History>>

-----------------------------------------------------------------------------
(* memory_init, from the point where every zone has its descriptor; the    *)
(* 64-bit zones are stored in 32-bit fields.                               *)
ZoneBlock(z) == [base |-> z.addr % Word, size |-> z.len % Word,
                 type |-> z.type - 1]
Init ==
    /\ blocks = [i \in 1 .. Len(Zones) |-> ZoneBlock(Zones[i])]
    /\ order = [i \in 1 .. Len(Zones) |-> i]
    /\ slabs = [c \in Caches |->
         CASE c = "meta" ->
                <<[NewSlab((LastLoaded + CacheSize) % Word, MetaSize, Nmemb)
                     EXCEPT !.free = Nmemb - 1]>>
           [] c = "mmap" ->
                <<[NewSlab((LastLoaded + (Nmemb + 1) * CacheSize) % Word,
                           Len(Zones) * 2 * MapSize, Len(Zones) * 2)
                     EXCEPT !.free = Len(Zones)]>>
           [] OTHER -> <<>>]
    /\ stack = <<>> /\ ret = NULL /\ call = NoCall
    /\ phase = "low"
    /\ owned = {} /\ starved = FALSE /\ nullSlab = FALSE

Idle == call = NoCall /\ phase = "running"

(* memory_init's three reservations; their results are ignored.            *)
BootCall ==
    /\ call = NoCall /\ phase \in BootPhases
    /\ call' = [op |-> "boot"]
    /\ stack' = << CASE phase = "low" -> Reserve(0, LowSize, FALSE)
                     [] phase = "kernel" ->
                          Reserve(KernelBase,
                                  (LastLoaded - KernelBase) % Word, FALSE)
                     [] phase = "caches" ->
                          Reserve(LastLoaded, CacheDataSize, FALSE) >>
    /\ UNCHANGED <<blocks, order, slabs, ret, phase, History>>

BootDone ==
    /\ call.op = "boot" /\ phase \in BootPhases /\ stack = <<>>
    /\ phase' = CASE phase = "low" -> "kernel"
                  [] phase = "kernel" -> "caches"
                  [] phase = "caches" -> "running"
    /\ call' = NoCall
    /\ UNCHANGED <<blocks, order, slabs, stack, ret, History>>

(* Clients: memory_reserve, memory_reserve_ex, memory_release, cache_new,  *)
(* cache_alloc, cache_free.  A client releases only what it holds, and     *)
(* builds a cache on memory it holds.                                      *)
ClientReserve(r) ==
    /\ Idle
    /\ call' = [op |-> "reserve", size |-> r.size]
    /\ stack' = <<Reserve(r.base, r.size, FALSE)>>
    /\ UNCHANGED <<blocks, order, slabs, ret, phase, History>>

ReserveDone ==
    /\ call.op = "reserve" /\ stack = <<>>
    /\ owned' = IF ret = NULL THEN owned
                ELSE owned \cup {[base |-> ret, size |-> call.size]}
    /\ call' = NoCall
    /\ UNCHANGED <<blocks, order, slabs, stack, ret, phase, starved, nullSlab>>

(* memory_release makes the first block at the address available; it is    *)
(* not merged with its neighbours.                                         *)
ClientRelease(r) ==
    /\ Idle
    /\ LET at == {i \in DOMAIN order : blocks[order[i]].base = r.base}
       IN  blocks' = IF at = {} THEN blocks
                     ELSE [blocks EXCEPT ![order[First(at)]].type = Available]
    /\ owned' = owned \ {r}
    /\ UNCHANGED <<order, slabs, stack, ret, Control, starved, nullSlab>>

ClientNew(c, r) ==
    /\ Idle
    /\ slabs[c] = <<>> /\ r.size = UserNmemb * UserBsize
    /\ call' = [op |-> "new", cache |-> c, at |-> r]
    /\ stack' = <<Alloc("meta", FALSE)>>
    /\ UNCHANGED <<blocks, order, slabs, ret, phase, History>>

NewDone ==
    /\ call.op = "new" /\ stack = <<>>
    /\ slabs' = [slabs EXCEPT ![call.cache] =
                     <<NewSlab(call.at.base, call.at.size, UserNmemb)>>]
    /\ owned' = owned \ {call.at}
    /\ call' = NoCall
    /\ UNCHANGED <<blocks, order, stack, ret, phase, starved, nullSlab>>

ClientAlloc(c) ==
    /\ Idle
    /\ slabs[c] # <<>>
    /\ HasFree(c) # {} \/ Len(slabs[c]) < MaxSlabs
    /\ call' = [op |-> "alloc"]
    /\ stack' = <<Alloc(c, FALSE)>>
    /\ UNCHANGED <<blocks, order, slabs, ret, phase, History>>

AllocDone ==
    /\ call.op = "alloc" /\ stack = <<>>
    /\ call' = NoCall
    /\ UNCHANGED <<blocks, order, slabs, stack, ret, phase, History>>

(* cache_free of an object of slab i: it goes to the first slab of the     *)
(* cache whose range the pointer lies in, another one than its own when    *)
(* two slabs were built at NULL.                                           *)
ClientFree(c, i) ==
    /\ Idle
    /\ slabs[c][i].free < slabs[c][i].nmemb
    /\ LET ptr == slabs[c][i].base
           in == {j \in DOMAIN slabs[c] :
                     /\ slabs[c][j].base <= ptr
                     /\ ptr < slabs[c][j].base + slabs[c][j].size}
           to == First(in)
       IN  /\ in # {}
           /\ slabs[c][to].free < slabs[c][to].nmemb
           /\ slabs' = [slabs EXCEPT ![c][to].free = @ + 1]
    /\ UNCHANGED <<blocks, order, stack, ret, Control, History>>

(* The recursion outgrows the kernel stack.                                *)
StackOverflow ==
    /\ Len(stack) > MaxDepth /\ phase # "overflow"
    /\ phase' = "overflow"
    /\ UNCHANGED <<blocks, order, slabs, stack, ret, call, History>>

-----------------------------------------------------------------------------
CacheStep ==
    \/ AllocHit \/ AllocRefill \/ AllocMiss \/ AllocMeta \/ AllocOwn
    \/ AllocGrow \/ ExtendAlloc \/ ExtendLink
MapStep ==
    \/ SplitAlloc \/ SplitLink
    \/ ReserveExtendFirst \/ ReserveEnough \/ ReserveExtend
    \/ ScanFails \/ ScanExact \/ ScanSplits \/ ScanPrefix \/ ReserveAgain
Kernel ==
    \/ CacheStep \/ MapStep \/ StackOverflow
    \/ BootCall \/ BootDone \/ ReserveDone \/ NewDone \/ AllocDone
Client ==
    \/ \E r \in Requests : ClientReserve(r)
    \/ \E r \in owned : ClientRelease(r)
    \/ \E c \in UserCaches, r \in owned : ClientNew(c, r)
    \/ \E c \in UserCaches : ClientAlloc(c)
    \/ \E c \in UserCaches : \E i \in DOMAIN slabs[c] : ClientFree(c, i)
Next == Kernel \/ Client

(* A call, once made, runs: the kernel is single threaded and never waits. *)
Spec == Init /\ [][Next]_vars
FairSpec == Spec /\ WF_vars(Kernel)

-----------------------------------------------------------------------------
(* Every step of the manager leaves values the C fields can hold: 32-bit   *)
(* addresses and sizes, list entries that are blocks, and counts of free   *)
(* objects that never fall below zero.                                     *)
TypeOK ==
    /\ blocks \in Seq(Block)
    /\ order \in Seq(1 .. Len(blocks))
    /\ slabs \in [Caches -> Seq(Slab)]
    /\ stack \in Seq(Frame)
    /\ ret \in Address
    /\ call \in PendingCall
    /\ phase \in BootPhases \cup {"running", "overflow"}
    /\ owned \subseteq [base : Address, size : Address]
    /\ starved \in BOOLEAN /\ nullSlab \in BOOLEAN

(* The procedures a frame's pc belongs to.                                 *)
ReservePc == {"res_check", "res_extend", "res_scan", "res_again"}
SplitPc == {"split_alloc", "split_link"}
CachePc == {"alloc_try", "alloc_meta", "alloc_own", "alloc_grow",
            "ext_alloc", "ext_link"}

(* What the type invariant rests on: the calls in progress refer to blocks *)
(* and caches that exist, and every block is on the list.                  *)
LiveFrame == {f \in Frame : /\ f.pc \in SplitPc => f.m \in 1 .. Len(blocks)
                            /\ f.pc \in CachePc => slabs[f.cache] # <<>>}
LiveReferences ==
    /\ stack \in Seq(LiveFrame)
    /\ \A d \in 1 .. Len(blocks) : \E i \in 1 .. Len(order) : order[i] = d
    /\ slabs["meta"] # <<>> /\ slabs["mmap"] # <<>>

Bytes(r) == r.base .. r.base + r.size - 1
Disjoint(r, s) == r.base + r.size <= s.base \/ s.base + s.size <= r.base

(* The memory map describes each byte once: no two blocks overlap, and no  *)
(* block runs past the end of the address space.                           *)
MapSound ==
    ~starved =>
        /\ \A d \in DOMAIN blocks : blocks[d].base + blocks[d].size <= Word
        /\ \A d, e \in DOMAIN blocks : d # e => Disjoint(blocks[d], blocks[e])

(* What MapSound rests on: until the manager starves, at most the innermost*)
(* split is in progress, of a block that is still available and larger     *)
(* than the part to split off.                                             *)
SplitsSound ==
    ~starved =>
        \A i \in 1 .. Len(stack) : stack[i].pc \in SplitPc =>
            /\ blocks[stack[i].m].type = Available
            /\ stack[i].size < blocks[stack[i].m].size
            /\ i # 1 => /\ i = 2 /\ stack[1].pc = "alloc_try"
                        /\ stack[1].cache = "mmap"
(* And on requests that end below 4 GB.                                    *)
InRangeFrame == {f \in Frame : f.pc \in ReservePc => f.base + f.size < Word}
RequestsInRange == stack \in Seq(InRangeFrame)

(* Who uses memory: the boot loader's and the kernel's own data, the slabs *)
(* caches were extended with or built on, the reservations clients hold.   *)
LowMemory == [base |-> 0, size |-> LowSize]
KernelImage == [base |-> KernelBase, size |-> LastLoaded - KernelBase]
CacheData == [base |-> LastLoaded, size |-> CacheDataSize]
SlabsInUse ==
    (UNION {{<<"slab", c, i>> : i \in DOMAIN slabs[c]} : c \in Caches})
        \ {<<"slab", "meta", 1>>, <<"slab", "mmap", 1>>}
Extent(u) ==
    IF u[1] = "slab" THEN slabs[u[2]][u[3]] ELSE u[2]
Users ==
    {<<"boot", LowMemory>>, <<"boot", KernelImage>>, <<"boot", CacheData>>}
      \cup {<<"client", r>> : r \in owned} \cup SlabsInUse

(* No two users share a byte, once memory_init is done.                    *)
UsersDisjoint ==
    phase = "running" /\ ~starved /\ ~nullSlab =>
        \A u, v \in Users : u # v => Disjoint(Extent(u), Extent(v))

(* No byte in use is available to a later reservation.                     *)
UsedNotAvailable ==
    phase = "running" /\ ~starved /\ ~nullSlab =>
        \A u \in Users, d \in DOMAIN blocks :
            blocks[d].type = Available => Disjoint(Extent(u), blocks[d])

(* memory_init's promises: what it reserves for the kernel image and for   *)
(* its own first data, nobody else is given.                               *)
OthersAvoid(area) ==
    /\ \A d \in DOMAIN blocks :
          blocks[d].type = Available => Disjoint(area, blocks[d])
    /\ \A u \in Users : u[1] # "boot" => Disjoint(area, Extent(u))
KernelReserved == phase = "running" => OthersAvoid(KernelImage)
CacheDataReserved == phase = "running" => OthersAvoid(CacheData)

(* The manager never returns to its caller without a descriptor in hand    *)
(* for the split the next reservation starts with.                         *)
SpareDescriptor ==
    call = NoCall /\ phase \in {"caches", "running"} /\ ~starved =>
        HasFree("mmap") # {}

(* in_extend bounds the mutual recursion: only a manager that found one of *)
(* its own caches empty nests deeper than this.                            *)
DepthBound == Len(stack) > 4 => starved

(* The manager starves only when its last cache descriptor is gone, or     *)
(* below the refill of metadata_cache, which takes a memory map descriptor *)
(* without checking that one is left for the reservation after it.         *)
StarvesOnlyWhen ==
    [][starved' /\ ~starved =>
          \/ HasFree("meta") = {}
          \/ \E i \in DOMAIN stack : stack[i].pc \in {"alloc_meta", "alloc_grow"}
      ]_vars

(* The blocks, descriptors and slabs implement PhysicalMemory.             *)
Free == UNION {Bytes(blocks[d]) : d \in {e \in DOMAIN blocks :
                                           blocks[e].type = Available}}
Physical == INSTANCE PhysicalMemory
                WITH Addresses <- Address, available <- Free, held <- owned
ImplementsPhysicalMemory == Physical!Spec

(* Every call returns, unless the manager starved.                         *)
CallReturns == call # NoCall ~> (call = NoCall \/ starved)
=============================================================================
