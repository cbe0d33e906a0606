# Verification of the EPITA x86-32 kernel

TLA+ models, TLC configurations and TLAPS proofs for the kernel repository
`x86-32b-Kernel` (paths below are relative to the repository). The core is the
kernel's memory manager, `k/memory.c`: a short C file that hides long call
sequences (two allocators that call each other, and allocate their own
descriptors from themselves). Around it: the image builder, mode switching, the
C library, the user-side allocator, pictures and sounds, and the six games.

## 1. Inventory

| Component | Source | State | Operations | Correct when |
|---|---|---|---|---|
| memory map | `k/memory.c` 120-251 | list of `struct memory_map` (base, size, type) | `memory_init`, `memory_reserve`, `memory_reserve_ex`, `memory_release`, internal `memory_split` | each byte is described once; nothing in use is available; what boot reserves stays reserved |
| slab caches | `k/memory.c` 14-118 | per cache a root `struct cache` and further slabs, freelists in the free objects | `cache_new`, `cache_alloc`, `cache_free`, internal `cache_extend` | an object is given to one holder; a freelist is exactly its slab's free objects |
| intrusive list | `k/list.c` | `next`/`prev` | `list_init/insert/remove/empty` | circular both ways |
| entry | `k/crt0.S`, `k/k.c`, `k/k.lds` | 8 KB stack, `_end` | `k_entry`, `k_main` | the stack is never outgrown |
| VGA | `k/libvga.c` | register tables, saved text font, the adapter | switch to mode 13h / 3h, palette | a switch leaves the table's registers; text mode comes back with its font |
| KFS | `tools/mkkfs/mkkfs.c`, `k/include/k/kfs.h` | an image: superblock, inodes, direct and indirect blocks | build an image from files | every file is read back whole |
| sound files | `tools/mkksf`, `libs/libk/sound.c` | a list of notes | generate, load, play | what is written is played |
| libk graphics | `libs/libk/graphic.c` | images, animations, the frame buffer | load, draw, clear, switch mode | nothing leaks; each shape stays in its place |
| system calls | `libs/libk/syscalls.c` | none | `int 0x80` wrappers | no kernel side exists at this commit |
| malloc | `libs/libk/malloc.c` | `malloc_state`: chunks with heads and feet, small bins, tries, `dv`, `top`, segments, limit | `malloc`, `calloc`, `memalign`, `free`, `realloc`, `realloc_in_place`, `independent_calloc`, `bulk_free`, `trim`, `set_footprint_limit` | blocks are apart and aligned; the bookkeeping is consistent; a refusal has a reason |
| libc | `libs/libc` | none | strings, memory, `printf` | reference behaviour |
| games | `roms/*` | positions, shots, bricks, counts | one loop per game | indices in range; counts agree; nothing gets stuck |

How they interact. `memory_reserve` splits a block, and takes the new descriptor
from `memory_map_cache`; when that cache runs low it reserves memory first
(`__memory_reserve_ex` calls itself with `in_extend` set) and builds a slab on
it, for which it takes a `struct cache` from `metadata_cache`; when that one
runs low it reserves memory too. Both caches live in memory that `memory_init`
uses before it reserves it. A game calls libk for pictures, sounds and drawing; libk
calls malloc and the libc; malloc gets memory from `sbrk`, which other code may
call too. Games and libk reach the kernel by `int 0x80` only; the kernel is linked
with one game.

There are no threads at this commit, and no interrupt handlers: what is under `k/`
runs from its entry to its end. What is hard is
re-entrance (a function runs again, under itself, between two of its own
statements), limits (descriptors, memory, the stack), 32-bit wrap-around, and
`NULL` results nobody looks at, indices and positions nobody tests. `PROJECT.json` lists the hazards at their lines.

## 2. Modules

| Module | Models | How |
|---|---|---|
| `KernelMemory` | all of `memory.c` but `memory_dump` | `blocks`/`order`: the descriptors and the list `memory_map`; `slabs`: each cache's root, then its `->caches` list, objects counted; `stack`: the frames of the C calls in progress, innermost first, each with the point it resumes at; `ret`: the return value; `call`, `phase`: what the client or `memory_init` waits for |
| `PhysicalMemory` | the promise of `memory.h` to its callers | addresses that are `available`, reservations that are `held`; abstract specification of `KernelMemory` |
| `SlabCache` | one cache on real pointers | `heap` of `next`/`prev`; clients overwrite what they hold |
| `ObjectPool` | the promise of a cache | abstract specification of `SlabCache` |
| `List` | `list.c`, `list_for_each` | operators on a heap |
| `MkKfs` | `tools/mkkfs/mkkfs.c` | `image`: the blocks written; `pc`, `file`, `blk_idx`, `inode`, `iblock`: the program's variables; `length`, `offset`: the open file; a reader of the format (`Contents`, `InodeChain`) as operators |
| `DlMalloc` | `libs/libk/malloc.c` as libk builds it | `gm`: the heads, feet, bins, `dv`, `top`, segments and the break; a call is a step; a function of the source is an operator from a state to the possible next ones, several where it calls `sbrk`, which may refuse |
| `Allocator` | the promise of the malloc family | blocks `held`; abstract specification of `DlMalloc` |
| `TreeBin` | the tries of `malloc.c`, 3643-3790 and 4429-4535 | `node`: of each free chunk its size, index, children, parent and ring; `bins`, `treemap` |
| `Vga` | `k/libvga.c` | `card`: registers, the latches of the ports, the planes; `libvga_txt_mode_font`: the bytes saved |
| `Raster`, `Printf`, `CString`, `LibCalls` | drawing; `vsprintf`; `mem*` and `str*` | operators, each the algorithm of the source; `LibCalls` makes one call per step and keeps its arguments and its result |
| `Media` | loading in `graphic.c`, `sound.c`, `strdup.c`; `tools/mkksf` | `heap`, `fds`, `held`, and `call`: the function under way with its locals, one system or library call a step |
| `Pong`, `Yakanoid`, `Vaders`, `Hunter`, `Perrod`, `Skate` | the games | `game`: the stage and the locals of the loop; one action per frame |
| `Roms` | the kernel with one of them linked in | `rom`; an instance of each game |
| `MC*` | small machines for TLC | `MCLibrary` runs `LibCalls` and `TreeBin`, which do not meet, side by side |
| `KernelMemory_proof` | theorems: types, the soundness of the map; the calls in progress, how deep they nest, the descriptors they need | |
| `Ownership_proof` | theorems: who holds which block; the refinement of `PhysicalMemory` | extends `KernelMemory_proof` |
| `SlabCache_proof`, `MkKfs_proof`, `Media_proof`, `Vga_proof`, `LibCalls_proof`, `Roms_proof` | theorems | |

A step of `KernelMemory` is the code between two calls. The procedure a frame
belongs to is told by its `pc`: `res_*` `__memory_reserve_ex`, `split_*`
`memory_split`, `alloc_*` `__cache_alloc`, `ext_*` `cache_extend`. A call in tail
position (`return memory_split(...)`) replaces its caller's frame; the stack in
the model is therefore never deeper than the C stack. The local variables used
after a call (`m` and `size` in `memory_split`, `base_addr` and `size` in the
retry, `c` in `__cache_alloc`) are in the frame, so stale values are stale in
the model too. Reads that the code makes after a call (`m->base_addr`) are made
after the call.

Three history variables say what happened and are read by properties only:
`owned` (what clients hold), `starved` (one of the manager's own two caches was
found empty) and `nullSlab` (a slab was built at the `NULL` a failed reservation
returned). Many properties are stated `~starved`: after starvation the code's
own assumptions are gone (a nested reservation may split the very block an outer
`memory_split` is about to split) and the properties do not hold. `StarvesOnlyWhen`
says in which circumstances that happens, so that the hypothesis is not a blank
cheque.

In `MkKfs` a step writes one block. A file is its length and byte `k` of it is
`<<file, k>>`, so that `Readable` compares contents and not just sizes. While a
file is being read another program may append to it or truncate it (`Change`),
and any open, read or `pwrite` may fail (`Fail`). `taken` (bytes read) and
`changed` are histories. Checksums, names and times are left out.

In `DlMalloc` the tries are one sequence of chunks, from which a search takes
the oldest of the least sufficient size; `TreeBin` has the pointers and the bits,
and `SearchFinds` is the reason why the sequence may stand for them.
libk builds malloc without mmap, locks, footers and mspaces (`malloc-k.h`), so
`prepend_alloc` is unreachable and `mspace_*` not compiled; `valloc`, `pvalloc` and
`posix_memalign` are `memalign` with a fixed alignment or another way to return.
`unexplained` is a history: the last call failed, and neither the system nor the
limit had refused.

`Media` stops at every call that can fail (`open`, `read`, `lseek`, `malloc`,
`calloc`) and takes both ways; blocks of the heap are numbers, so that who frees
what is exact. `wild` is a history: something not allocated was freed. The file
of a melody is what `mkksf` makes of a text.

A game's frame reads at most one key (or the mouse), moves everything and draws;
drawing is left out, as are scores that are only drawn. Escape, pause, the end
screen and the way back to the splash screen are in; an image the code does not
check for `NULL` is a fault when it is first drawn (`stage = "fault"`), one it
does check the blue screen. Divisions truncate towards zero, unsigned comparisons
are unsigned (`Perrod`), floats are multiples of a tenth (`Hunter`). The
numbers of bricks, monsters, boxes and the speeds are constants of each module,
which names the code's values; `Roms` gives small ones, and for yakanoid, the vaders
and the hunter has them as constants (`MCRoms` gives them small values).

Two places write where no bounds are tested, and the models keep these writes. In
yakanoid the brick the ball strikes is cleared together with the one its other end is
taken for (`yakanoid.c:139`), which may lie outside of `mtrx`; what the write hits is
either nothing that matters, and the frame goes on, or there is no saying what follows
(`stage = "stray"`). `draw_text` computes positions instead of calling
`draw_pixel`: what a glyph writes in the next row of the screen or behind `offbuffer` is
kept with the positions it was written to.

Abstractions of the memory modules: `_end`, sizes and the multiboot map are constants; objects are
counted in `KernelMemory` (their addresses are in `SlabCache`); a list is a
sequence there (its pointers are in `SlabCache` and `List`). Clients hold what
they release or build a cache on, and free what they were given. `bsize` divides
the slab's size. Alignment and what is written into memory are left out.

## 3. Runs

`tlc -config <cfg> <module>`; figures are distinct states.

| Run | Configuration | States | Shows |
|---|---|---|---|
| `mem_reserve` | `MemReserve.cfg` | 71 k | No two of: boot's areas, slabs, client reservations share a byte (`UsersDisjoint`). A descriptor is in hand between calls (`SpareDescriptor`), and a pending split still has its block (`SplitsSound`). `KernelMemory` implements `PhysicalMemory`. Every call returns (`CallReturns`). |
| `mem_caches` | `MemCaches.cfg` | 18 k | The same machine with a client cache that grows: `TypeOK`, `MapSound`, `UsedNotAvailable`, the nesting bound `DepthBound`, and the causes of starvation (`StarvesOnlyWhen`). |
| `slab_cache` | `SlabCache.cfg` | 72 k | Pointers implement a pool; freelists are exact; `cache_remaining <= 2` means at most one object left (`RemainingTest`) although `freelist_size` counts one too many. |
| `kfs_image` | `MkKfs.cfg` | 484 k | A finished image gives every file back through direct and index blocks (`Readable`), has no hole (`Dense`); sizes agree for files nobody changed (`SizesAgree`); no block is written twice (`WriteOnce`). |
| `heap` | `Heap.cfg` | 119 k | The assertions of `do_check_malloc_state` hold after every call (`CheckMallocState`); no head, foot or link lies in a client's block, and the block in memory the system gave (`BlocksApart`); a request is served by a chunk of its size, aligned (`CheckMalloced`); a failure has a reason (`FailsOnlyWhenRefused`); `LimitRespected`. `DlMalloc` implements `Allocator`. |
| `vga` | `Vga.cfg` | 48 k | After a switch every register is that of its table, whatever state the ports were in (`RegistersSet`); text and font survive mode 13h (`TextRestored`); `PaletteLoaded`. |
| `library` | `Library.cfg` | 173 k | Each drawing function paints in its place, lines within half a pixel, and nowhere else (`DrawingInPlace`); a formatted number reads back as the number, the most negative too, in its width and base (`FormatFaithful`); copies, comparisons and searches are what they promise (`MemoryFaithful`). The tries of malloc are what `do_check_tree` asserts (`TreesChecked`), the descent by a chunk's own bits meets it (`BinFind`), the two searches return the best fit (`SearchFinds`). |
| `media` | `Media.cfg` | 1.8 M | Between calls nothing is open and the heap is what the program holds (`ResourcesExact`); pictures and melodies are what the files say (`LoadedExact`). |
| `roms` | `Roms.cfg` | 210 k | In yakanoid the index leaves `mtrx` in two places only (`StraysOnlyWhere`); the hits of hunter and vaders stay counted (`HitsCounted`); with frames that keep coming, `BallReturns`, `ShotLands`, `SkaterGetsUp`. |
| `mem_two_zones` | `MemTwoZones.cfg` | violation | see findings |
| `mem_high_zone` | `MemHighZone.cfg` | violation | see findings |
| `draw_declared` | `LibDraw.cfg` | violation | see findings |

Bounds. An address unit stands for a descriptor; the address space has 64 units
(`Word`), with low memory, a hole, and 25 or 28 units of memory in which the
kernel image (2), a module end and the boot data (at most 11) leave room for
roughly a dozen units. That is enough for each cache to be extended several times
and for memory to run out afterwards, which is where the interesting behaviour
is: in `mem_caches` TLC reaches a refill of `metadata_cache` under `in_extend`, a
slab at `NULL`, starvation and the full stack. `Nmemb` is 3 or 4 instead of 10 so
that `metadata_cache` runs low before memory does. `MaxDepth` = 12 frames stands for the
8 KB of `crt0.S`; nothing but a starved manager needs more than 4 (`DepthBound`).
`MaxSlabs` = 3 bounds a client's cache, which slabs at `NULL` would let grow for
ever. `SlabCache` has three slabs of two objects, placed below, above and next
to each other.
`MkKfs` has two files, one direct block, two index blocks of two entries and two
bytes in a block: capacity 10, and lengths 0 to 11 give every case of a partial
block, a file that ends at a boundary and one that is refused. Each file is
changed at most once while it is read.

`Heap`: pages of 64 bytes in 280 bytes of address space, requests of 20 bytes
(small) and 70 (a large chunk), an array of both, an alignment of 32, a product
that overflows and one that does not, a limit of three pages, three blocks held.
That reaches first use, extension in place, a second segment with its fenceposts
(another caller moves the break by 20), trimming, refusal by the system and by
the limit, and all the merges. `size_t` has 12 bits. `TreeBin`: five
chunks of seven sizes in four bins, so that a chunk has two children, a ring and
a replacement further down at once. `Vga`: a window of four bytes (`Size`), three colours;
the register tables are whole. `LibCalls`: a screen of 17 x 9, room for two glyphs, with corners on
it, on its borders, behind them and just below 0, unsigned coordinates of 8 bits; a
line between any two pixels and any two corners, texts of up to two glyphs that fit or cross the
right border, in the last row that is the end of `offbuffer`; integers of 16 bits including the
most negative; memories of 11 bytes with strings of up to two. `Media`: bitmaps
with padding, without lines, cut short, of another kind; two things held at once.
`Roms`: fields of a few dozen units in which each ball, shot and jump makes all its
cases; `MaxX`, `MaxY`, `Drift` and `Above` bound how far things that left the
screen are followed.

Deadlock is not checked where the system may stop: `mkkfs` ends; the kernel stops when its stack is full
(`StackOverflow`); a client whose memory is exhausted has nothing left to do
in `SlabCache`, nor in `Heap` when the break has reached its bound; a fatal error in
`Media` and `Roms` (the blue screen, a fault) halts. `vga` and `library`
are checked for deadlock.

Fairness. `FairSpec` has weak fairness of `Kernel`, the disjunction of the
manager's own steps: the processor goes on executing a call that was made. The
clients' actions have none. `Roms` has weak fairness of the frames of the games with
a liveness property. A frame ends by waiting for `gettick` to move on, and never waits for
the player (no key is an input). The clock behind `gettick` is on the kernel's side, which has
no clock and no handler at this commit: that it will tick is an assumption about what is missing. What the player does
has no fairness. `ShotLands` assumes that gravity is not switched off: with
gravity 0 the shot flies for ever, as the code says. `CallReturns` allows for `starved`, since the
recursion of a starved manager is not bounded by the code.

## 4. Findings

* `mem_two_zones`. `memory.c:183` says the initial cache data are reserved.
  With two zones in the memory map `memory_map_cache` is already low at that
  point, the extension made first is placed over those very data, and the
  reservation after it fails unnoticed. Three zones suffice if the first one is
  exactly low memory, as in `MemReserve.cfg`.
* `mem_high_zone`. `memory.c:181` says the kernel is reserved. The casts of line
  174 put a zone that starts at 4 GB at address 0, as available memory over the
  kernel.
* `draw_declared`. `graphic.h:124` says "draw a line." and `graphic.h:130` "draw an empty
  rectangle." The loops of `graphic.c:335-340` run upwards only: an upright or a level line
  whose first end is the larger one paints nothing, while a slanted one is turned round
  first. `draw_rect` (`graphic.c:393-400`) leaves out the corner `(x2, y2)`, which
  `draw_fillrect` paints. `DrawingInPlace` says what holds besides.

Met while modelling, and in the models as the code does it:

* `malloc.c:5352-5361`: a footprint limit of 0 is meant to be the least limit
  ("invert sense of 0") but the `else` of the next test overwrites it, and 0
  means no limit. `LimitRespected` is about limits that are not 0.
* `yakanoid.c:139` clears the places the ball's two ends are taken for without a test. A ball
  that touches the right wall in the lowest row of bricks (x = 205 there) has its second
  one in column 10: `mtrx[5][0]`, behind the array, is written, in ordinary play
  and while every row is still closed. Above the bricks the row is -1 or less; the ball gets there
  once each row has a gap. `StraysOnlyWhere` states that these are all the cases.
* `graphic.c:559-561`: `draw_text` tests no border. A text that crosses the right one goes on
  in the next row, one that crosses the lower one is written behind `offbuffer`; the texts of
  the games fit, and of those that fit `DrawingInPlace` says that they stay in their boxes.
* `graphic.c:326-333`: a line with one end off the screen is dropped whole. `graphic.c:522`: an image is
  shown one row low, in the rows `y + 1` to `y + height`.
* `graphic.c:477` divides by the height of the file; `sound.c:53` and `malloc.c:5003`
  multiply a number of the file, or of the caller, without a test.
* `mkksf.c:48`: a text with a newline at its end gives its last tone twice (`LoadedExact` states it).
* The games leak pictures and melodies on the way back to the splash screen;
  yakanoid, skate, the bush of hunter and seine_w of vaders do not check the picture (`fault`).
* `vaders.c`: the march is counted, and seine_w fires, in a pause. `perrod.c`: a shot fired
  in the frame after a landing starts where the last one ended.

## 5. Proofs

For every value of the constants under their named assumptions
(`SizesAssumption`, `ZonesAssumption`, `ClientsAssumption`, `DataAssumption`:
widths, shapes, and that kernel and boot data fit below 4 GB; `VgaAssumption`: a window of
whole groups of four bytes, colours of three bytes; `FilesAssumption`: the
fields of a bitmap's header are unsigned words, a text for `mkksf` has a tone; `CallsAssumption`:
a screen is far from half the range of its coordinates, strings have an end, texts are of
chars the font has; `TreeAssumption` (`MCLibrary`): the shape of the bins;
`YakanoidAssumption`, `VadersAssumption`, `HunterAssumption`: see below):

* `TypeCorrect` (`KernelMemory_proof`): `Spec => [](TypeOK /\ LiveReferences)`.
  `TypeOK` alone is not inductive: that `memory_split` indexes a block that
  exists and `__cache_alloc` a root slab that exists rests on
  `LiveReferences`, about every frame on the stack. The proof has one lemma for
  each group of actions, and lemmas for what a call, a jump and a return do to
  the stack. `FirstIsIn` (a non-empty set of naturals has a least element) comes
  from the well-foundedness of finite subsets, since induction over data is not
  available.
* `MapStaysSound` (`KernelMemory_proof`): `SaneMap /\ NoWrap /\ Spec => []MapSound`.
  No two blocks overlap, none passes the end of the address space, until the
  manager starves. The inductive invariant `MapInv` adds `SplitsSound` (at most
  the innermost frame, or the one below an allocation for it, is a split, and its
  block is still available and larger than the part to cut off) and
  `RequestsInRange` (no request on the stack wraps). Why it is needed: `SplitLink`
  subtracts without looking, and only the check made by the scan, possibly many
  steps earlier, says that the block is large enough; between the two the
  descriptor is allocated, and only in a manager that does not starve does that
  allocation leave the map alone. Both hypotheses are needed: `mem_high_zone` is a machine
  without `SaneMap`, and a request that wraps passes the test at line 220.
  `SplitsStaySound` states the second part on its own: `m->size -= size` never wraps.
* `CallsNest`, `RecursionIsBounded` (`KernelMemory_proof`): `Spec => []CallShape`,
  `Spec => []DepthBound`. `CallShape` says of each two neighbouring frames which call
  of the source the upper one is, with its arguments (a refill of `metadata_cache`
  is a reservation of `MetaSize` under `in_extend`, and so on), and of the
  outermost frame which call of the client it is. Each call lowers a `Rank`, and four ranks
  are all there are, so a stack of five frames needs a manager that starved. No
  hypothesis on the constants.
* `DescriptorIsSpared`, `StarvesOnlyBelow`: `EnoughDescriptors /\ Spec =>
  []SpareDescriptor`, and `StarvesOnlyWhen`, where `EnoughDescriptors` is two descriptors or more to an
  extension (the code has 10) and a memory map that is not empty (the initial
  cache has one free descriptor per zone). The inductive invariant is
  `Spare`: for the innermost frame, and for what waits for it, how many free
  descriptors there are at least. Below a client's call two are in hand
  when the scan starts, since the test `cache_remaining <= 2` means "at most one is
  left" (`RemainingCounts`); the extension itself is made with the last one and
  brings `ExtNmemb` new ones. `RemainingCounts` relates a sum over the slabs to
  the number of free objects; induction over data not being available, it takes
  the least index at which the sum would be wrong.
* `OwnersHoldBlocks` (`Ownership_proof`): `SaneMap /\ NoWrap /\ Spec => []OwnInv`. A
  claim is a reservation of a client, a slab of a cache, or the block that a call in progress
  was just returned and has not handed on. Every claim is a block of the map that is
  not available, with exactly its base and size (`Backed`), and two claims have two
  bases (`Exclusive`). Each step moves a claim from one holder to
  another, makes one from the available block of the scan, or drops one. A call's own
  claim is what makes this inductive: between `return` and the caller's next
  statement the block belongs to nobody else.
* `ManagerRefines`: `SaneMap /\ NoWrap /\ Spec /\ []~starved => ImplementsPhysicalMemory`. The
  hypothesis `[]~starved` is needed: a starved manager may split a block twice.
  `mem_reserve` checks the refinement on a machine that has no client cache, where
  the manager does not starve.
* `BootReserves`, `UsersStayDisjoint`, `UsedStaysReserved`, `BootPromisesKept` (`Ownership_proof`):
  `SaneMap /\ NoWrap /\ PcMap /\ Spec => []UsersDisjoint`, the same for
  `UsedNotAvailable`, and for the two promises `KernelReserved` and `CacheDataReserved`
  while `~starved /\ ~nullSlab`. `memory_init` ignores what its
  reservations return, so a condition on the machine is needed: `PcMap` says that low
  memory is the first zone, the kernel starts another one that ends behind the
  manager's first data, and there are three zones, or four if low memory does not take
  its zone whole. The machines of `mem_reserve` and `mem_caches` satisfy it, those of the two
  findings do not (two zones), or are not `SaneMap` (a zone at 4 GB). The invariant
  follows the three calls through their frames (`Booting`: the frame, the zone as it is left, the
  descriptors left over), and `Exclusive` of the claims together with the areas reserved
  so far. Each user of `UsersDisjoint` has one of these claims, and no two the same.
* `SlabTypes`, `FreelistsStayExact`, `SlabsArePool`, `RemainingTestsOne`
  (`SlabCache_proof`): `Spec => []TypeOK`, `[]FreelistsExact`, `ImplementsPool` and
  `[]RemainingTest`, for any number and size of objects and slabs, placed anywhere as long as they lie
  apart. The inductive `SlabInv` says of each slab that its freelist is a ring: there are
  nodes `r[0] .. r[n + 1]`, the head at both ends, all between them different, each with
  its `next` and `prev` where the ring says, and they are exactly the slab's objects
  nobody took (`Ring`, `IsFreelist`); the slabs are a ring through `caches` in the order they were added;
  and whatever was taken lies in a slab. `RingInsert` and `RingRemove` are the lemmas about
  `list_insert` and `list_remove`: the new ring, and which nodes keep their
  pointers. They are what lets a client write over the pointers of what it holds: no ring
  goes through it. A new slab is no part of an old one because what was taken lies in the old
  ones (`Given`), so its freelist is full. Walks along the pointers, the loop of
  `cache_initialize` and the sum of `cache_remaining` are recursive functions; each is
  compared with an explicit one, and the least index at which they
  differ does not exist (`SameFromStart`, `Iterates`).
* `NothingOverwritten`, `NoHoles` (`MkKfs_proof`): `Spec => WriteOnce`,
  `Spec => []Dense`, for any number of files and any block sizes. Both follow
  from the inductive `Layout`: the numbers in use are those of the inodes already
  written and of the data and index blocks below `blk_idx`, so the three places a
  block can go to are free.
* `ImagesReadBack`, `InodesCountTheirBlocks`: `Spec => []Readable`,
  `Spec => []SizesAgree`, for files of any length. `ReadInv` says that at every moment
  the direct blocks, the index blocks and the entries of the one under construction, read
  back one behind the other, are the bytes `0 .. offset - 1` of the open file
  (`Underway`), and that each inode written holds what was read of its file
  (`Written`). A step adds a piece at the end (`DataAppend`, `IndexAppend`, `BytesJoin`), and since nothing
  is overwritten everything else reads as before (`HoldsKept`). `FlattenAppend` is the
  lemma about the community module's `FlattenSeq` all of it rests on; `FlattenSeq` and the reader's walk
  along `next_inode` are recursive functions, handled by a least index as above.
  The sizes need `SizesUnderway`: before the end of the file every block is full and
  `offset` is `DataSize` times their number, so that the loops leave at the end of the file or
  with `Direct + Indirect * IndirectCnt` full blocks, which a file that passed the test against
  `MaxFileSize` cannot exceed (`LoopsEnd`); the block with the rest is the one `BlkCnt` rounds up for.
  A file another program changed is excepted from the sizes, not from being read back.
* `ReservationsExclusive`, `ManagerKeepsExclusive` (`Ownership_proof`): `Physical!Spec =>
  []Physical!Exclusive`, the abstract manager never lets two reservations overlap, or a held
  address be available; and with `ManagerRefines` the same of the real one.
* `ResourcesStayExact` (`Media_proof`): `Spec => []ResourcesExact`, for any bitmaps and
  tunes and any number of things held. Between two calls the property is about the heap
  and what the program holds; what makes it inductive is what a call has in its hands:
  `Hands` names, for each place a call can be at, the blocks it has allocated and not yet freed,
  and `HeapInv` says that the heap is these and what the program holds, with nothing
  in common. `ImageInHand` carries what the labels `err`, `err_buf`, `err_img` rely
  on: which of the struct, the array and the rows are there at each call that can fail, that the
  rows behind the present one are NULL, and that the struct is none of the blocks
  freed before it. In `load_anim` the copy of the paths is nothing that the
  animation keeps. `FreshIsFree` (an allocated block is a new one) is a pigeonhole argument.
* `LoadsWhatFilesSay`: `Spec => []LoadedExact`. `Position` relates the offset in the
  file to the number of rows read, after a read and after a skip. The step that
  needs arithmetic is `PaddingLeads`: `(size - width * height) / height` is `size / height -
  width` exactly (`QuotientOfRest`), and where another line follows (`height >= 2`) it
  is below half a word, so that what is computed as unsigned and kept in an int is not negative; with a
  single line it may be, and nothing is read after it.
* `RegistersStaySet`, `TextComesBack`, `PalettesLoad` (`Vga_proof`): `Spec => []RegistersSet`,
  `[]TextRestored`, `[]PaletteLoaded`, for a window of any size (a multiple of the four
  planes), any palettes no longer than the default one and anything drawn. Each loop over a
  port is a recursive function; `LoopRuns` says that a loop whose every round keeps what is
  good ends good, and serves for the pairs of the attribute controller (`AcPairs`), the
  colours (`ColoursWritten`) and the font (`FontRestored`). `RegsWritten` needs no
  hypothesis about the ports: `Unprotect` lifts the protection in whichever state it is
  (`Unprotected`), and reading the status makes the next write an index. The invariant that
  brings the text back is `TextKept`: in mode 13h each byte of the planes is as text mode
  had it or is shown by the window, and of those the font has a copy.
* `DrawingStaysInPlace` (`LibCalls_proof`): `Spec => []DrawingInPlace`, for a screen of any size and
  any font. In `draw_line` the error term after `t` rounds is fixed by `t` and the rows climbed so far, and
  stays in `-dx + 1 .. 0` (`Climbed`, `Climbs`); hence the pixel of each round is within half a pixel
  (`Rounding`), in all octants (`OrientedIs`, `SlantedIs`). Rectangles and images are sets of positions to be
  compared with sets of pixels; a position and its pixel determine each other (`DivIs`, `ModIs`). An
  image that begins left of the screen or above it has a wrapped corner: on a screen
  far from half the range of the coordinates, the wrapped sum is on the screen exactly if the
  signed one is (`Wrapped`). In a text that fits the same holds of the positions of one glyph
  (`CharDrawn`), so that no two of its bits meet and none lies in another's box; the text is a loop over its
  glyphs (`TextWritten`, with `LoopRuns`).
* `MemoryActsAsPromised`: `Spec => []MemoryFaithful`, for memories and strings of any length. What a copying
  loop has done after `k` rounds is what a copy of `k` cells through a buffer gives, from below
  (`CopiesUp`) where the target is below the source or does not meet it, and from above (`CopiesDown`)
  otherwise; a cell is then read before it is overwritten. The comparisons are one (`ComparesAs`):
  through the identity or `tolower`, which keep the end of a string apart from its chars
  (`Keeps`). A comparison looks for the end of its first argument only; both orders stop at the same place all
  the same (`StopsBoth`), which is the first difference of what is read of the strings (`DiffIs`,
  `OrderIs`). `Joined` follows `strcpy` and `strcat` through the memory between them, and says that
  nothing but the two strings and their end is written.
* `HitsStayCounted` (`Roms_proof`): `Spec => []HitsCounted`, for any screen, any number
  of monsters and any table of starts. In the hunter a count and a row of hits
  are updated in different places of a frame, and the row is also cleared when
  a monster is gone; `HCounted` adds that no monster from the present one on has
  been hit, so that clearing takes nothing and a hit is new. Of `HunterAssumption` it needs
  that no monster starts where it is gone at once: the last one stays in flight
  after the end of the game. In the vaders a bullet may overlap several monsters and takes
  the first (`VShoots`); the march that moves them before is a loop whose every round keeps what
  is counted (`VMarch`, with `LoopRuns`). Nothing is assumed of the sizes, which
  are integers: also where the monsters overlap or leave the screen, a dead one is not
  hit again.
* `IndicesStrayOnlyThere` (`Roms_proof`): `Spec => []StraysOnlyWhere`, for any number and size of
  bricks. On the right the second column is at most the one behind the last, and that one only when the
  ball touches the wall (`RightColOf`): in a row that has another below it this is that row's first brick,
  as `mtrx` lies in memory (`HitsInRow`), and in the lowest it is outside. Above the
  bricks the argument is `GapsBelow`: in every row the ball has come up to, or past, there is a
  gap, as long as it is among the bricks. A ball that comes into a row has been over the
  bricks of the row below; in its own row the brick under its left end is gone after the
  frame, whether it was struck or was no longer there (`YAfterBricks`). That this brick
  is one of the row needs where the ball can be (`InField`, `ColOf`: it turns one step
  late at the left wall, where the division of C gives column 0), and the row comes from
  `RowOf` and `HighReaches` (the division takes the space above the first row for the first row).
  `YakanoidAssumption` has what the argument uses of the code's values: the ball is lower than a brick, starts
  between the walls, and is served and caught below the bricks.

Only model-checked: the allocator and its refinement of `Allocator`, the tries (`TreeBin`
uses RECURSIVE operators, which keep it from the prover), what `number` and `vsprintf`
write (`FormatFaithful` reads a number back with folds over its digits, an induction
over data), and liveness, which is outside the prover's reach.

## 6. Not modelled

Left out for good:

* `elf.h`, `multiboot.h`, `iso9660.h`, `atapi.h`: declarations nothing uses, or
  (multiboot) whose one use is the memory map that `KernelMemory` gets as a constant.
* of `malloc.c`: mmap, locks, footers and mspaces, which libk does not compile;
  `mallopt`; `mallinfo`, `malloc_stats`, `inspect_all`, which report.
* `memory_dump`, `panic.c`: output only. `k_main`: spins a cursor.
* the system-call wrappers and `playsound`, `draw_begin`, `draw_end`, `getkey`: no kernel side
  exists at this commit.
* `kfs_checksum`: a number that nothing reads yet; option parsing of the tools.
* what the games draw, their scores, and the tables of pictures (`gfx.c`, the font).
