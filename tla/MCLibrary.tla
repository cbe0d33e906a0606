------------------------------ MODULE MCLibrary ------------------------------
(***************************************************************************)
(* Two parts of the library that meet nowhere: the calls of LibCalls, and  *)
(* the tries of the allocator.  A behaviour is a behaviour of one of them. *)
(***************************************************************************)
EXTENDS MCLibCalls

CONSTANTS Chunk, NoChunk

VARIABLES part, node, bins, treemap, order

TreeSizes == {9, 16, 25, 33, 40, 48, 56}

Trees == INSTANCE TreeBin WITH
    NULL <- NoChunk, TREEBIN_SHIFT <- 3, NTREEBINS <- 4, SIZE_T_BITSIZE <- 6, Sizes <- TreeSizes

ASSUME TreeAssumption == Trees!TreeShape

LibraryInit == part \in {"calls", "tries"} /\ Init /\ Trees!Init

CallsNext == part = "calls" /\ Next /\ UNCHANGED <<part, node, bins, treemap, order>>
TriesNext == part = "tries" /\ Trees!Next /\ UNCHANGED <<part, call, result>>

LibraryNext == CallsNext \/ TriesNext

LibrarySpec ==
    LibraryInit /\ [][LibraryNext]_<<part, call, result, node, bins, treemap, order>>

\* The tries keep the shape malloc.c:3296-3413 checks, through every insertion and removal.
TreesChecked == Trees!TreesChecked

\* tmalloc_large and tmalloc_small (malloc.c:4430-4515) give the best fit.
SearchFinds == Trees!SearchFinds

\* Each chunk lies where its own bits lead (bin_find, malloc.c:3396-3413).
BinFind == Trees!BinFind

\* Which chunk is which does not matter to the tries.
ChunkSymmetry == Permutations(Chunk)
=============================================================================
