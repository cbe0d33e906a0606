--------------------------- MODULE MCKernelMemory ---------------------------
(* Small instances of KernelMemory for TLC.  One unit of address stands    *)
(* for the size of a descriptor.                                           *)
EXTENDS KernelMemory

Zone(addr, len, type) == [addr |-> addr, len |-> len, type |-> type]

(* Low memory, a hole, the memory the kernel is loaded in.                 *)
PcZones == << Zone(0, 4, 1), Zone(4, 4, 2), Zone(8, 28, 1) >>
SmallZones == << Zone(0, 4, 1), Zone(4, 4, 2), Zone(8, 25, 1) >>

(* A boot loader that lists usable memory only.                            *)
TwoZones == << Zone(0, 4, 1), Zone(8, 28, 1) >>

(* A machine with memory above the 32-bit address space (Word = 64).       *)
HighZones == << Zone(0, 4, 1), Zone(4, 4, 2), Zone(8, 28, 1),
                Zone(64, 16, 1) >>

OneModule == <<10>>

Anywhere(n) == [base |-> 0, size |-> n]
Fixed(b, n) == [base |-> b, size |-> n]
OneRequest == {Anywhere(1)}
SomeRequests == {Anywhere(1), Anywhere(2), Fixed(30, 2)}
=============================================================================
