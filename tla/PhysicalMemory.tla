--------------------------- MODULE PhysicalMemory ---------------------------
(***************************************************************************)
(* What k/memory.h offers its callers, without blocks or descriptors:      *)
(* memory_reserve gives memory nobody else has, memory_release makes it    *)
(* available again, and nothing else makes memory available.  Memory that  *)
(* is neither available nor held is the manager's own, or lost to it.      *)
(***************************************************************************)
EXTENDS Integers

CONSTANT Addresses     \* every address a block may cover

VARIABLES available,   \* addresses free to reserve
          held         \* the [base, size] reservations clients hold

pvars == <<available, held>>

Covered(r) == r.base .. r.base + r.size - 1
HeldAddresses == UNION {Covered(r) : r \in held}

Init == available \subseteq Addresses /\ held = {}

(* The manager takes memory: for the client whose call is in progress, for *)
(* its own descriptors, for the boot data, or cut off in front of a fixed  *)
(* address.                                                                *)
Take == available' \subseteq available /\ held' = held

(* A client's call returns a range that is nobody else's.                  *)
Grant ==
    \E first, last \in Addresses :
        LET r == [base |-> first, size |-> last - first + 1]
        IN  /\ first <= last
            /\ Covered(r) \subseteq Addresses
            /\ Covered(r) \cap (available \cup HeldAddresses) = {}
            /\ held' = held \cup {r}
            /\ available' = available

Release ==
    \E r \in held :
        /\ held' = held \ {r}
        /\ available' = available \cup Covered(r)

(* A client gives a range to a cache as its storage, for good.             *)
Retire ==
    \E r \in held : held' = held \ {r} /\ available' = available

Next == Take \/ Grant \/ Release \/ Retire
Spec == Init /\ [][Next]_pvars

(* Reservations never overlap, and nothing held is available.              *)
Exclusive ==
    /\ HeldAddresses \cap available = {}
    /\ \A r, s \in held : r # s => Covered(r) \cap Covered(s) = {}
=============================================================================
