------------------------------ MODULE Allocator ------------------------------
(***************************************************************************)
(* What libk's malloc family promises its callers (stdlib.h): blocks that  *)
(* are aligned and share no byte; a block changes only when its holder     *)
(* asks for it.  DlMalloc implements this specification.                   *)
(***************************************************************************)
EXTENDS Integers

CONSTANT Alignment   \* MALLOC_ALIGNMENT

VARIABLE held        \* address of a block -> its bytes

Bytes(h, a) == a .. a + h[a] - 1

Sound(h) == \A a \in DOMAIN h :
    /\ a % Alignment = 0
    /\ \A b \in DOMAIN h \ {a} : Bytes(h, a) \cap Bytes(h, b) = {}

Same(h, g, S) == \A a \in S : a \in DOMAIN h /\ a \in DOMAIN g /\ h[a] = g[a]

Init == held = [a \in {} |-> 0]

Allocate == Same(held, held', DOMAIN held) /\ Sound(held')

Release == Same(held, held', DOMAIN held') /\ Sound(held')

\* One block is resized, in place or elsewhere; the others stay.
Resize == \E a \in DOMAIN held, b \in DOMAIN held' :
    /\ Same(held, held', DOMAIN held \ {a})
    /\ DOMAIN held' = (DOMAIN held \ {a}) \cup {b}
    /\ Sound(held')

Next == Allocate \/ Release \/ Resize

Spec == Init /\ [][Next]_held
=============================================================================
