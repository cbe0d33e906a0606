----------------------------- MODULE ObjectPool -----------------------------
(* What a cache of k/memory.h offers: cache_alloc gives an object nobody   *)
(* holds, cache_free takes one back.                                       *)
EXTENDS Naturals

CONSTANT Objects
VARIABLE holders    \* holders[o]: how often o was given and not taken back

Init == holders = [o \in Objects |-> 0]
Alloc ==
    \E o \in Objects : holders[o] = 0 /\ holders' = [holders EXCEPT ![o] = 1]
Free ==
    \E o \in Objects : holders[o] = 1 /\ holders' = [holders EXCEPT ![o] = 0]
Next == Alloc \/ Free
Spec == Init /\ [][Next]_holders
=============================================================================
