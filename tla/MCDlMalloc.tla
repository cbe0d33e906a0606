----------------------------- MODULE MCDlMalloc -----------------------------
(* Small heaps for TLC: pages of 64 bytes, size_t of 12 bits, chunks of 64 *)
(* bytes and more in the tries.                                             *)
EXTENDS DlMalloc

SomeProducts == {<<64, 65>>, <<2, 10>>}
SomeArrays == {<<20, 60>>}
=============================================================================
