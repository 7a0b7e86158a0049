----------------------------- MODULE MCSafeMap -----------------------------
(* Small instances of SafeMap, and the mutated operations that its          *)
(* properties are tried on.                                                 *)
EXTENDS SafeMap, TLC

Symmetry == Permutations(Key) \cup Permutations(Val)
=============================================================================
