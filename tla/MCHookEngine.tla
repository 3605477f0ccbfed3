---------------------------- MODULE MCHookEngine ----------------------------
(* HookEngine on small instances.                                          *)
EXTENDS HookEngine, TLC

Symmetry == Permutations(Threads) \cup Permutations(Addr) \cup Permutations(Func)
=============================================================================
