----------------------------- MODULE MCHookOnce -----------------------------
(* HookOnce on small instances.                                            *)
EXTENDS HookOnce
=============================================================================
