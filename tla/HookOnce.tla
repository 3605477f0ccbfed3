------------------------------ MODULE HookOnce ------------------------------
(***************************************************************************)
(* The engine of a program that makes one API call (MaxCalls = 1), seen as *)
(* the abstract HookService.  The bindings take effect with the first      *)
(* set_state: until then no register is armed, and the half-stored table   *)
(* is nobody's business.                                                   *)
(***************************************************************************)
EXTENDS HookEngine

FirstSlot(a, i) ==
  /\ i \in 1..active_hooks
  /\ hookAddress[i] = a
  /\ \A j \in 1..(i - 1) : hookAddress[j] # a

Bound ==
  [a \in Addr |->
     IF pc = "store" \/ ~ \E i \in Slots : FirstSlot(a, i)
     THEN NoFunc
     ELSE hookFunction[CHOOSE i \in Slots : FirstSlot(a, i)]]

Service == INSTANCE HookService
             WITH bound <- Bound, at <- trapped, down <- dead

\* A program that installs its hooks once sees the service HookService
\* promises: every hit of an armed address lands on the function paired with
\* it, also for threads hit before Zexis has returned, threads started in
\* between and calls the kernel refused halfway; no hit ends the process.
ImplementsService == Service!Spec

=============================================================================
