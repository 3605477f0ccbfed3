----------------------------- MODULE HookService -----------------------------
(***************************************************************************)
(* What the hook engine promises a program that installs its hooks once:   *)
(* the bindings appear all at once, a thread that reaches a bound address  *)
(* waits and then goes on in the function bound to it, and the process is  *)
(* never brought down by a hit.                                            *)
(***************************************************************************)
CONSTANTS Threads, Addr, Func, NoAddr, NoFunc

VARIABLES
  bound,   \* the function bound to each address, or NoFunc
  at,      \* the address each thread waits at, or NoAddr
  landed,  \* the function each thread was last sent to
  down     \* the process has ended on a hit

vars == <<bound, at, landed, down>>

Unbound == [a \in Addr |-> NoFunc]

Init ==
  /\ bound = Unbound
  /\ at = [t \in Threads |-> NoAddr]
  /\ landed = [t \in Threads |-> NoFunc]
  /\ down = FALSE

\* The one installation.
Bind(m) ==
  /\ bound = Unbound
  /\ bound' = m
  /\ UNCHANGED <<at, landed, down>>

Hit(t, a) ==
  /\ at[t] = NoAddr
  /\ bound[a] # NoFunc
  /\ at' = [at EXCEPT ![t] = a]
  /\ UNCHANGED <<bound, landed, down>>

Land(t) ==
  /\ at[t] # NoAddr
  /\ landed' = [landed EXCEPT ![t] = bound[at[t]]]
  /\ at' = [at EXCEPT ![t] = NoAddr]
  /\ UNCHANGED <<bound, down>>

Next ==
  \/ \E m \in [Addr -> Func \cup {NoFunc}] : Bind(m)
  \/ \E t \in Threads, a \in Addr : Hit(t, a)
  \/ \E t \in Threads : Land(t)

Spec == Init /\ [][Next]_vars

=============================================================================
