---------------------------- MODULE WriteService ----------------------------
(***************************************************************************)
(* What memWrite promises each of its callers, whatever the others do: the *)
(* bytes of a call are written all at once or not at all, at one moment    *)
(* before it answers.  MemoryPatch is written against this promise.        *)
(***************************************************************************)
EXTENDS Integers

CONSTANTS Writers, Addrs, Values, Zero

VARIABLES
  mem,     \* byte at each address
  stage,   \* where each writer's call is: none, asked, written
  req,     \* its arguments
  answer   \* what its last call answered

vars == <<mem, stage, req, answer>>

Init ==
  /\ mem = [a \in Addrs |-> Zero]
  /\ stage = [w \in Writers |-> "none"]
  /\ req = [w \in Writers |-> [first |-> 0, last |-> 0, value |-> Zero]]
  /\ answer = [w \in Writers |-> "none"]

Ask(w, f, l, v) ==
  /\ stage[w] = "none"
  /\ f <= l
  /\ stage' = [stage EXCEPT ![w] = "asked"]
  /\ req' = [req EXCEPT ![w] = [first |-> f, last |-> l, value |-> v]]
  /\ answer' = [answer EXCEPT ![w] = "none"]
  /\ UNCHANGED mem

\* The one moment of a call.
Take(w) ==
  /\ stage[w] = "asked"
  /\ mem' = [a \in Addrs |-> IF a \in req[w].first .. req[w].last THEN req[w].value ELSE mem[a]]

Write(w) ==
  /\ Take(w)
  /\ stage' = [stage EXCEPT ![w] = "written"]
  /\ UNCHANGED <<req, answer>>

\* KMS_ERR_PROT alone leaves open whether the bytes were written.
Answers(s) ==
  CASE s = "asked" -> {"KMS_ERR_GET_PAGEINFO", "KMS_ERR_PROT", "KMS_ERR_VMWRITE"}
    [] s = "written" -> {"KMS_SUCCESS", "KMS_ERR_PROT"}
    [] OTHER -> {}

Return(w, code) ==
  /\ stage' = [stage EXCEPT ![w] = "none"]
  /\ answer' = [answer EXCEPT ![w] = code]
  /\ UNCHANGED req

Answer(w) ==
  /\ \E code \in Answers(stage[w]) : Return(w, code)
  /\ UNCHANGED mem

WriteAndAnswer(w) == Take(w) /\ Return(w, "KMS_SUCCESS")

Next ==
  \E w \in Writers :
    \/ \E f, l \in Addrs, v \in Values : Ask(w, f, l, v)
    \/ Write(w)
    \/ Answer(w)
    \/ WriteAndAnswer(w)

Spec == Init /\ [][Next]_vars

=============================================================================
