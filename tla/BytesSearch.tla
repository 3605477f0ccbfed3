----------------------------- MODULE BytesSearch -----------------------------
(***************************************************************************)
(* findBytesAll and findBytesFirst of KittyScanner.cpp, on which the       *)
(* searches for hexadecimal, IDA and data patterns all end: a pattern of   *)
(* bytes and wildcards is looked for in the range start..end-1 of memory,  *)
(* for all matches or for the first.  Module PatternText reads the texts   *)
(* such patterns are given as.  Memory does not change during a search.    *)
(***************************************************************************)
EXTENDS Integers, Sequences

CONSTANTS
  Top,       \* addresses are 1..Top; 0 is the answer "not found"
  Bytes,     \* bytes the memory may hold
  Patterns   \* what is looked for: a byte and a mask for each position

Masked == [byte : Int, mask : {"x", "?"}]

ASSUME SearchAssumption ==
  /\ Top \in Nat \ {0}
  /\ Bytes \subseteq Int
  /\ Patterns \subseteq Seq(Masked)

VARIABLES
  mem,
  start, end,  \* the range, end excluded
  pattern,     \* bytes and mask
  all,         \* findBytesAll, not findBytesFirst
  pc,
  from,        \* where findInRange is called to start
  i,           \* its loop variable
  list         \* matches found

request == <<mem, start, end, pattern, all>>
vars == <<request, pc, from, i, list>>

Addr == 1..Top
Size == Len(pattern)

Init ==
  /\ mem \in [Addr -> Bytes]
  /\ start \in Addr
  /\ end \in 1..(Top + 1)
  /\ pattern \in Patterns
  /\ all \in BOOLEAN
  /\ pc = "begin"
  /\ from = start
  /\ i = 0
  /\ list = <<>>

\* An empty range and an empty pattern are answered at once.
Begin ==
  /\ pc = "begin"
  /\ pc' = IF start >= end \/ pattern = <<>> THEN "done" ELSE "call"
  /\ UNCHANGED <<request, from, i, list>>

\* findInRange is called; there is room for one match, or the search is over.
FindInRange ==
  /\ pc = "call"
  /\ i' = 0
  /\ pc' = IF from + Size > end THEN "done" ELSE "range"
  /\ UNCHANGED <<request, from, list>>

compare(a) == \A k \in 1..Size : pattern[k].mask = "x" => mem[a + k - 1] = pattern[k].byte

Fits(a) == a + Size <= end

\* The search goes on behind the match.
AfterGap(a) == a + Size + 1  \* mutated: one byte is passed over
After(a) == a + Size

Found(a) ==
  /\ list' = Append(list, a)
  /\ pc' = IF all THEN "call" ELSE "done"
  /\ from' = After(a)
  /\ UNCHANGED i

Iterate ==
  /\ pc = "range"
  /\ \/ /\ ~Fits(from + i)
        /\ pc' = "done"
        /\ UNCHANGED <<from, i, list>>
     \/ /\ Fits(from + i)
        /\ compare(from + i)
        /\ Found(from + i)
     \/ /\ Fits(from + i)
        /\ ~compare(from + i)
        /\ i' = i + 1
        /\ UNCHANGED <<pc, from, list>>
  /\ UNCHANGED request

Next == Begin \/ FindInRange \/ Iterate

Spec == Init /\ [][Next]_vars

-----------------------------------------------------------------------------
(* Properties                                                              *)

Match(a) == \A k \in 1..Size : pattern[k].mask = "?" \/ pattern[k].byte = mem[a + k - 1]
Places == {a \in start..(end - Size) : Match(a)}
Listed == {list[k] : k \in 1..Len(list)}

\* Types; the loop looks at no byte outside the range.
TypeOK ==
  /\ mem \in [Addr -> Bytes]
  /\ start \in Addr
  /\ end \in 1..(Top + 1)
  /\ pattern \in Seq(Masked)
  /\ all \in BOOLEAN
  /\ pc \in {"begin", "call", "range", "done"}
  /\ from \in 1..(Top + 1)
  /\ i \in Nat
  /\ pc = "range" => from + i + Size <= end + 1
  /\ list \in Seq(Addr)

\* What the code does, which is less than the header says (see ListsAll): a
\* finished search has listed only matches, in rising order and without overlap,
\* and any match of the range overlaps one that is listed and begins no later
\* (the first alone being listed, begins no earlier).
ListedMatches ==
  (pc = "done" /\ pattern # <<>>) =>
    /\ Listed \subseteq Places
    /\ \A k \in 2..Len(list) : list[k] >= list[k - 1] + Size
    /\ \A p \in Places : \E a \in Listed : a <= p /\ (all => p < a + Size)

\* KittyScanner.hpp:19: "return all results", and 26: "vector list of all found
\* bytes addresses".
ListsAll == (pc = "done" /\ all) => pattern = <<>> \/ Places \subseteq Listed

-----------------------------------------------------------------------------
(* The inductive invariant                                                 *)

\* What is behind the point the search has come to is settled: no match
\* there but those that one of the list overlaps.
Reached == IF pc = "range" THEN from + i ELSE from

SettledBehind ==
  /\ Listed \subseteq Places
  /\ \A k \in 2..Len(list) : list[k] >= list[k - 1] + Size
  /\ list # <<>> => from >= list[Len(list)] + Size
  /\ \A p \in Places : p < Reached => \E a \in Listed : a <= p /\ p < a + Size

IInv ==
  /\ TypeOK
  /\ from >= start
  /\ pc \in {"call", "range"} => pattern # <<>>
  /\ SettledBehind
  /\ (pc = "done" /\ pattern # <<>>) =>
       \A p \in Places : \E a \in Listed : a <= p /\ (all => p < a + Size)

=============================================================================
