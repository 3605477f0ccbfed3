-------------------------- MODULE BytesSearchProofs --------------------------
(***************************************************************************)
(* The search of BytesSearch lists what it should, for every memory, range *)
(* and pattern, and so does the one of Scanner, for every pattern that it  *)
(* reads from a text; and what it reads is what the text was meant to say. *)
(* The invariant of the search says that it has settled all that lies      *)
(* behind the address it has come to; the one of the reader, where in the  *)
(* layout of the text it stands and that it has read all before that.      *)
(***************************************************************************)
EXTENDS Scanner, WellFoundedInduction, TLAPS

LEMMA PatternShape ==
  ASSUME TypeOK
  PROVE  /\ Size \in Nat
         /\ \A k \in 1..Size : pattern[k].mask \in {"x", "?"}
         /\ pattern # <<>> => Size >= 1
<1>1. pattern \in Seq(Masked)
  BY DEF TypeOK
<1>2. Size \in Nat
  BY <1>1 DEF Size
<1>3. \A k \in 1..Size : pattern[k] \in Masked
  BY <1>1, <1>2 DEF Size
<1>4. pattern # <<>> => Size >= 1
  BY <1>1, <1>2 DEF Size
<1> QED
  BY <1>2, <1>3, <1>4 DEF Masked

\* The comparison of the code and the meaning of a pattern agree, as a mask
\* has no third character.
LEMMA CompareIsMatch ==
  ASSUME TypeOK, NEW a
  PROVE  compare(a) <=> Match(a)
<1>1. \A k \in 1..Size : pattern[k].mask \in {"x", "?"}
  BY PatternShape
<1> QED
  BY <1>1 DEF compare, Match

LEMMA ListedElements ==
  ASSUME TypeOK
  PROVE  /\ Len(list) \in Nat
         /\ \A k \in 1..Len(list) : list[k] \in Int
         /\ list = <<>> => Listed = {}
         /\ list # <<>> => Len(list) >= 1
<1>1. list \in Seq(Addr)
  BY DEF TypeOK
<1>2. Len(list) \in Nat
  BY <1>1
<1>3. \A k \in 1..Len(list) : list[k] \in Int
  <2>1. \A k \in 1..Len(list) : list[k] \in Addr
    BY <1>1
  <2> QED
    BY <2>1 DEF Addr
<1>4. list # <<>> => Len(list) >= 1
  BY <1>1
<1>5. list = <<>> => Listed = {}
  BY DEF Listed
<1> QED
  BY <1>2, <1>3, <1>4, <1>5

\* A search that has not begun has settled nothing and claims nothing.
LEMMA UncalledHolds == TypeOK /\ Uncalled => IInv
<1> SUFFICES ASSUME TypeOK, Uncalled PROVE IInv
  OBVIOUS
<1>1. Size \in Nat
  BY PatternShape
<1>2. Listed = {}
  BY DEF Uncalled, Listed
<1>3. SettledBehind
  <2>1. Reached = start
    BY DEF Uncalled, Reached
  <2>2. \A p \in Places : p >= start
    BY <1>1 DEF Places, TypeOK, Addr
  <2>3. Places \subseteq Int /\ start \in Int
    BY <1>1 DEF Places, TypeOK, Addr
  <2> QED
    BY <1>2, <2>1, <2>2, <2>3 DEF SettledBehind, Uncalled
<1>4. from >= start /\ pc \notin {"call", "range", "done"}
  BY DEF Uncalled, TypeOK, Addr
<1> QED
  BY <1>3, <1>4 DEF IInv

LEMMA InitHolds == Init => IInv
<1> SUFFICES ASSUME Init PROVE IInv
  OBVIOUS
<1>1. TypeOK
  BY SearchAssumption DEF Init, TypeOK, Addr
<1> QED
  BY <1>1, UncalledHolds DEF Init, Uncalled

\* The request stays, and with it what is to be found.
LEMMA RequestStays ==
  ASSUME UNCHANGED request
  PROVE  /\ Size' = Size
         /\ Places' = Places
         /\ mem' = mem /\ start' = start /\ end' = end
         /\ pattern' = pattern /\ all' = all
BY DEF request, Size, Places, Match

LEMMA BeginStep == IInv /\ Begin => IInv'
<1> SUFFICES ASSUME IInv, Begin PROVE IInv'
  OBVIOUS
<1>0. TypeOK /\ SettledBehind
  BY DEF IInv
<1>1. UNCHANGED request /\ from' = from /\ i' = i /\ list' = list /\ pc = "begin"
  BY DEF Begin
<1>2. Size' = Size /\ Places' = Places /\ start' = start /\ pattern' = pattern /\ end' = end
  BY <1>1, RequestStays
<1>3. TypeOK'
  BY <1>0, <1>1, <1>2 DEF TypeOK, Begin, request
<1>4. Listed' = Listed
  BY <1>1 DEF Listed
<1>5. Reached' = Reached /\ Reached = from
  BY <1>1 DEF Reached, Begin
<1>6. SettledBehind'
  BY <1>0, <1>1, <1>2, <1>4, <1>5 DEF SettledBehind
<1>7. (pc' = "done" /\ pattern # <<>>) => Places = {}
  <2> SUFFICES ASSUME pc' = "done", pattern # <<>> PROVE Places = {}
    OBVIOUS
  <2>1. start >= end
    BY DEF Begin
  <2>2. Size \in Nat /\ Size >= 1
    BY <1>0, PatternShape
  <2> QED
    BY <1>0, <2>1, <2>2 DEF Places, TypeOK, Addr
<1>8. pc' \in {"call", "range"} => pattern # <<>>
  BY DEF Begin
<1> QED
  BY <1>1, <1>2, <1>3, <1>6, <1>7, <1>8 DEF IInv

LEMMA FindInRangeStep == IInv /\ FindInRange => IInv'
<1> SUFFICES ASSUME IInv, FindInRange PROVE IInv'
  OBVIOUS
<1>0. TypeOK /\ SettledBehind /\ pattern # <<>>
  BY DEF IInv, FindInRange
<1>1. UNCHANGED request /\ from' = from /\ i' = 0 /\ list' = list /\ pc = "call"
  BY DEF FindInRange
<1>2. Size' = Size /\ Places' = Places /\ start' = start /\ pattern' = pattern /\ end' = end /\ all' = all
  BY <1>1, RequestStays
<1>3. Size \in Nat /\ Size >= 1
  BY <1>0, PatternShape
<1>4. /\ from \in Int /\ end \in Int /\ start \in Int
      /\ pc' \in {"range", "done"}
      /\ pc' = "range" => from + Size <= end
      /\ pc' = "done" => from + Size > end
  BY <1>0, <1>3 DEF TypeOK, FindInRange, Addr
<1>5. TypeOK'
  <2>1. pc' = "range" => from' + i' + Size' <= end' + 1
    BY <1>1, <1>2, <1>3, <1>4
  <2> QED
    BY <1>0, <1>1, <1>4, <2>1 DEF TypeOK, request
<1>6. Listed' = Listed
  BY <1>1 DEF Listed
<1>7. Reached' = Reached /\ Reached = from
  BY <1>1, <1>4 DEF Reached
<1>8. SettledBehind'
  BY <1>0, <1>1, <1>2, <1>6, <1>7 DEF SettledBehind
<1>9. pc' = "done" => \A p \in Places : \E a \in Listed : a <= p /\ p < a + Size
  <2>1. pc' = "done" => \A p \in Places : p < from
    BY <1>3, <1>4 DEF Places
  <2> QED
    BY <1>0, <1>7, <2>1 DEF SettledBehind
<1> QED
  BY <1>0, <1>1, <1>2, <1>5, <1>6, <1>8, <1>9 DEF IInv

\* One turn of the loop of findInRange that finds no match.
LEMMA IterateOnStep ==
  ASSUME IInv, Iterate, list' = list
  PROVE  IInv'
<1>0. TypeOK /\ SettledBehind /\ pattern # <<>> /\ pc = "range" /\ from >= start
  BY DEF IInv, Iterate
<1>1. list' # Append(list, from + i)
  BY <1>0 DEF TypeOK
<1>2. UNCHANGED request
  BY DEF Iterate
<1>3. Size' = Size /\ Places' = Places /\ start' = start /\ pattern' = pattern /\ end' = end /\ all' = all
  BY <1>2, RequestStays
<1>4. Size \in Nat /\ Size >= 1 /\ from \in Int /\ i \in Nat /\ end \in Int /\ start \in Int
  BY <1>0, PatternShape DEF TypeOK, Addr
<1>5. from' = from
  BY <1>1 DEF Iterate, Found
<1>6. \/ /\ from + i + Size > end
         /\ pc' = "done" /\ i' = i
      \/ /\ from + i + Size <= end
         /\ ~Match(from + i)
         /\ pc' = "range" /\ i' = i + 1
  BY <1>0, <1>1, <1>4, CompareIsMatch DEF Iterate, Found, Fits
<1>7. TypeOK'
  <2>1. pc' = "range" => from' + i' + Size' <= end' + 1
    BY <1>3, <1>4, <1>5, <1>6
  <2>2. i' \in Nat /\ pc' \in {"range", "done"}
    BY <1>4, <1>6
  <2> QED
    BY <1>0, <1>2, <1>5, <2>1, <2>2 DEF TypeOK, request
<1>8. Listed' = Listed
  BY DEF Listed
<1>9. Reached = from + i
  BY <1>0 DEF Reached
<1>10. \A p \in Places : p < from + i => \E a \in Listed : a <= p /\ p < a + Size
  BY <1>0, <1>9 DEF SettledBehind
<1>11. CASE pc' = "done"
  <2>1. from + i + Size > end
    BY <1>6, <1>11
  <2>2. \A p \in Places : p < from + i
    BY <1>4, <2>1 DEF Places
  <2>3. \A p \in Places : \E a \in Listed : a <= p /\ p < a + Size
    BY <1>10, <2>2
  <2>4. SettledBehind'
    BY <1>0, <1>3, <1>5, <1>8, <2>3 DEF SettledBehind
  <2> QED
    BY <1>0, <1>3, <1>5, <1>7, <1>8, <1>11, <2>3, <2>4 DEF IInv
<1>12. CASE pc' = "range"
  <2>1. Reached' = from + i + 1
    BY <1>4, <1>5, <1>6, <1>12 DEF Reached
  <2>2. from + i \notin Places
    BY <1>6, <1>12 DEF Places
  <2>3. \A p \in Places : p < from + i + 1 => p < from + i
    BY <1>4, <2>2 DEF Places
  <2>4. SettledBehind'
    BY <1>0, <1>3, <1>5, <1>8, <1>10, <2>1, <2>3 DEF SettledBehind
  <2> QED
    BY <1>0, <1>3, <1>5, <1>7, <1>12, <2>4 DEF IInv
<1> QED
  BY <1>6, <1>11, <1>12

\* The turn that finds a match: it is the first behind those listed.
LEMMA FoundStep ==
  ASSUME IInv, Iterate, list' # list
  PROVE  IInv'
<1> DEFINE a == from + i
<1>0. TypeOK /\ SettledBehind /\ pattern # <<>> /\ pc = "range" /\ from >= start
  BY DEF IInv, Iterate
<1>1. UNCHANGED request /\ Fits(a) /\ compare(a) /\ Found(a)
  BY DEF Iterate
<1>2. Size' = Size /\ Places' = Places /\ start' = start /\ pattern' = pattern /\ end' = end /\ all' = all
  BY <1>1, RequestStays
<1>3. Size \in Nat /\ Size >= 1 /\ from \in Int /\ i \in Nat /\ end \in 1..(Top + 1)
      /\ start \in Addr /\ from \in 1..(Top + 1) /\ Top \in Nat
  BY <1>0, PatternShape, SearchAssumption DEF TypeOK
<1>4. list' = Append(list, a) /\ from' = a + Size /\ i' = i /\ pc' \in {"call", "done"}
  BY <1>1 DEF Found, After
<1>5. a + Size <= end /\ a \in Addr /\ a >= from
  BY <1>1, <1>3 DEF Fits, Addr
<1>6. a \in Places
  <2>1. Match(a)
    BY <1>0, <1>1, CompareIsMatch
  <2> QED
    BY <1>0, <1>3, <1>5, <2>1 DEF Places, Addr
<1>7. TypeOK'
  <2>1. from' \in 1..(Top + 1)
    BY <1>3, <1>4, <1>5 DEF Addr
  <2>2. list' \in Seq(Addr)
    BY <1>0, <1>4, <1>5 DEF TypeOK
  <2> QED
    BY <1>0, <1>1, <1>4, <2>1, <2>2 DEF TypeOK, request
<1>8. /\ Len(list) \in Nat
      /\ Len(list') = Len(list) + 1
      /\ \A k \in 1..Len(list) : list'[k] = list[k] /\ list[k] \in Int
      /\ list'[Len(list) + 1] = a
      /\ list' # <<>>
      /\ list # <<>> => Len(list) >= 1
  <2>1. list \in Seq(Addr) /\ a \in Addr
    BY <1>0, <1>5 DEF TypeOK
  <2>2. \A k \in 1..Len(list) : list[k] \in Int
    BY <1>0, ListedElements
  <2>3. list' = Append(list, a)
    BY <1>4
  <2> HIDE DEF a
  <2>4. /\ Len(list) \in Nat
        /\ Len(list') = Len(list) + 1
        /\ \A k \in 1..Len(list) : list'[k] = list[k]
        /\ list'[Len(list) + 1] = a
    BY <2>1, <2>3
  <2>5. list' # <<>> /\ (list # <<>> => Len(list) >= 1)
    BY <2>1, <2>3
  <2> QED
    BY <2>2, <2>4, <2>5
<1>9. Listed' = Listed \cup {a}
  BY <1>8 DEF Listed
<1>10. Reached' = a + Size
  BY <1>4 DEF Reached
<1>11. \A k \in 2..Len(list') : list'[k] >= list'[k - 1] + Size
  <2> SUFFICES ASSUME NEW k \in 2..Len(list') PROVE list'[k] >= list'[k - 1] + Size
    OBVIOUS
  <2>1. CASE k <= Len(list)
    <3>1. k \in 2..Len(list) /\ k \in 1..Len(list) /\ k - 1 \in 1..Len(list)
      BY <1>8, <2>1
    <3> QED
      BY <1>0, <1>8, <3>1 DEF SettledBehind
  <2>2. CASE k = Len(list) + 1
    <3>1. k - 1 = Len(list) /\ Len(list) \in 1..Len(list) /\ list # <<>>
      BY <1>8, <2>2
    <3>2. from >= list[Len(list)] + Size
      BY <1>0, <3>1 DEF SettledBehind
    <3> QED
      BY <1>3, <1>5, <1>8, <2>2, <3>1, <3>2 DEF Addr
  <2> QED
    BY <1>8, <2>1, <2>2
<1>12. \A p \in Places : p < a + Size => \E b \in Listed \cup {a} : b <= p /\ p < b + Size
  <2> SUFFICES ASSUME NEW p \in Places, p < a + Size
               PROVE  \E b \in Listed \cup {a} : b <= p /\ p < b + Size
    OBVIOUS
  <2>1. p \in Int
    BY <1>3 DEF Places, Addr
  <2>2. CASE p < a
    <3>1. Reached = a
      BY <1>0 DEF Reached
    <3> QED
      BY <1>0, <2>2, <3>1 DEF SettledBehind
  <2>3. CASE p >= a
    BY <2>3
  <2> QED
    BY <1>3, <2>1, <2>2, <2>3
<1>13. SettledBehind'
  <2>1. list'[Len(list')] = a
    BY <1>8
  <2>2. from' >= list'[Len(list')] + Size
    BY <1>3, <1>4, <2>1
  <2>3. Listed' \subseteq Places'
    BY <1>0, <1>2, <1>6, <1>9 DEF SettledBehind
  <2> QED
    BY <1>2, <1>9, <1>10, <1>11, <1>12, <2>2, <2>3 DEF SettledBehind
<1>14. from' >= start'
  BY <1>0, <1>2, <1>3, <1>4, <1>5 DEF Addr
<1>15. pc' = "done" => \A p \in Places : \E b \in Listed \cup {a} : b <= p /\ (all => p < b + Size)
  <2> SUFFICES ASSUME pc' = "done", NEW p \in Places
               PROVE  \E b \in Listed \cup {a} : b <= p /\ (all => p < b + Size)
    OBVIOUS
  <2>1. ~all
    BY <1>1 DEF Found
  <2>2. p \in Int
    BY <1>3 DEF Places, Addr
  <2>3. CASE p < a + Size
    BY <1>12, <2>3
  <2>4. CASE p >= a
    BY <2>1, <2>4
  <2> QED
    BY <1>3, <2>2, <2>3, <2>4
<1> QED
  BY <1>0, <1>2, <1>4, <1>7, <1>9, <1>13, <1>14, <1>15 DEF IInv

LEMMA SearchSteps == IInv /\ [Next]_vars => IInv'
<1> SUFFICES ASSUME IInv, [Next]_vars PROVE IInv'
  OBVIOUS
<1>1. CASE Begin
  BY <1>1, BeginStep
<1>2. CASE FindInRange
  BY <1>2, FindInRangeStep
<1>3. CASE Iterate
  BY <1>3, IterateOnStep, FoundStep
<1>4. CASE UNCHANGED vars
  <2>1. UNCHANGED <<mem, start, end, pattern, all, pc, from, i, list>>
    BY <1>4 DEF vars, request
  <2> QED
    BY <2>1 DEF IInv, TypeOK, SettledBehind, Places, Match, Listed, Reached, Size
<1> QED
  BY <1>1, <1>2, <1>3, <1>4 DEF Next

\* The inductive invariant of the search: every step keeps it.
THEOREM SearchInvariant == Spec => []IInv
  BY InitHolds, SearchSteps, PTL DEF Spec

\* Every reachable state is well typed: neither loop leaves the range asked
\* for.
THEOREM TypeCorrect == Spec => []TypeOK
<1>1. IInv => TypeOK
  BY DEF IInv
<1> QED
  BY <1>1, SearchInvariant, PTL

\* A finished search has listed matches only, rising and apart, and left
\* none out but those that overlap one it listed.
THEOREM SearchCorrect == Spec => []ListedMatches
<1>1. IInv => ListedMatches
  BY DEF IInv, SettledBehind, ListedMatches
<1> QED
  BY <1>1, SearchInvariant, PTL

-----------------------------------------------------------------------------
(* Texts                                                                   *)

\* The least number of a set.
LEMMA LeastOf ==
  ASSUME NEW N \in SUBSET Nat, N # {}
  PROVE  \E x \in N : \A y \in N : x <= y
<1> DEFINE R == OpToRel(<, Nat)
<1>1. IsWellFoundedOn(R, Nat)
  BY NatLessThanWellFounded
<1>2. \A x, y \in Nat : x < y => <<x, y>> \in R
  BY DEF OpToRel
<1> HIDE DEF R
<1>3. PICK x \in N : \A y \in N : ~(<<y, x>> \in R)
  BY <1>1, WFMin
<1>4. \A y \in N : ~(y < x)
  BY <1>2, <1>3
<1> QED
  BY <1>4

\* The function by which FlattenSeq joins the sequences it is given.
Joined(seqs, f) ==
  f = [k \in 1..Len(seqs) |-> IF k = 1 THEN seqs[k] ELSE f[k - 1] \o seqs[k]]

LEMMA JoinedExists ==
  ASSUME NEW C, NEW seqs \in Seq(Seq(C))
  PROVE  \E f : Joined(seqs, f)
<1> DEFINE L == Len(seqs)
           Step(f, k) == IF k = 1 THEN seqs[k] ELSE f[k - 1] \o seqs[k]
           Partly(f, n) == /\ f = [k \in 1..L |-> f[k]]
                           /\ \A k \in 1..L : k <= n => f[k] = Step(f, k)
           N == {n \in Nat : ~\E f : Partly(f, n)}
<1>0. L \in Nat
  OBVIOUS
<1> HIDE DEF L
<1>1. N = {}
  <2> SUFFICES ASSUME N # {} PROVE FALSE
    OBVIOUS
  <2> HIDE DEF N
  <2>0. N \in SUBSET Nat
    BY DEF N
  <2>1. PICK n \in N : \A m \in N : n <= m
    BY <2>0, LeastOf
  <2>2. CASE n = 0
    <3> DEFINE f == [k \in 1..L |-> k]
    <3>1. f = [k \in 1..L |-> f[k]]
      OBVIOUS
    <3>2. \A k \in 1..L : ~(k <= 0)
      BY <1>0
    <3> HIDE DEF f, Step
    <3>3. Partly(f, 0)
      BY <3>1, <3>2
    <3> QED
      BY <3>3, <2>1, <2>2 DEF N
  <2>3. CASE n # 0
    <3>1. n \in Nat /\ n - 1 \in Nat /\ n - 1 \notin N
      BY <2>0, <2>1, <2>3
    <3>2. PICK f : Partly(f, n - 1)
      BY <3>1 DEF N
    <3> DEFINE g == [k \in 1..L |-> Step(f, k)]
    <3>3. g = [k \in 1..L |-> g[k]]
      OBVIOUS
    <3>4. \A k \in 1..L : k <= n - 1 => g[k] = f[k]
      BY <3>2
    <3>5. ASSUME NEW k \in 1..L, k <= n PROVE g[k] = Step(g, k)
      <4>1. CASE k = 1
        BY <4>1
      <4>2. CASE k # 1
        <5>1. k - 1 \in 1..L /\ k - 1 <= n - 1
          BY <1>0, <3>1, <3>5, <4>2
        <5>2. g[k - 1] = f[k - 1]
          BY <3>4, <5>1
        <5>3. g[k] = f[k - 1] \o seqs[k]
          BY <4>2
        <5> QED
          BY <4>2, <5>2, <5>3
      <4> QED
        BY <4>1, <4>2
    <3> HIDE DEF g, Step
    <3>6. Partly(g, n)
      BY <3>3, <3>5
    <3> QED
      BY <3>1, <3>6, <2>1 DEF N
  <2> QED
    BY <2>2, <2>3
<1>2. PICK f : Partly(f, L)
  BY <1>0, <1>1
<1>3. \A k \in 1..L : k <= L
  BY <1>0
<1> HIDE DEF Step
<1>4. f = [k \in 1..L |-> f[k]] /\ \A k \in 1..L : f[k] = Step(f, k)
  BY <1>2, <1>3
<1>5. f = [k \in 1..L |-> Step(f, k)]
  BY <1>4
<1> QED
  BY <1>5 DEF Joined, L, Step

LEMMA JoinedTypes ==
  ASSUME NEW C, NEW seqs \in Seq(Seq(C)), NEW f, Joined(seqs, f)
  PROVE  \A k \in 1..Len(seqs) : f[k] \in Seq(C)
<1> DEFINE N == {k \in 1..Len(seqs) : f[k] \notin Seq(C)}
<1>1. N = {}
  <2> SUFFICES ASSUME N # {} PROVE FALSE
    OBVIOUS
  <2> HIDE DEF N
  <2>0. N \in SUBSET Nat
    BY DEF N
  <2>1. PICK n \in N : \A m \in N : n <= m
    BY <2>0, LeastOf
  <2>2. n \in 1..Len(seqs) /\ f[n] \notin Seq(C) /\ seqs[n] \in Seq(C)
    BY <2>1 DEF N
  <2>3. f[n] = IF n = 1 THEN seqs[n] ELSE f[n - 1] \o seqs[n]
    BY <2>2 DEF Joined
  <2>4. n # 1
    BY <2>2, <2>3
  <2>5. n - 1 \in 1..Len(seqs) /\ n - 1 \notin N
    BY <2>0, <2>1, <2>2, <2>4
  <2>6. f[n - 1] \in Seq(C)
    BY <2>5 DEF N
  <2> QED
    BY <2>2, <2>3, <2>4, <2>6
<1> QED
  BY <1>1

\* Sequences over a set are joined to one over it.
LEMMA FlattenTypes ==
  ASSUME NEW C, NEW seqs \in Seq(Seq(C))
  PROVE  T!FlattenSeq(seqs) \in Seq(C)
<1>1. CASE Len(seqs) = 0
  BY <1>1 DEF T!FlattenSeq
<1>2. CASE Len(seqs) # 0
  <2> DEFINE f == CHOOSE f : Joined(seqs, f)
  <2>1. Joined(seqs, f)
    BY JoinedExists
  <2>2. T!FlattenSeq(seqs) = f[Len(seqs)]
    BY <1>2 DEF T!FlattenSeq, Joined
  <2> HIDE DEF f
  <2> QED
    BY <1>2, <2>1, <2>2, JoinedTypes
<1> QED
  BY <1>1, <1>2

\* What a text is made of, and what is read from one.
Characters == Digits \cup {" ", "?", "x"}
ReadPlaces == [byte : 0..255, mask : {"x", "?"}]

LEMMA TrimTypes ==
  ASSUME NEW C, NEW s \in Seq(C)
  PROVE  T!Trim(s) \in Seq(C)
<1> DEFINE kept == [k \in 1..Len(s) |-> IF s[k] = " " THEN <<>> ELSE <<s[k]>>]
<1>1. \A k \in 1..Len(s) : s[k] \in C
  OBVIOUS
<1>2. \A k \in 1..Len(s) : (IF s[k] = " " THEN <<>> ELSE <<s[k]>>) \in Seq(C)
  <2> TAKE k \in 1..Len(s)
  <2>1. <<>> \in Seq(C) /\ <<s[k]>> \in Seq(C)
    BY <1>1
  <2> QED
    BY <2>1, Zenon
<1>3. kept \in Seq(Seq(C))
  <2>1. Len(s) \in Nat
    OBVIOUS
  <2>2. kept \in [1..Len(s) -> Seq(C)]
    BY <1>2, Zenon
  <2> HIDE DEF kept
  <2> QED
    BY <2>1, <2>2
<1> HIDE DEF kept
<1>4. T!FlattenSeq(kept) \in Seq(C)
  BY <1>3, FlattenTypes
<1> QED
  BY <1>4 DEF T!Trim, kept

LEMMA TokenBound == \A n \in 0..MaxTokens : n \in Nat
<1>1. MaxTokens \in Nat
  BY ScannerAssumption, Zenon
<1> QED
  BY <1>1

LEMMA SpelledTypes ==
  ASSUME NEW t \in T!Byte \cup T!Wild
  PROVE  T!Spelled(t) \in Seq(Characters)
<1>1. CASE t \in T!Wild
  BY <1>1 DEF T!Spelled, Characters
<1>2. CASE t \notin T!Wild
  <2>1. t.high \in Digits /\ t.low \in Digits
    BY <1>2 DEF T!Byte
  <2>2. T!Spelled(t) = <<t.high, t.low>>
    BY <1>2 DEF T!Spelled
  <2>3. t.high \in Characters /\ t.low \in Characters
    BY <2>1 DEF Characters
  <2> QED
    BY <2>2, <2>3
<1> QED
  BY <1>1, <1>2

LEMMA SpacedTypes ==
  ASSUME NEW n \in Nat, NEW ts \in [1..n -> T!Byte \cup T!Wild],
         NEW gaps \in [0..n -> Seq(Characters)]
  PROVE  T!Text(ts, gaps) \in Seq(Characters)
<1> DEFINE parts == [k \in 1..Len(ts) |-> T!Spelled(ts[k]) \o gaps[k]]
<1>1. ts \in Seq(T!Byte \cup T!Wild) /\ Len(ts) = n
  OBVIOUS
<1>2. \A k \in 1..n : T!Spelled(ts[k]) \in Seq(Characters) /\ gaps[k] \in Seq(Characters)
  BY SpelledTypes
<1>3. \A k \in 1..n : T!Spelled(ts[k]) \o gaps[k] \in Seq(Characters)
  BY <1>2
<1>4. parts \in Seq(Seq(Characters))
  BY <1>1, <1>3
<1> HIDE DEF parts
<1>5. T!FlattenSeq(parts) \in Seq(Characters)
  BY <1>4, FlattenTypes
<1>6. gaps[0] \in Seq(Characters)
  OBVIOUS
<1>7. T!Text(ts, gaps) = gaps[0] \o T!FlattenSeq(parts)
  BY DEF T!Text, parts
<1> QED
  BY <1>5, <1>6, <1>7

LEMMA InitText == T!Init => TextInv
<1> SUFFICES ASSUME T!Init PROVE TextInv
  OBVIOUS
<1>1. PICK n \in 0..MaxTokens :
        /\ form \in {"ida", "hex"}
        /\ tokens \in [1..n -> IF form = "ida" THEN T!Byte \cup T!Wild ELSE T!Byte]
        /\ \E gaps \in [0..n -> Gaps[form]] : text = T!Text(tokens, gaps)
        /\ IF form = "ida" THEN mask = <<>>
                           ELSE mask \in UNION {[1..k -> {"x", "?"}] : k \in 0..MaxTokens}
        /\ reading = form /\ at = 0 /\ read = <<>>
  BY DEF T!Init
<1>2. n \in Nat
  BY TokenBound
<1>3. tokens \in [1..n -> T!Byte \cup T!Wild]
  BY <1>1
<1>4. PICK gaps \in [0..n -> Gaps[form]] : text = T!Text(tokens, gaps)
  BY <1>1
<1>5. gaps \in [0..n -> Seq(Characters)]
  <2>1. Gaps[form] \subseteq Seq(Characters)
    BY <1>1, ScannerAssumption DEF Characters
  <2> QED
    BY <2>1
<1>6. text \in Seq(Characters)
  BY <1>2, <1>3, <1>4, <1>5, SpacedTypes
<1>7. mask \in Seq({"x", "?"})
  <2>1. CASE mask = <<>>
    BY <2>1
  <2>2. CASE mask # <<>>
    <3>1. PICK k \in 0..MaxTokens : mask \in [1..k -> {"x", "?"}]
      BY <1>1, <2>2
    <3>2. k \in Nat
      BY TokenBound
    <3> QED
      BY <3>1, <3>2
  <2> QED
    BY <2>1, <2>2
<1>8. Len(text) \in Nat /\ Len(mask) \in Nat
  BY <1>6, <1>7
<1>9. TextTypes
  <2>1. reading \in {"ida", "hex", "bytes", "done"} /\ form \in {"ida", "hex"}
    BY <1>1
  <2>2. at \in 0..Len(text) /\ Len(read) = 0 /\ Len(read) <= Len(mask)
    BY <1>1, <1>8
  <2>3. read \in Seq([byte : 0..255, mask : {"x", "?"}])
    BY <1>1
  <2>4. text \in Seq(Digits \cup {" ", "?", "x"})
    BY <1>6 DEF Characters
  <2> QED
    BY <2>1, <2>2, <2>3, <2>4 DEF TextTypes, T!TypeOK
<1> QED
  BY <1>1, <1>7, <1>9 DEF TextInv

\* Two digits are worth a byte.
LEMMA PairWorth ==
  ASSUME NEW c \in Digits, NEW d \in Digits
  PROVE  16 * Value[c] + Value[d] \in 0..255
<1>1. Value[c] \in 0..15 /\ Value[d] \in 0..15
  BY ScannerAssumption, Zenon
<1> QED
  BY <1>1

LEMMA InvFacts ==
  ASSUME TextInv
  PROVE  /\ form \in {"ida", "hex"}
         /\ text \in Seq(Characters) /\ Len(text) \in Nat
         /\ at \in 0..Len(text)
         /\ read \in Seq(ReadPlaces) /\ Len(read) \in Nat
         /\ mask \in Seq({"x", "?"}) /\ Len(mask) \in Nat
         /\ form = "hex" => Len(read) <= Len(mask)
<1>1. TextTypes /\ mask \in Seq({"x", "?"})
  BY DEF TextInv
<1>2. /\ form \in {"ida", "hex"}
      /\ text \in Seq(Characters)
      /\ at \in 0..Len(text)
      /\ read \in Seq(ReadPlaces)
      /\ form = "hex" => Len(read) <= Len(mask)
  BY <1>1, Zenon DEF TextTypes, T!TypeOK, Characters, ReadPlaces
<1>3. Len(text) \in Nat /\ Len(read) \in Nat /\ Len(mask) \in Nat
  BY <1>1, <1>2
<1> QED
  BY <1>1, <1>2, <1>3, Zenon

\* One more place is read.
LEMMA PushTypes ==
  ASSUME TextInv, NEW p \in ReadPlaces, read' = Append(read, p)
  PROVE  read' \in Seq(ReadPlaces) /\ Len(read') = Len(read) + 1
<1>1. read \in Seq(ReadPlaces)
  BY InvFacts
<1> QED
  BY <1>1

LEMMA ReadIdaStep == TextInv /\ T!ReadIda => TextInv'
<1> SUFFICES ASSUME TextInv, T!ReadIda PROVE TextInv'
  OBVIOUS
<1>1. /\ reading = "ida" /\ form' = form /\ mask' = mask /\ text' = text
      /\ IF at < Len(text) THEN /\ T!ReadSpace \/ T!ReadWild \/ T!ReadPair \/ T!Skip
                                /\ reading' = reading
                           ELSE reading' = "done" /\ at' = at /\ read' = read
  BY DEF T!ReadIda, T!said
<1>2. form = "ida" /\ mask \in Seq({"x", "?"})
  BY <1>1, InvFacts DEF TextInv
<1>3. text \in Seq(Characters) /\ Len(text) \in Nat /\ at \in 0..Len(text) /\ read \in Seq(ReadPlaces)
  BY InvFacts
<1>4. reading' \in {"ida", "done"}
  BY <1>1
<1>5. at' \in 0..Len(text) /\ read' \in Seq(ReadPlaces)
  <2>1. CASE ~(at < Len(text))
    BY <1>1, <1>3, <2>1
  <2>2. CASE at < Len(text) /\ at' = at + 1 /\ read' = read
    BY <1>3, <2>2
  <2>3. CASE at < Len(text) /\ T!ReadWild
    <3>1. at' = at + 1 /\ read' = Append(read, [byte |-> 0, mask |-> "?"])
      BY <2>3 DEF T!ReadWild, T!Push
    <3>2. [byte |-> 0, mask |-> "?"] \in ReadPlaces
      BY DEF ReadPlaces
    <3>3. read' \in Seq(ReadPlaces)
      BY <3>1, <3>2, PushTypes
    <3> QED
      BY <1>3, <2>3, <3>1, <3>3
  <2>4. CASE at < Len(text) /\ T!ReadPair
    <3> DEFINE p == [byte |-> 16 * Value[T!At(1)] + Value[T!At(2)], mask |-> "x"]
    <3>1. /\ Len(text) > at + 1 /\ T!At(1) \in Digits /\ T!At(2) \in Digits
          /\ at' = at + 2 /\ read' = Append(read, p)
      BY <2>4 DEF T!ReadPair, T!Pair, T!Push, T!PairRead
    <3>2. p \in ReadPlaces
      BY <3>1, PairWorth DEF ReadPlaces
    <3> HIDE DEF p
    <3>3. read' \in Seq(ReadPlaces)
      BY <3>1, <3>2, PushTypes
    <3> QED
      BY <1>3, <3>1, <3>3
  <2>5. at < Len(text) => (at' = at + 1 /\ read' = read) \/ T!ReadWild \/ T!ReadPair
    BY <1>1 DEF T!ReadSpace, T!Skip
  <2> QED
    BY <2>1, <2>2, <2>3, <2>4, <2>5
<1>6. TextTypes'
  BY <1>1, <1>2, <1>3, <1>4, <1>5 DEF TextTypes, T!TypeOK, Characters, ReadPlaces
<1> QED
  BY <1>1, <1>2, <1>4, <1>6 DEF TextInv

LEMMA UnprefixedTypes == ASSUME TextInv PROVE T!Unprefixed \in Seq(Characters)
<1>1. text \in Seq(Characters)
  BY InvFacts
<1>2. CASE T!Unprefixed = text
  BY <1>1, <1>2
<1>3. CASE T!Unprefixed # text
  <2>1. Len(text) >= 2 /\ T!Unprefixed = SubSeq(text, 3, Len(text))
    BY <1>3 DEF T!Unprefixed
  <2> QED
    BY <1>1, <2>1
<1> QED
  BY <1>2, <1>3

LEMMA ValidateHexStep == TextInv /\ T!ValidateHex => TextInv'
<1> SUFFICES ASSUME TextInv, T!ValidateHex PROVE TextInv'
  OBVIOUS
<1>1. /\ reading = "hex" /\ form' = form /\ mask' = mask /\ at' = at /\ read' = read
      /\ text' = T!Trim(T!Unprefixed)
      /\ reading' = IF mask # <<>> /\ T!Valid(text') /\ T!Masked(text') THEN "bytes" ELSE "done"
  BY DEF T!ValidateHex, T!said
<1>2. form = "hex" /\ at = 0 /\ read = <<>>
  BY <1>1, InvFacts DEF TextInv
<1>3. mask \in Seq({"x", "?"}) /\ Len(mask) \in Nat
  BY InvFacts
<1>4. text' \in Seq(Characters) /\ Len(text') \in Nat
  <2>1. text' \in Seq(Characters)
    BY <1>1, UnprefixedTypes, TrimTypes
  <2> QED
    BY <2>1
<1>5. TextTypes'
  <2>1. Len(read') = 0 /\ at' \in 0..Len(text')
    BY <1>1, <1>2, <1>4
  <2>2. read' \in Seq(ReadPlaces)
    BY <1>1, <1>2
  <2>3. /\ form' \in {"ida", "hex"}
        /\ reading' \in {"ida", "hex", "bytes", "done"}
        /\ Len(read') <= Len(mask')
    BY <1>1, <1>2, <1>3, <2>1
  <2> QED
    BY <1>4, <2>1, <2>2, <2>3, Zenon DEF TextTypes, T!TypeOK, Characters, ReadPlaces
<1>6. ASSUME reading' = "bytes"
      PROVE  text' \in Seq(Digits) /\ Len(text') = 2 * Len(mask)
  <2>1. Len(text') % 2 = 0 /\ Len(text') \div 2 = Len(mask) /\ \A k \in 1..Len(text') : text'[k] \in Digits
    BY <1>1, <1>6 DEF T!Valid, T!Masked
  <2>2. \A x \in Nat, y \in Nat : x % 2 = 0 /\ x \div 2 = y => x = 2 * y
    OBVIOUS
  <2>3. Len(text') = 2 * Len(mask)
    BY <1>3, <1>4, <2>1, <2>2
  <2>4. text' \in Seq(Digits)
    BY <1>4, <2>1
  <2> QED
    BY <2>3, <2>4
<1>7. reading' \in {"bytes", "done"} /\ Len(read') = 0
  BY <1>1, <1>2
<1> QED
  BY <1>1, <1>2, <1>3, <1>5, <1>6, <1>7 DEF TextInv

LEMMA dataFromHexStep == TextInv /\ T!dataFromHex => TextInv'
<1> SUFFICES ASSUME TextInv, T!dataFromHex PROVE TextInv'
  OBVIOUS
<1> DEFINE p == [byte |-> 16 * Value[T!At(1)] + Value[T!At(2)], mask |-> mask[at \div 2 + 1]]
<1>1. /\ reading = "bytes" /\ form' = form /\ mask' = mask /\ text' = text
      /\ IF at < Len(text) THEN read' = Append(read, p) /\ at' = at + 2 /\ reading' = reading
                           ELSE reading' = "done" /\ at' = at /\ read' = read
  BY DEF T!dataFromHex, T!said, T!Push, T!PairRead
<1>2. /\ form = "hex" /\ text \in Seq(Digits) /\ Len(text) = 2 * Len(mask)
      /\ at = 2 * Len(read)
  BY <1>1, InvFacts DEF TextInv
<1>3. /\ text \in Seq(Characters) /\ Len(text) \in Nat /\ at \in 0..Len(text)
      /\ mask \in Seq({"x", "?"}) /\ Len(mask) \in Nat
      /\ read \in Seq(ReadPlaces) /\ Len(read) \in Nat /\ Len(read) <= Len(mask)
  BY <1>2, InvFacts
<1>4. CASE at < Len(text)
  <2>1. at + 1 \in 1..Len(text) /\ at + 2 \in 1..Len(text) /\ at \div 2 + 1 \in 1..Len(mask)
    BY <1>2, <1>3, <1>4
  <2>2. T!At(1) \in Digits /\ T!At(2) \in Digits
    BY <1>2, <2>1 DEF T!At
  <2>3. mask[at \div 2 + 1] \in {"x", "?"}
    <3> DEFINE k == at \div 2 + 1
    <3>1. k \in 1..Len(mask)
      BY <2>1
    <3> HIDE DEF k
    <3>2. mask[k] \in {"x", "?"}
      BY <1>3, <3>1
    <3> QED
      BY <3>2 DEF k
  <2>4. p \in ReadPlaces
    BY <2>2, <2>3, PairWorth DEF ReadPlaces
  <2> HIDE DEF p
  <2>5. read' \in Seq(ReadPlaces) /\ Len(read') = Len(read) + 1
    BY <1>1, <1>4, <2>4, PushTypes
  <2>6. at' = 2 * Len(read') /\ at' \in 0..Len(text) /\ Len(read') <= Len(mask)
    BY <1>1, <1>2, <1>3, <1>4, <2>1, <2>5
  <2>7. reading' = "bytes"
    BY <1>1, <1>4
  <2>8. TextTypes'
    BY <1>1, <1>2, <1>3, <2>5, <2>6, <2>7 DEF TextTypes, T!TypeOK, Characters, ReadPlaces
  <2> QED
    BY <1>1, <1>2, <1>3, <2>6, <2>7, <2>8 DEF TextInv
<1>5. CASE ~(at < Len(text))
  <2> HIDE DEF p
  <2>1. reading' = "done" /\ at' = at /\ read' = read
    BY <1>1, <1>5
  <2>2. TextTypes'
    BY <1>1, <1>2, <1>3, <2>1 DEF TextTypes, T!TypeOK, Characters, ReadPlaces
  <2> QED
    BY <1>1, <1>2, <1>3, <2>1, <2>2 DEF TextInv
<1> QED
  BY <1>4, <1>5

-----------------------------------------------------------------------------
(* Joining and trimming                                                    *)

\* What is joined grows by what is put behind it.
LEMMA FlattenAppend ==
  ASSUME NEW C, NEW seqs \in Seq(Seq(C)), NEW x \in Seq(C)
  PROVE  T!FlattenSeq(Append(seqs, x)) = T!FlattenSeq(seqs) \o x
<1> DEFINE L == Len(seqs)
           more == Append(seqs, x)
<1>0. L \in Nat /\ more \in Seq(Seq(C)) /\ Len(more) = L + 1 /\ more[L + 1] = x
      /\ \A k \in 1..L : more[k] = seqs[k]
  OBVIOUS
<1> DEFINE f == CHOOSE f : Joined(seqs, f)
           g == CHOOSE g : Joined(more, g)
<1>1. Joined(seqs, f)
  BY JoinedExists
<1> HIDE DEF more
<1>2. Joined(more, g)
  BY <1>0, JoinedExists
<1>3. T!FlattenSeq(more) = g[L + 1]
  BY <1>0 DEF T!FlattenSeq, Joined
<1>4. L # 0 => T!FlattenSeq(seqs) = f[L]
  BY DEF T!FlattenSeq, Joined
<1> HIDE DEF f, g
<1>5. \A k \in 1..L : f[k] = IF k = 1 THEN seqs[k] ELSE f[k - 1] \o seqs[k]
  BY <1>1 DEF Joined
<1>6. \A k \in 1..(L + 1) : g[k] = IF k = 1 THEN more[k] ELSE g[k - 1] \o more[k]
  BY <1>0, <1>2 DEF Joined
<1> DEFINE N == {k \in 1..L : g[k] # f[k]}
<1>7. N = {}
  <2> SUFFICES ASSUME N # {} PROVE FALSE
    OBVIOUS
  <2>0. N \in SUBSET Nat
    BY <1>0
  <2> HIDE DEF N
  <2>1. PICK n \in N : \A m \in N : n <= m
    BY <2>0, LeastOf
  <2>2. n \in 1..L /\ n \in 1..(L + 1) /\ g[n] # f[n] /\ more[n] = seqs[n]
    BY <1>0, <2>1 DEF N
  <2>3. n # 1
    BY <1>5, <1>6, <2>2
  <2>4. n - 1 \in 1..L /\ n - 1 \notin N
    BY <1>0, <2>0, <2>1, <2>2, <2>3
  <2>5. g[n - 1] = f[n - 1]
    BY <2>4 DEF N
  <2> QED
    BY <1>5, <1>6, <2>2, <2>3, <2>5
<1>8. CASE L = 0
  <2>1. g[L + 1] = x
    BY <1>0, <1>6, <1>8
  <2>2. T!FlattenSeq(seqs) = <<>>
    BY <1>8 DEF T!FlattenSeq
  <2> QED
    BY <1>3, <2>1, <2>2 DEF more
<1>9. CASE L # 0
  <2>1. L \in 1..L /\ L + 1 \in 1..(L + 1) /\ L + 1 # 1 /\ (L + 1) - 1 = L
    BY <1>0, <1>9
  <2>2. g[L] = f[L]
    BY <1>7, <2>1
  <2>3. g[L + 1] = g[L] \o x
    BY <1>0, <1>6, <2>1
  <2> QED
    BY <1>3, <1>4, <1>9, <2>2, <2>3 DEF more
<1> QED
  BY <1>8, <1>9

LEMMA Cats ==
  ASSUME NEW C, NEW s \in Seq(C), NEW t \in Seq(C), NEW c \in C
  PROVE  /\ s \o <<>> = s
         /\ s \o <<c>> = Append(s, c)
         /\ s \o t \in Seq(C)
         /\ s \o Append(t, c) = Append(s \o t, c)
<1>1. s \o <<>> = s
  OBVIOUS
<1>2. s \o <<c>> = Append(s, c)
  OBVIOUS
<1>3. s \o t \in Seq(C)
  OBVIOUS
<1>4. s \o Append(t, c) = Append(s \o t, c)
  <2>1. Append(t, c) \in Seq(C) /\ Len(Append(t, c)) = Len(t) + 1
    OBVIOUS
  <2>2. s \o Append(t, c) \in Seq(C) /\ Append(s \o t, c) \in Seq(C)
    BY <1>3, <2>1
  <2>3. Len(s \o Append(t, c)) = Len(s) + Len(t) + 1 /\ Len(Append(s \o t, c)) = Len(s) + Len(t) + 1
    BY <1>3, <2>1
  <2>4. \A k \in 1..(Len(s) + Len(t) + 1) : (s \o Append(t, c))[k] = Append(s \o t, c)[k]
    BY <1>3, <2>1
  <2> QED
    BY <2>2, <2>3, <2>4
<1> QED
  BY <1>1, <1>2, <1>3, <1>4

LEMMA EmptyTrim == T!Trim(<<>>) = <<>>
  BY DEF T!Trim, T!FlattenSeq

LEMMA TrimAppend ==
  ASSUME NEW C, NEW s \in Seq(C), NEW c \in C
  PROVE  T!Trim(Append(s, c)) = IF c = " " THEN T!Trim(s) ELSE Append(T!Trim(s), c)
<1> DEFINE Kept(d) == IF d = " " THEN <<>> ELSE <<d>>
           kept == [k \in 1..Len(s) |-> Kept(s[k])]
           more == [k \in 1..Len(Append(s, c)) |-> Kept(Append(s, c)[k])]
<1>1. \A d \in C : Kept(d) \in Seq(C)
  <2> TAKE d \in C
  <2>1. <<>> \in Seq(C) /\ <<d>> \in Seq(C)
    OBVIOUS
  <2> QED
    BY <2>1, Zenon
<1> HIDE DEF Kept
<1>2. kept \in Seq(Seq(C))
  BY <1>1
<1>3. more = Append(kept, Kept(c))
  OBVIOUS
<1>4. T!Trim(s) = T!FlattenSeq(kept) /\ T!Trim(Append(s, c)) = T!FlattenSeq(more)
  BY DEF T!Trim, Kept
<1> HIDE DEF kept, more
<1>5. T!Trim(Append(s, c)) = T!Trim(s) \o Kept(c)
  BY <1>1, <1>2, <1>3, <1>4, FlattenAppend
<1>6. T!Trim(s) \in Seq(C)
  BY TrimTypes
<1>7. CASE c = " "
  BY <1>5, <1>6, <1>7, Cats DEF Kept
<1>8. CASE c # " "
  <2>1. Kept(c) = <<c>>
    BY <1>8 DEF Kept
  <2>2. T!Trim(s) \o <<c>> = Append(T!Trim(s), c)
    BY <1>6, Cats
  <2> QED
    BY <1>5, <1>8, <2>1, <2>2
<1> QED
  BY <1>7, <1>8

\* Trimming does not look across a joint.
LEMMA TrimCat ==
  ASSUME NEW C, NEW s \in Seq(C), NEW t \in Seq(C)
  PROVE  T!Trim(s \o t) = T!Trim(s) \o T!Trim(t)
<1> DEFINE Up(m) == SubSeq(t, 1, m)
           Ok(m) == T!Trim(s \o Up(m)) = T!Trim(s) \o T!Trim(Up(m))
           N == {m \in 0..Len(t) : ~Ok(m)}
<1>0. Len(t) \in Nat /\ Up(Len(t)) = t
  OBVIOUS
<1>1. N = {}
  <2> SUFFICES ASSUME N # {} PROVE FALSE
    OBVIOUS
  <2>0. N \in SUBSET Nat
    BY <1>0
  <2> HIDE DEF N
  <2>1. PICK n \in N : \A m \in N : n <= m
    BY <2>0, LeastOf
  <2>2. n \in 0..Len(t) /\ ~Ok(n)
    BY <2>1 DEF N
  <2>3. CASE n = 0
    <3>1. Up(0) = <<>> /\ s \o <<>> = s
      OBVIOUS
    <3>2. T!Trim(<<>>) = <<>>
      BY EmptyTrim
    <3>3. T!Trim(s) \in Seq(C)
      BY TrimTypes
    <3>4. T!Trim(s) \o <<>> = T!Trim(s)
      BY <3>3
    <3> QED
      BY <2>2, <2>3, <3>1, <3>2, <3>4
  <2>4. CASE n # 0
    <3>1. n - 1 \in 0..Len(t) /\ n \in 1..Len(t) /\ n - 1 \notin N
      BY <1>0, <2>0, <2>1, <2>2, <2>4
    <3>2. Ok(n - 1)
      BY <3>1 DEF N
    <3>3. /\ Up(n - 1) \in Seq(C) /\ t[n] \in C
          /\ Up(n) = Append(Up(n - 1), t[n])
      BY <3>1
    <3> HIDE DEF Up
    <3>4. s \o Up(n - 1) \in Seq(C) /\ s \o Up(n) = Append(s \o Up(n - 1), t[n])
      BY <3>3, Cats
    <3>5. T!Trim(s) \in Seq(C) /\ T!Trim(Up(n - 1)) \in Seq(C)
      BY <3>3, TrimTypes
    <3>6. T!Trim(Up(n)) = IF t[n] = " " THEN T!Trim(Up(n - 1)) ELSE Append(T!Trim(Up(n - 1)), t[n])
      BY <3>3, TrimAppend
    <3>7. T!Trim(s \o Up(n)) = IF t[n] = " " THEN T!Trim(s \o Up(n - 1))
                                             ELSE Append(T!Trim(s \o Up(n - 1)), t[n])
      BY <3>3, <3>4, TrimAppend
    <3>8. CASE t[n] = " "
      BY <2>2, <3>2, <3>6, <3>7, <3>8
    <3>9. CASE t[n] # " "
      <4>1. T!Trim(s) \o Append(T!Trim(Up(n - 1)), t[n]) = Append(T!Trim(s) \o T!Trim(Up(n - 1)), t[n])
        BY <3>3, <3>5, Cats
      <4> QED
        BY <2>2, <3>2, <3>6, <3>7, <3>9, <4>1
    <3> QED
      BY <3>8, <3>9
  <2> QED
    BY <2>3, <2>4
<1>2. Ok(Len(t))
  BY <1>0, <1>1
<1> QED
  BY <1>0, <1>2

-----------------------------------------------------------------------------
(* The layout of a text                                                    *)

\* The first k positions, each with the gap behind it.
Rest(ts, gaps, k) == T!FlattenSeq([m \in 1..k |-> T!Spelled(ts[m]) \o gaps[m]])

\* What is assumed of a text wherever its layout is spoken of.
Laid(ts, gaps) ==
  /\ ts \in Seq(T!Byte \cup T!Wild)
  /\ gaps \in [0..Len(ts) -> Seq(Characters)]

LEMMA RestGrows ==
  ASSUME NEW ts, NEW gaps, Laid(ts, gaps), NEW k \in 0..Len(ts)
  PROVE  /\ Rest(ts, gaps, 0) = <<>>
         /\ Rest(ts, gaps, k) \in Seq(Characters)
         /\ k < Len(ts) =>
              Rest(ts, gaps, k + 1) = Rest(ts, gaps, k) \o (T!Spelled(ts[k + 1]) \o gaps[k + 1])
<1> DEFINE Part(m) == T!Spelled(ts[m]) \o gaps[m]
           Parts(n) == [m \in 1..n |-> Part(m)]
<1>0. Len(ts) \in Nat /\ k \in Nat
  BY DEF Laid
<1>1. \A m \in 1..Len(ts) : Part(m) \in Seq(Characters)
  <2> TAKE m \in 1..Len(ts)
  <2>1. ts[m] \in T!Byte \cup T!Wild /\ gaps[m] \in Seq(Characters)
    BY <1>0 DEF Laid
  <2>2. T!Spelled(ts[m]) \in Seq(Characters)
    BY <2>1, SpelledTypes
  <2> QED
    BY <2>1, <2>2
<1>2. \A n \in 0..Len(ts) : Rest(ts, gaps, n) = T!FlattenSeq(Parts(n))
  BY DEF Rest
<1> HIDE DEF Part
<1>3. \A n \in 0..Len(ts) : Parts(n) \in Seq(Seq(Characters)) /\ Len(Parts(n)) = n
  BY <1>0, <1>1
<1>4. Rest(ts, gaps, 0) = <<>>
  <2>1. 0 \in 0..Len(ts)
    BY <1>0
  <2>2. Len(Parts(0)) = 0 /\ Parts(0) = <<>>
    BY <1>3, <2>1
  <2> QED
    BY <1>2, <2>1, <2>2 DEF T!FlattenSeq
<1>5. Rest(ts, gaps, k) \in Seq(Characters)
  BY <1>2, <1>3, FlattenTypes
<1>6. ASSUME k < Len(ts)
      PROVE  Rest(ts, gaps, k + 1) = Rest(ts, gaps, k) \o Part(k + 1)
  <2>1. k + 1 \in 1..Len(ts) /\ k + 1 \in 0..Len(ts)
    BY <1>0, <1>6
  <2>2. Part(k + 1) \in Seq(Characters) /\ Parts(k) \in Seq(Seq(Characters)) /\ Len(Parts(k)) = k
    BY <1>1, <1>3, <2>1
  <2>3. Parts(k + 1) = Append(Parts(k), Part(k + 1))
    BY <1>0
  <2> HIDE DEF Parts
  <2>4. T!FlattenSeq(Parts(k + 1)) = T!FlattenSeq(Parts(k)) \o Part(k + 1)
    BY <2>2, <2>3, FlattenAppend
  <2> QED
    BY <1>2, <2>1, <2>4
<1> QED
  BY <1>4, <1>5, <1>6 DEF Part

\* What has been laid stays where it is.
LEMMA RestPrefix ==
  ASSUME NEW ts, NEW gaps, Laid(ts, gaps), NEW k \in 0..Len(ts)
  PROVE  \A l \in k..Len(ts) :
           /\ Len(Rest(ts, gaps, k)) <= Len(Rest(ts, gaps, l))
           /\ \A m \in 1..Len(Rest(ts, gaps, k)) : Rest(ts, gaps, l)[m] = Rest(ts, gaps, k)[m]
<1> DEFINE R(l) == Rest(ts, gaps, l)
           Ok(l) == /\ Len(R(k)) <= Len(R(l))
                    /\ \A m \in 1..Len(R(k)) : R(l)[m] = R(k)[m]
           N == {l \in k..Len(ts) : ~Ok(l)}
<1>0. Len(ts) \in Nat /\ k \in Nat
  BY DEF Laid
<1>1. \A l \in 0..Len(ts) : R(l) \in Seq(Characters) /\ Len(R(l)) \in Nat
  <2> TAKE l \in 0..Len(ts)
  <2>1. R(l) \in Seq(Characters)
    BY RestGrows
  <2> QED
    BY <2>1
<1>2. N = {}
  <2> SUFFICES ASSUME N # {} PROVE FALSE
    OBVIOUS
  <2>0. N \in SUBSET Nat
    BY <1>0
  <2> HIDE DEF N
  <2>1. PICK n \in N : \A m \in N : n <= m
    BY <2>0, LeastOf
  <2>2. n \in k..Len(ts) /\ ~Ok(n)
    BY <2>1 DEF N
  <2>3. Ok(k)
    BY <1>1
  <2>4. n # k /\ n - 1 \in k..Len(ts) /\ n - 1 \in 0..Len(ts) /\ n - 1 \notin N /\ (n - 1) + 1 = n
        /\ n - 1 < Len(ts) /\ n \in 1..Len(ts)
    BY <1>0, <2>0, <2>1, <2>2, <2>3
  <2>5. Ok(n - 1)
    BY <2>4 DEF N
  <2>6. R(n) = R(n - 1) \o (T!Spelled(ts[n]) \o gaps[n])
    BY <2>4, RestGrows
  <2>7. T!Spelled(ts[n]) \o gaps[n] \in Seq(Characters)
    <3>1. ts[n] \in T!Byte \cup T!Wild /\ gaps[n] \in Seq(Characters)
      BY <1>0, <2>4 DEF Laid
    <3>2. T!Spelled(ts[n]) \in Seq(Characters)
      BY <3>1, SpelledTypes
    <3> QED
      BY <3>1, <3>2
  <2>8. R(n - 1) \in Seq(Characters) /\ R(k) \in Seq(Characters)
    BY <1>1, <2>4
  <2> HIDE DEF R
  <2>9. Len(R(n)) >= Len(R(n - 1)) /\ \A m \in 1..Len(R(n - 1)) : R(n)[m] = R(n - 1)[m]
    <3> DEFINE p == T!Spelled(ts[n]) \o gaps[n]
    <3>1. p \in Seq(Characters)
      BY <2>7
    <3> HIDE DEF p
    <3>2. R(n) = R(n - 1) \o p
      BY <2>6 DEF p
    <3> QED
      BY <2>8, <3>1, <3>2
  <2>10. Ok(n)
    BY <2>5, <2>8, <2>9
  <2> QED
    BY <2>2, <2>10
<1> QED
  BY <1>2

LEMMA TextIsRest ==
  ASSUME NEW ts, NEW gaps, Laid(ts, gaps), NEW k \in 0..Len(ts)
  PROVE  /\ T!Text(SubSeq(ts, 1, k), gaps) = gaps[0] \o Rest(ts, gaps, k)
         /\ T!Text(ts, gaps) = gaps[0] \o Rest(ts, gaps, Len(ts))
<1>1. Len(SubSeq(ts, 1, k)) = k /\ \A m \in 1..k : SubSeq(ts, 1, k)[m] = ts[m]
  BY DEF Laid
<1>2. [m \in 1..Len(SubSeq(ts, 1, k)) |-> T!Spelled(SubSeq(ts, 1, k)[m]) \o gaps[m]]
        = [m \in 1..k |-> T!Spelled(ts[m]) \o gaps[m]]
  BY <1>1
<1> QED
  BY <1>2 DEF T!Text, Rest

\* Where the gap behind the k-th position ends.
EndOf(ts, gaps, k) == Len(gaps[0]) + Len(Rest(ts, gaps, k))

LEMMA LaidParts ==
  ASSUME NEW ts, NEW gaps, Laid(ts, gaps)
  PROVE  /\ Len(ts) \in Nat
         /\ \A k \in 0..Len(ts) : /\ gaps[k] \in Seq(Characters) /\ Len(gaps[k]) \in Nat
                                  /\ EndOf(ts, gaps, k) \in Nat
         /\ \A k \in 1..Len(ts) : /\ ts[k] \in T!Byte \cup T!Wild
                                  /\ T!Spelled(ts[k]) \in Seq(Characters)
                                  /\ Len(T!Spelled(ts[k])) \in Nat
<1>1. Len(ts) \in Nat
  BY DEF Laid
<1>2. ASSUME NEW k \in 0..Len(ts)
      PROVE  gaps[k] \in Seq(Characters) /\ Len(gaps[k]) \in Nat
  <2>1. gaps[k] \in Seq(Characters)
    BY DEF Laid
  <2> QED
    BY <2>1
<1>3. ASSUME NEW k \in 0..Len(ts)
      PROVE  EndOf(ts, gaps, k) \in Nat
  <2>1. Rest(ts, gaps, k) \in Seq(Characters)
    BY RestGrows
  <2>2. 0 \in 0..Len(ts)
    BY <1>1
  <2>3. Len(Rest(ts, gaps, k)) \in Nat /\ Len(gaps[0]) \in Nat
    BY <1>2, <2>1, <2>2
  <2> QED
    BY <2>3 DEF EndOf
<1>4. ASSUME NEW k \in 1..Len(ts)
      PROVE  /\ ts[k] \in T!Byte \cup T!Wild
             /\ T!Spelled(ts[k]) \in Seq(Characters)
             /\ Len(T!Spelled(ts[k])) \in Nat
  <2>1. ts[k] \in T!Byte \cup T!Wild
    BY DEF Laid
  <2>2. T!Spelled(ts[k]) \in Seq(Characters)
    BY <2>1, SpelledTypes
  <2> QED
    BY <2>1, <2>2
<1> QED
  BY <1>1, <1>2, <1>3, <1>4

\* One position and its gap further on.
LEMMA NextEnd ==
  ASSUME NEW ts, NEW gaps, Laid(ts, gaps), NEW k \in 0..Len(ts), k < Len(ts)
  PROVE  /\ EndOf(ts, gaps, k + 1)
              = EndOf(ts, gaps, k) + Len(T!Spelled(ts[k + 1])) + Len(gaps[k + 1])
         /\ \A j \in 1..Len(T!Spelled(ts[k + 1])) :
              Rest(ts, gaps, k + 1)[Len(Rest(ts, gaps, k)) + j] = T!Spelled(ts[k + 1])[j]
         /\ \A j \in 1..Len(gaps[k + 1]) :
              Rest(ts, gaps, k + 1)[Len(Rest(ts, gaps, k)) + Len(T!Spelled(ts[k + 1])) + j]
                = gaps[k + 1][j]
<1> DEFINE a == gaps[0]
           r == Rest(ts, gaps, k)
           s == T!Spelled(ts[k + 1])
           g == gaps[k + 1]
<1>1. k + 1 \in 1..Len(ts) /\ k + 1 \in 0..Len(ts) /\ 0 \in 0..Len(ts)
  BY LaidParts
<1>2. r \in Seq(Characters) /\ s \in Seq(Characters) /\ g \in Seq(Characters) /\ Len(a) \in Nat
  BY <1>1, LaidParts, RestGrows
<1>3. Rest(ts, gaps, k + 1) = r \o (s \o g)
  BY RestGrows
<1> HIDE DEF a, r, s, g
<1>4. /\ Len(r \o (s \o g)) = Len(r) + Len(s) + Len(g)
      /\ \A j \in 1..Len(s) : (r \o (s \o g))[Len(r) + j] = s[j]
      /\ \A j \in 1..Len(g) : (r \o (s \o g))[Len(r) + Len(s) + j] = g[j]
  <2>1. s \o g \in Seq(Characters) /\ Len(s \o g) = Len(s) + Len(g)
    BY <1>2
  <2>2. \A j \in 1..(Len(s) + Len(g)) : (r \o (s \o g))[Len(r) + j] = (s \o g)[j]
    BY <1>2, <2>1
  <2>3. \A j \in 1..Len(s) : (s \o g)[j] = s[j]
    BY <1>2
  <2>4. \A j \in 1..Len(g) : (s \o g)[Len(s) + j] = g[j]
    BY <1>2
  <2>5. Len(r \o (s \o g)) = Len(r) + Len(s) + Len(g)
    BY <1>2, <2>1
  <2>6. Len(r) \in Nat /\ Len(s) \in Nat /\ Len(g) \in Nat
    BY <1>2
  <2>7. \A j \in 1..Len(s) : (r \o (s \o g))[Len(r) + j] = s[j]
    BY <2>2, <2>3, <2>6
  <2>8. ASSUME NEW j \in 1..Len(g) PROVE (r \o (s \o g))[Len(r) + Len(s) + j] = g[j]
    <3>1. Len(s) + j \in 1..(Len(s) + Len(g)) /\ Len(r) + (Len(s) + j) = Len(r) + Len(s) + j
      BY <2>6
    <3> QED
      BY <2>2, <2>4, <3>1
  <2> QED
    BY <2>5, <2>7, <2>8
<1>5. Len(r) \in Nat /\ Len(s) \in Nat /\ Len(g) \in Nat
  BY <1>2
<1>6. EndOf(ts, gaps, k + 1) = EndOf(ts, gaps, k) + Len(s) + Len(g)
  <2>1. EndOf(ts, gaps, k + 1) = Len(a) + Len(Rest(ts, gaps, k + 1))
    BY DEF EndOf, a
  <2>2. EndOf(ts, gaps, k) = Len(a) + Len(r)
    BY DEF EndOf, a, r
  <2>3. Len(Rest(ts, gaps, k + 1)) = Len(r) + Len(s) + Len(g)
    BY <1>3, <1>4
  <2> QED
    BY <1>2, <1>5, <2>1, <2>2, <2>3
<1> QED
  BY <1>3, <1>4, <1>6 DEF r, s, g

\* Every character of a text is one of a gap or of a position, and stands where
\* that begins.
LEMMA Layout ==
  ASSUME NEW ts, NEW gaps, Laid(ts, gaps), NEW s, s = T!Text(ts, gaps), NEW k \in 0..Len(ts)
  PROVE  /\ s \in Seq(Characters)
         /\ Len(s) = EndOf(ts, gaps, Len(ts))
         /\ Len(gaps[k]) <= EndOf(ts, gaps, k) /\ EndOf(ts, gaps, k) <= Len(s)
         /\ \A j \in 1..Len(gaps[k]) :
              s[EndOf(ts, gaps, k) - Len(gaps[k]) + j] = gaps[k][j]
         /\ k < Len(ts) => \A j \in 1..Len(T!Spelled(ts[k + 1])) :
              s[EndOf(ts, gaps, k) + j] = T!Spelled(ts[k + 1])[j]
<1> DEFINE n == Len(ts)
           a == gaps[0]
           r == Rest(ts, gaps, n)
<1>1. n \in Nat /\ n \in 0..n /\ 0 \in 0..n
  BY LaidParts
<1>2. a \in Seq(Characters) /\ r \in Seq(Characters) /\ Len(a) \in Nat /\ Len(r) \in Nat
  <2>1. a \in Seq(Characters) /\ r \in Seq(Characters)
    BY <1>1, LaidParts, RestGrows
  <2> QED
    BY <2>1
<1>3. s = a \o r
  BY <1>1, TextIsRest
<1>4. \A l \in 0..n : Rest(ts, gaps, l) \in Seq(Characters) /\ Len(Rest(ts, gaps, l)) \in Nat
  <2> TAKE l \in 0..n
  <2>1. Rest(ts, gaps, l) \in Seq(Characters)
    BY RestGrows
  <2> QED
    BY <2>1
<1>5. ASSUME NEW l \in 0..n
      PROVE  /\ Len(Rest(ts, gaps, l)) <= Len(r)
             /\ \A m \in 1..Len(Rest(ts, gaps, l)) : r[m] = Rest(ts, gaps, l)[m]
  <2>1. n \in l..n
    BY <1>1
  <2> QED
    BY <2>1, RestPrefix
<1> HIDE DEF a, r
<1>6. s \in Seq(Characters) /\ Len(s) = Len(a) + Len(r)
  BY <1>2, <1>3
<1>7. \A m \in 1..Len(a) : s[m] = a[m]
  BY <1>2, <1>3
<1>8. \A m \in 1..Len(r) : s[Len(a) + m] = r[m]
  BY <1>2, <1>3
<1>9. ASSUME NEW l \in 0..n
      PROVE  /\ EndOf(ts, gaps, l) = Len(a) + Len(Rest(ts, gaps, l))
             /\ EndOf(ts, gaps, l) <= Len(s)
             /\ \A m \in 1..Len(Rest(ts, gaps, l)) : s[Len(a) + m] = Rest(ts, gaps, l)[m]
  <2>1. Len(Rest(ts, gaps, l)) \in Nat
    BY <1>4
  <2>2. EndOf(ts, gaps, l) = Len(a) + Len(Rest(ts, gaps, l))
    BY DEF EndOf, a
  <2> QED
    BY <1>2, <1>5, <1>6, <1>8, <2>1, <2>2
<1>10. Len(s) = EndOf(ts, gaps, n)
  BY <1>1, <1>6, <1>9 DEF r
<1>11. k < n => \A j \in 1..Len(T!Spelled(ts[k + 1])) : s[EndOf(ts, gaps, k) + j] = T!Spelled(ts[k + 1])[j]
  <2> SUFFICES ASSUME k < n, NEW j \in 1..Len(T!Spelled(ts[k + 1]))
               PROVE  s[EndOf(ts, gaps, k) + j] = T!Spelled(ts[k + 1])[j]
    OBVIOUS
  <2> DEFINE p == T!Spelled(ts[k + 1])
             g == gaps[k + 1]
  <2>1. k + 1 \in 0..n /\ k + 1 \in 1..n
    BY <1>1
  <2>2. Len(g) \in Nat /\ Len(p) \in Nat
    BY <2>1, LaidParts
  <2>3. Rest(ts, gaps, k + 1)[Len(Rest(ts, gaps, k)) + j] = p[j]
    BY NextEnd
  <2>4. EndOf(ts, gaps, k + 1) = EndOf(ts, gaps, k) + Len(p) + Len(g)
    BY NextEnd
  <2>5. /\ EndOf(ts, gaps, k) = Len(a) + Len(Rest(ts, gaps, k))
        /\ EndOf(ts, gaps, k + 1) = Len(a) + Len(Rest(ts, gaps, k + 1))
        /\ Len(Rest(ts, gaps, k)) \in Nat /\ Len(Rest(ts, gaps, k + 1)) \in Nat
    BY <1>4, <1>9, <2>1
  <2>6. j \in 1..Len(p)
    OBVIOUS
  <2> HIDE DEF p, g
  <2>7. Len(Rest(ts, gaps, k)) + j \in 1..Len(Rest(ts, gaps, k + 1))
    BY <1>2, <2>2, <2>4, <2>5, <2>6
  <2>8. EndOf(ts, gaps, k) + j = Len(a) + (Len(Rest(ts, gaps, k)) + j)
    BY <1>2, <2>2, <2>5, <2>6
  <2>9. s[EndOf(ts, gaps, k) + j] = p[j]
    BY <1>9, <2>1, <2>3, <2>7, <2>8
  <2> QED
    BY <2>9 DEF p
<1>12. Len(gaps[k]) <= EndOf(ts, gaps, k) /\ \A j \in 1..Len(gaps[k]) : s[EndOf(ts, gaps, k) - Len(gaps[k]) + j] = gaps[k][j]
  <2>1. CASE k = 0
    <3>1. Rest(ts, gaps, 0) = <<>> /\ EndOf(ts, gaps, 0) = Len(a) + Len(Rest(ts, gaps, 0))
      BY <1>1, <1>9, RestGrows
    <3>2. EndOf(ts, gaps, 0) = Len(a)
      BY <1>2, <3>1
    <3>3. \A j \in 1..Len(a) : Len(a) - Len(a) + j = j
      BY <1>2
    <3> QED
      BY <1>2, <1>7, <2>1, <3>2, <3>3 DEF a
  <2>2. CASE k # 0
    <3> DEFINE l == k - 1
    <3>1. l \in 0..n /\ l < n /\ l + 1 = k /\ k \in 1..n
      BY <1>1, <2>2
    <3> HIDE DEF l
    <3> DEFINE p == T!Spelled(ts[k])
               g == gaps[k]
               before == Rest(ts, gaps, l)
               upto == Rest(ts, gaps, k)
    <3>2. /\ EndOf(ts, gaps, l + 1) = EndOf(ts, gaps, l) + Len(T!Spelled(ts[l + 1])) + Len(gaps[l + 1])
          /\ \A j \in 1..Len(gaps[l + 1]) :
              Rest(ts, gaps, l + 1)[Len(Rest(ts, gaps, l)) + Len(T!Spelled(ts[l + 1])) + j]
                = gaps[l + 1][j]
      BY <3>1, NextEnd
    <3>3. /\ EndOf(ts, gaps, k) = EndOf(ts, gaps, l) + Len(p) + Len(g)
          /\ \A j \in 1..Len(g) : upto[Len(before) + Len(p) + j] = g[j]
      BY <3>1, <3>2
    <3>4. Len(p) \in Nat /\ Len(g) \in Nat
      BY <3>1, LaidParts
    <3>5. /\ EndOf(ts, gaps, l) = Len(a) + Len(before)
          /\ EndOf(ts, gaps, k) = Len(a) + Len(upto)
          /\ Len(upto) \in Nat /\ Len(before) \in Nat
          /\ \A m \in 1..Len(upto) : s[Len(a) + m] = upto[m]
      BY <1>4, <1>9, <3>1
    <3> HIDE DEF p, g, before, upto
    <3>6. Len(g) <= EndOf(ts, gaps, k)
      BY <1>2, <3>3, <3>4, <3>5
    <3>7. ASSUME NEW j \in 1..Len(g) PROVE s[EndOf(ts, gaps, k) - Len(g) + j] = g[j]
      <4> DEFINE m == Len(before) + Len(p) + j
      <4>1. m \in 1..Len(upto) /\ EndOf(ts, gaps, k) - Len(g) + j = Len(a) + m
        BY <1>2, <3>3, <3>4, <3>5
      <4>2. upto[m] = g[j]
        BY <3>3
      <4> HIDE DEF m
      <4> QED
        BY <3>5, <4>1, <4>2
    <3> QED
      BY <3>6, <3>7 DEF g
  <2> QED
    BY <2>1, <2>2
<1> QED
  BY <1>6, <1>9, <1>10, <1>11, <1>12

-----------------------------------------------------------------------------
(* What is read is what was meant                                          *)

LEMMA Silence ==
  /\ \A d \in Digits : d # " " /\ d # "?" /\ d # "x"
  /\ \A g \in Gaps["ida"] : \A k \in 1..Len(g) :
       g[k] # "?" /\ (g[k] \in Digits => k < Len(g) /\ g[k + 1] \notin Digits)
  /\ \A g \in Gaps["hex"] : g = <<"0", "x">> \/ \A k \in 1..Len(g) : g[k] \notin Digits
<1>1. Digits \cap {" ", "?", "x"} = {}
  BY GapsAreSilent, Zenon
<1>2. \A d \in Digits : d # " " /\ d # "?" /\ d # "x"
  BY <1>1
<1> QED
  BY <1>2, GapsAreSilent, Zenon

LEMMA SpelledShape ==
  ASSUME NEW t \in T!Byte \cup T!Wild
  PROVE  /\ t \in T!Wild => /\ T!Spelled(t) = <<"?">>
                            /\ T!Meant(t) = [byte |-> 0, mask |-> "?"]
         /\ t \notin T!Wild => /\ t.high \in Digits /\ t.low \in Digits
                               /\ T!Spelled(t) = <<t.high, t.low>>
                               /\ T!Meant(t) = [byte |-> 16 * Value[t.high] + Value[t.low], mask |-> "x"]
<1>1. CASE t \in T!Wild
  BY <1>1 DEF T!Spelled, T!Meant
<1>2. CASE t \notin T!Wild
  <2>1. t.high \in Digits /\ t.low \in Digits
    BY <1>2 DEF T!Byte
  <2> QED
    BY <1>2, <2>1, Zenon DEF T!Spelled, T!Meant
<1> QED
  BY <1>1, <1>2

LEMMA ByteIsNotWild == \A t \in T!Byte : t \notin T!Wild
<1> SUFFICES ASSUME NEW t \in T!Byte, t \in T!Wild PROVE FALSE
  OBVIOUS
<1>1. DOMAIN t = {"high", "low"}
  BY DEF T!Byte
<1>2. DOMAIN t = {"wild"}
  BY DEF T!Wild
<1>3. "high" \notin {"wild"}
  OBVIOUS
<1> QED
  BY <1>1, <1>2, <1>3

LEMMA LaidText ==
  ASSUME MeantInv, form \in {"ida", "hex"}, NEW gaps \in [0..Len(tokens) -> Gaps[form]]
  PROVE  Laid(tokens, gaps)
<1>1. Gaps[form] \subseteq Seq(Characters)
  BY ScannerAssumption DEF Characters
<1>2. gaps \in [0..Len(tokens) -> Seq(Characters)]
  BY <1>1
<1>3. tokens \in Seq(T!Byte \cup T!Wild)
  BY DEF MeantInv
<1> QED
  BY <1>2, <1>3 DEF Laid

LEMMA UptoIs ==
  ASSUME NEW gaps, Laid(tokens, gaps), NEW k \in 0..Len(tokens)
  PROVE  Len(Upto(k, gaps)) = EndOf(tokens, gaps, k)
<1> DEFINE a == gaps[0]
           r == Rest(tokens, gaps, k)
<1>1. 0 \in 0..Len(tokens)
  BY LaidParts
<1>2. a \in Seq(Characters) /\ r \in Seq(Characters)
  BY <1>1, LaidParts, RestGrows
<1>3. Upto(k, gaps) = a \o r
  BY TextIsRest DEF Upto
<1>4. EndOf(tokens, gaps, k) = Len(a) + Len(r)
  BY DEF EndOf
<1> HIDE DEF a, r
<1> QED
  BY <1>2, <1>3, <1>4

\* One more position read.
LEMMA MeantGrows ==
  ASSUME NEW k \in Nat, NEW ts
  PROVE  Append([m \in 1..k |-> T!Meant(ts[m])], T!Meant(ts[k + 1])) = [m \in 1..(k + 1) |-> T!Meant(ts[m])]
OBVIOUS

LEMMA StandsAfter ==
  ASSUME tokens' = tokens, NEW gaps, Laid(tokens, gaps),
         NEW k \in 0..Len(tokens), NEW j \in 0..Len(gaps[k]),
         at' = EndOf(tokens, gaps, k) - Len(gaps[k]) + j,
         read' = [m \in 1..k |-> T!Meant(tokens[m])]
  PROVE  StandsIn(gaps)'
<1>1. Len(Upto(k, gaps)) = EndOf(tokens, gaps, k)
  BY UptoIs
<1>2. /\ at' = Len(T!Text(SubSeq(tokens', 1, k), gaps)) - Len(gaps[k]) + j
      /\ read' = [m \in 1..k |-> T!Meant(tokens'[m])]
      /\ k \in 0..Len(tokens')
  BY <1>1 DEF Upto
<1> QED
  BY <1>2 DEF StandsIn, Upto

\* Wherever the reader stands, it takes what comes next for what it is: a
\* character of a gap is passed over, a position is read as it was meant.
LEMMA ReadIdaMeant == TextInv /\ MeantInv /\ T!ReadIda => MeantInv'
<1> SUFFICES ASSUME TextInv, MeantInv, T!ReadIda PROVE MeantInv'
  OBVIOUS
<1>1. /\ reading = "ida" /\ form' = form /\ mask' = mask /\ text' = text /\ tokens' = tokens
      /\ IF at < Len(text) THEN /\ T!ReadSpace \/ T!ReadWild \/ T!ReadPair \/ T!Skip
                                /\ reading' = reading
                           ELSE reading' = "done" /\ at' = at /\ read' = read
  BY DEF T!ReadIda, T!said
<1>2. form = "ida"
  BY <1>1, InvFacts DEF TextInv
<1>3. PICK gaps \in [0..Len(tokens) -> Gaps[form]] : text = T!Text(tokens, gaps) /\ StandsIn(gaps)
  BY <1>1 DEF MeantInv
<1>4. Laid(tokens, gaps)
  <2>1. form \in {"ida", "hex"}
    BY <1>2
  <2> QED
    BY <1>3, <2>1, LaidText, Zenon
<1>5. PICK k \in 0..Len(tokens) :
        \E j \in 0..Len(gaps[k]) :
          /\ at = Len(Upto(k, gaps)) - Len(gaps[k]) + j
          /\ read = [m \in 1..k |-> T!Meant(tokens[m])]
  BY <1>3 DEF StandsIn
<1>6. PICK j \in 0..Len(gaps[k]) :
        /\ at = Len(Upto(k, gaps)) - Len(gaps[k]) + j
        /\ read = [m \in 1..k |-> T!Meant(tokens[m])]
  BY <1>5
<1> DEFINE end_ == EndOf(tokens, gaps, k)
           g == gaps[k]
<1>7. /\ text \in Seq(Characters) /\ Len(text) = EndOf(tokens, gaps, Len(tokens))
      /\ Len(g) <= end_ /\ end_ <= Len(text)
      /\ \A m \in 1..Len(g) : text[end_ - Len(g) + m] = g[m]
      /\ k < Len(tokens) => \A m \in 1..Len(T!Spelled(tokens[k + 1])) :
              text[end_ + m] = T!Spelled(tokens[k + 1])[m]
  BY <1>3, <1>4, Layout
<1>8. /\ Len(tokens) \in Nat /\ k \in Nat /\ g \in Seq(Characters) /\ Len(g) \in Nat /\ end_ \in Nat
      /\ Len(text) \in Nat
  BY <1>4, <1>7, LaidParts
<1>9. at = end_ - Len(g) + j /\ j \in 0..Len(g)
  BY <1>4, <1>6, UptoIs
<1>10. /\ tokens' \in Seq(IF form' = "ida" THEN T!Byte \cup T!Wild ELSE T!Byte)
      /\ form' = "ida" /\ reading' \in {"ida", "done"}
  BY <1>1, <1>2 DEF MeantInv
<1>11. /\ g \in Gaps["ida"]
       /\ \A m \in 1..Len(g) : g[m] # "?" /\ (g[m] \in Digits => m < Len(g) /\ g[m + 1] \notin Digits)
  <2>1. g \in Gaps["ida"]
    BY <1>2
  <2> QED
    BY <2>1, Silence, Zenon
<1>12. ASSUME reading' = "ida", StandsIn(gaps)'
       PROVE  MeantInv'
  <2>1. ReadAsMeant'
    BY <1>12 DEF ReadAsMeant, T!ReadAsMeant
  <2>2. gaps \in [0..Len(tokens') -> Gaps[form']] /\ text' = T!Text(tokens', gaps)
    BY <1>1, <1>3
  <2> QED
    BY <1>10, <1>12, <2>1, <2>2 DEF MeantInv
<1>13. CASE j < Len(g)
  <2>1. at < Len(text) /\ j + 1 \in 1..Len(g) /\ at + 1 = end_ - Len(g) + (j + 1)
    BY <1>7, <1>8, <1>9, <1>13
  <2>2. T!At(1) = g[j + 1]
    BY <1>7, <2>1 DEF T!At
  <2>3. T!At(1) # "?"
    BY <1>11, <2>1, <2>2
  <2>4. ~T!Pair
    <3> SUFFICES ASSUME T!Pair PROVE FALSE
      OBVIOUS
    <3>1. T!At(1) \in Digits /\ T!At(2) \in Digits
      BY DEF T!Pair
    <3>2. j + 1 < Len(g) /\ g[(j + 1) + 1] \notin Digits
      BY <1>11, <2>1, <2>2, <3>1
    <3>3. (j + 1) + 1 \in 1..Len(g) /\ at + 2 = end_ - Len(g) + ((j + 1) + 1)
      BY <1>8, <1>9, <2>1, <3>2
    <3>4. T!At(2) = g[(j + 1) + 1]
      BY <1>7, <3>3 DEF T!At
    <3> QED
      BY <3>1, <3>2, <3>4
  <2>5. at' = at + 1 /\ read' = read /\ reading' = "ida"
    BY <1>1, <2>1, <2>3, <2>4 DEF T!ReadSpace, T!ReadWild, T!ReadPair, T!Skip
  <2>6. at' = end_ - Len(g) + (j + 1) /\ j + 1 \in 0..Len(g)
    BY <2>1, <2>5
  <2>7. StandsIn(gaps)'
    BY <1>1, <1>4, <1>6, <2>5, <2>6, StandsAfter
  <2> QED
    BY <1>12, <2>5, <2>7
<1>14. CASE j = Len(g) /\ k < Len(tokens)
  <2> DEFINE t == tokens[k + 1]
             next == gaps[k + 1]
             spelled == T!Spelled(t)
  <2>1. k + 1 \in 1..Len(tokens) /\ k + 1 \in 0..Len(tokens) /\ at = end_
    BY <1>8, <1>9, <1>14
  <2>2. t \in T!Byte \cup T!Wild
    BY <1>4, <2>1, LaidParts
  <2>3. Len(next) \in Nat /\ Len(spelled) \in Nat
    BY <1>4, <2>1, LaidParts
  <2>4. EndOf(tokens, gaps, k + 1) = end_ + Len(spelled) + Len(next)
    BY <1>4, <1>14, NextEnd
  <2>5. EndOf(tokens, gaps, k + 1) <= Len(text)
    BY <1>3, <1>4, <2>1, Layout
  <2>6. \A m \in 1..Len(spelled) : text[at + m] = spelled[m]
    BY <1>7, <1>14, <2>1
  <2>7. Append(read, T!Meant(t)) = [m \in 1..(k + 1) |-> T!Meant(tokens[m])]
    BY <1>6, <1>8, MeantGrows
  <2>8. ASSUME at' = at + Len(spelled), read' = Append(read, T!Meant(t)), reading' = "ida"
        PROVE  MeantInv'
    <3> HIDE DEF spelled, next
    <3>1. at' = EndOf(tokens, gaps, k + 1) - Len(next) + 0 /\ 0 \in 0..Len(next)
      BY <1>8, <2>1, <2>3, <2>4, <2>8
    <3>2. StandsIn(gaps)'
      BY <1>1, <1>4, <2>1, <2>7, <2>8, <3>1, StandsAfter DEF next
    <3> QED
      BY <1>12, <2>8, <3>2
  <2>9. CASE t \in T!Wild
    <3>1. spelled = <<"?">> /\ T!Meant(t) = [byte |-> 0, mask |-> "?"]
      BY <2>2, <2>9, SpelledShape
    <3>2. Len(spelled) = 1 /\ spelled[1] = "?"
      BY <3>1
    <3>3. T!At(1) = "?" /\ at < Len(text)
      <4> HIDE DEF spelled, next
      <4>1. T!At(1) = "?"
        BY <2>6, <3>2 DEF T!At
      <4> QED
        BY <1>8, <2>1, <2>3, <2>4, <2>5, <3>2, <4>1
    <3>4. T!ReadWild /\ reading' = "ida"
      <4>1. "?" \notin Digits
        BY Silence
      <4> QED
        BY <1>1, <3>3, <4>1 DEF T!ReadSpace, T!ReadPair, T!Pair, T!Skip
    <3>5. at' = at + 1 /\ read' = Append(read, T!Meant(t))
      BY <3>1, <3>4 DEF T!ReadWild, T!Push
    <3> QED
      BY <2>8, <3>2, <3>4, <3>5
  <2>10. CASE t \notin T!Wild
    <3>1. /\ t.high \in Digits /\ t.low \in Digits /\ spelled = <<t.high, t.low>>
          /\ T!Meant(t) = [byte |-> 16 * Value[t.high] + Value[t.low], mask |-> "x"]
      BY <2>2, <2>10, SpelledShape
    <3>2. Len(spelled) = 2 /\ spelled[1] = t.high /\ spelled[2] = t.low
      BY <3>1
    <3>3. T!At(1) = t.high /\ T!At(2) = t.low /\ at + 1 < Len(text) /\ at < Len(text)
      <4> HIDE DEF spelled, next
      <4>1. T!At(1) = t.high /\ T!At(2) = t.low
        BY <2>6, <3>2 DEF T!At
      <4> QED
        BY <1>8, <2>1, <2>3, <2>4, <2>5, <3>2, <4>1
    <3>4. T!ReadPair /\ reading' = "ida"
      <4>1. T!At(1) # " " /\ T!At(1) # "?"
        BY <3>1, <3>3, Silence
      <4>2. T!Pair
        BY <1>8, <1>9, <2>1, <3>1, <3>3 DEF T!Pair
      <4> QED
        BY <1>1, <3>3, <4>1, <4>2 DEF T!ReadSpace, T!ReadWild, T!Skip
    <3>5. at' = at + 2 /\ read' = Append(read, T!Meant(t))
      BY <3>1, <3>3, <3>4 DEF T!ReadPair, T!Push, T!PairRead
    <3> QED
      BY <2>8, <3>2, <3>4, <3>5
  <2> QED
    BY <2>9, <2>10
<1>15. CASE j = Len(g) /\ k = Len(tokens)
  <2>1. at = Len(text)
    BY <1>7, <1>8, <1>9, <1>15
  <2>2. reading' = "done" /\ read' = read
    BY <1>1, <1>8, <2>1
  <2>3. read' = [m \in 1..Len(tokens') |-> T!Meant(tokens'[m])]
    BY <1>1, <1>6, <1>15, <2>2
  <2>4. ReadAsMeant'
    BY <1>10, <2>3 DEF ReadAsMeant, T!ReadAsMeant
  <2> QED
    BY <1>10, <2>2, <2>4 DEF MeantInv
<1> QED
  BY <1>8, <1>9, <1>13, <1>14, <1>15

\* A joint of digits joins digits.
LEMMA CatMembers ==
  ASSUME NEW C, NEW D, NEW s \in Seq(C), NEW t \in Seq(C), s \o t \in Seq(D)
  PROVE  s \in Seq(D) /\ t \in Seq(D)
<1>1. Len(s \o t) = Len(s) + Len(t) /\ Len(s) \in Nat /\ Len(t) \in Nat
  OBVIOUS
<1>2. \A k \in 1..(Len(s) + Len(t)) : (s \o t)[k] \in D
  BY <1>1
<1>3. \A k \in 1..Len(s) : s[k] \in D
  BY <1>1, <1>2
<1>4. \A k \in 1..Len(t) : t[k] = (s \o t)[Len(s) + k] /\ Len(s) + k \in 1..(Len(s) + Len(t))
  BY <1>1
<1>5. \A k \in 1..Len(t) : t[k] \in D
  BY <1>2, <1>4
<1> QED
  BY <1>3, <1>5

LEMMA Appends ==
  ASSUME NEW C, NEW c \in C, NEW d \in C
  PROVE  /\ <<>> \in Seq(C) /\ <<c>> \in Seq(C) /\ <<c, d>> \in Seq(C)
         /\ Append(<<>>, c) = <<c>>
         /\ Append(<<c>>, d) = <<c, d>>
<1>1. <<>> \in Seq(C) /\ <<c>> \in Seq(C) /\ <<c, d>> \in Seq(C)
  OBVIOUS
<1>2. Append(<<>>, c) = <<c>>
  BY <1>1
<1>3. Append(<<c>>, d) = <<c, d>>
  <2>1. Append(<<c>>, d) \in Seq(C) /\ Len(Append(<<c>>, d)) = 2
    BY <1>1
  <2>2. Append(<<c>>, d)[1] = c /\ Append(<<c>>, d)[2] = d
    BY <1>1
  <2>3. Len(<<c, d>>) = 2 /\ <<c, d>>[1] = c /\ <<c, d>>[2] = d
    OBVIOUS
  <2>4. \A k \in 1..2 : Append(<<c>>, d)[k] = <<c, d>>[k]
    <3>1. \A k \in 1..2 : k = 1 \/ k = 2
      OBVIOUS
    <3> QED
      BY <2>2, <2>3, <3>1
  <2> DEFINE s == Append(<<c>>, d)
             t == <<c, d>>
  <2>5. s \in Seq(C) /\ t \in Seq(C) /\ Len(s) = 2 /\ Len(t) = 2 /\ \A k \in 1..2 : s[k] = t[k]
    BY <1>1, <2>1, <2>3, <2>4
  <2> HIDE DEF s, t
  <2>6. s = t
    BY <2>5
  <2> QED
    BY <2>6 DEF s, t
<1> QED
  BY <1>1, <1>2, <1>3

LEMMA PairTrim ==
  ASSUME NEW c \in Digits, NEW d \in Digits
  PROVE  T!Trim(<<c, d>>) = <<c, d>>
<1>1. c # " " /\ d # " "
  BY Silence
<1>2. T!Trim(<<>>) = <<>>
  BY EmptyTrim
<1>3. <<>> \in Seq(Digits) /\ <<c>> \in Seq(Digits)
  BY Appends
<1>4. Append(<<>>, c) = <<c>> /\ Append(<<c>>, d) = <<c, d>>
  BY Appends
<1>5. T!Trim(<<c>>) = <<c>>
  BY <1>1, <1>2, <1>3, <1>4, TrimAppend
<1> QED
  BY <1>1, <1>3, <1>4, <1>5, TrimAppend

\* A gap adds no digits to those of its text, or adds something else.
LEMMA GapTrim ==
  ASSUME NEW g \in Gaps["hex"], g \in Seq(Characters), T!Trim(g) \in Seq(Digits)
  PROVE  T!Trim(g) = <<>>
<1>1. CASE g = <<"0", "x">>
  <2>1. <<"0">> \in Seq({"0", "x"}) /\ Append(<<"0">>, "x") = <<"0", "x">>
    <3>1. "0" \in {"0", "x"} /\ "x" \in {"0", "x"}
      OBVIOUS
    <3> QED
      BY <3>1, Appends
  <2>2. T!Trim(g) = Append(T!Trim(<<"0">>), "x")
    BY <1>1, <2>1, TrimAppend
  <2>3. T!Trim(<<"0">>) \in Seq({"0", "x"})
    BY <2>1, TrimTypes
  <2> DEFINE s == T!Trim(<<"0">>)
  <2> HIDE DEF s
  <2>4. Append(s, "x") \in Seq(Digits) /\ s \in Seq({"0", "x"})
    BY <2>2, <2>3 DEF s
  <2>5. Append(s, "x")[Len(s) + 1] = "x" /\ Len(s) + 1 \in 1..Len(Append(s, "x"))
    BY <2>4
  <2>6. "x" \in Digits
    BY <2>4, <2>5
  <2> QED
    BY <2>6, Silence
<1>2. CASE g # <<"0", "x">>
  <2> DEFINE Others == Characters \ Digits
             s == T!Trim(g)
  <2>1. \A k \in 1..Len(g) : g[k] \notin Digits
    BY <1>2, Silence, Zenon
  <2>2. g \in Seq(Others)
    BY <2>1
  <2>3. s \in Seq(Others)
    BY <2>2, TrimTypes
  <2>4. s \in Seq(Digits)
    OBVIOUS
  <2> HIDE DEF s
  <2>5. Len(s) # 0 => s[1] \in Others /\ s[1] \in Digits
    BY <2>3, <2>4
  <2>6. s = <<>>
    BY <2>3, <2>5
  <2> QED
    BY <2>6 DEF s
<1> QED
  BY <1>1, <1>2

\* What is left of the first k positions when the spaces are gone.
DigitsUpto(ts, k, s) ==
  /\ Len(s) = 2 * k
  /\ \A m \in 1..k : s[2 * m - 1] = ts[m].high /\ s[2 * m] = ts[m].low

LEMMA RestTrim ==
  ASSUME NEW ts \in Seq(T!Byte), NEW gaps \in [0..Len(ts) -> Gaps["hex"]], Laid(ts, gaps)
  PROVE  \A k \in 0..Len(ts) :
           T!Trim(Rest(ts, gaps, k)) \in Seq(Digits) => DigitsUpto(ts, k, T!Trim(Rest(ts, gaps, k)))
<1> DEFINE S(k) == T!Trim(Rest(ts, gaps, k))
           Ok(k) == S(k) \in Seq(Digits) => DigitsUpto(ts, k, S(k))
           N == {k \in 0..Len(ts) : ~Ok(k)}
<1>0. Len(ts) \in Nat /\ 0 \in 0..Len(ts)
  OBVIOUS
<1>1. N = {}
  <2> SUFFICES ASSUME N # {} PROVE FALSE
    OBVIOUS
  <2>0. N \in SUBSET Nat
    BY <1>0
  <2> HIDE DEF N
  <2>1. PICK n \in N : \A m \in N : n <= m
    BY <2>0, LeastOf
  <2>2. n \in 0..Len(ts) /\ ~Ok(n)
    BY <2>1 DEF N
  <2>3. n # 0
    <3>1. Rest(ts, gaps, 0) = <<>>
      BY <1>0, RestGrows
    <3>2. T!Trim(<<>>) = <<>>
      BY EmptyTrim
    <3>3. DigitsUpto(ts, 0, <<>>)
      BY DEF DigitsUpto
    <3> QED
      BY <2>2, <3>1, <3>2, <3>3
  <2> DEFINE l == n - 1
  <2>4. l \in 0..Len(ts) /\ l \notin N /\ l + 1 = n /\ l < Len(ts) /\ n \in 1..Len(ts) /\ l \in Nat
    BY <1>0, <2>0, <2>1, <2>2, <2>3
  <2> HIDE DEF l
  <2>5. Ok(l)
    BY <2>4 DEF N
  <2> DEFINE c == ts[n].high
             d == ts[n].low
             g == gaps[n]
             b == S(l)
  <2>6. c \in Digits /\ d \in Digits /\ T!Spelled(ts[n]) = <<c, d>>
    <3>1. ts[n] \in T!Byte
      BY <2>4
    <3>2. ts[n] \in T!Byte \cup T!Wild /\ ts[n] \notin T!Wild
      BY <3>1, ByteIsNotWild
    <3> QED
      BY <3>2, SpelledShape
  <2>7. g \in Gaps["hex"] /\ g \in Seq(Characters) /\ Rest(ts, gaps, l) \in Seq(Characters)
    <3>1. g \in Gaps["hex"]
      BY <2>4
    <3>2. g \in Seq(Characters)
      BY <2>2, LaidParts
    <3>3. Rest(ts, gaps, l) \in Seq(Characters)
      BY <2>4, RestGrows
    <3> QED
      BY <3>1, <3>2, <3>3
  <2>8. Rest(ts, gaps, n) = Rest(ts, gaps, l) \o (<<c, d>> \o g)
    BY <2>4, <2>6, RestGrows
  <2> HIDE DEF c, d, g
  <2>9. c \in Characters /\ d \in Characters
    BY <2>6 DEF Characters
  <2>10. <<c, d>> \in Seq(Characters) /\ <<c, d>> \o g \in Seq(Characters)
    BY <2>7, <2>9
  <2>11. T!Trim(<<c, d>> \o g) = <<c, d>> \o T!Trim(g)
    <3>1. T!Trim(<<c, d>>) = <<c, d>>
      BY <2>6, PairTrim
    <3>2. g \in Seq(Characters) /\ <<c, d>> \in Seq(Characters)
      BY <2>7, <2>10
    <3>3. T!Trim(<<c, d>> \o g) = T!Trim(<<c, d>>) \o T!Trim(g)
      BY <3>2, TrimCat
    <3> QED
      BY <3>1, <3>3
  <2>12. S(n) = b \o (<<c, d>> \o T!Trim(g))
    BY <2>7, <2>8, <2>10, <2>11, TrimCat
  <2>13. b \in Seq(Characters) /\ T!Trim(g) \in Seq(Characters) /\ <<c, d>> \o T!Trim(g) \in Seq(Characters)
    <3>1. b \in Seq(Characters) /\ T!Trim(g) \in Seq(Characters)
      BY <2>7, TrimTypes
    <3> QED
      BY <2>10, <3>1
  <2>14. S(n) \in Seq(Digits) /\ ~DigitsUpto(ts, n, S(n))
    BY <2>2
  <2> HIDE DEF S
  <2>15. b \in Seq(Digits) /\ <<c, d>> \o T!Trim(g) \in Seq(Digits)
    BY <2>12, <2>13, <2>14, CatMembers
  <2>16. T!Trim(g) \in Seq(Digits)
    BY <2>10, <2>13, <2>15, CatMembers
  <2>17. T!Trim(g) = <<>>
    BY <2>7, <2>16, GapTrim
  <2>18. S(n) = b \o <<c, d>>
    <3>1. <<c, d>> \o <<>> = <<c, d>>
      OBVIOUS
    <3> QED
      BY <2>12, <2>17, <3>1
  <2>19. DigitsUpto(ts, l, b)
    BY <2>5, <2>15
  <2> HIDE DEF b
  <2>20. Len(b) = 2 * l /\ \A m \in 1..l : b[2 * m - 1] = ts[m].high /\ b[2 * m] = ts[m].low
    BY <2>19 DEF DigitsUpto
  <2> DEFINE s == b \o <<c, d>>
  <2>21. /\ Len(s) = Len(b) + 2 /\ s[Len(b) + 1] = c /\ s[Len(b) + 2] = d
         /\ \A m \in 1..Len(b) : s[m] = b[m]
    BY <2>15
  <2> HIDE DEF s
  <2>22. ASSUME NEW m \in 1..n PROVE s[2 * m - 1] = ts[m].high /\ s[2 * m] = ts[m].low
    <3>1. CASE m = n
      <4>1. 2 * m - 1 = Len(b) + 1 /\ 2 * m = Len(b) + 2
        BY <2>4, <2>20, <3>1
      <4> QED
        BY <2>21, <3>1, <4>1 DEF c, d
    <3>2. CASE m # n
      <4>1. m \in 1..l /\ 2 * m - 1 \in 1..Len(b) /\ 2 * m \in 1..Len(b)
        BY <2>4, <2>20, <3>2
      <4> QED
        BY <2>20, <2>21, <4>1
    <3> QED
      BY <3>1, <3>2
  <2>23. Len(s) = 2 * n
    BY <2>4, <2>20, <2>21
  <2>24. DigitsUpto(ts, n, s)
    BY <2>22, <2>23 DEF DigitsUpto
  <2> QED
    BY <2>14, <2>18, <2>24 DEF s
<1> QED
  BY <1>1

\* A prefix is taken for one only where the text begins with it.
LEMMA UnprefixedIs ==
  ASSUME TextInv, MeantInv, form = "hex", NEW gaps \in [0..Len(tokens) -> Gaps["hex"]],
         text = T!Text(tokens, gaps)
  PROVE  \E a \in Gaps["hex"] \cup {<<>>} :
           /\ a \in Seq(Characters)
           /\ T!Unprefixed = a \o Rest(tokens, gaps, Len(tokens))
<1> DEFINE n == Len(tokens)
           a == gaps[0]
           r == Rest(tokens, gaps, n)
<1>1. Laid(tokens, gaps)
  <2>1. form \in {"ida", "hex"} /\ gaps \in [0..Len(tokens) -> Gaps[form]]
    OBVIOUS
  <2> QED
    BY <2>1, LaidText, Zenon
<1>2. n \in Nat /\ 0 \in 0..n /\ n \in 0..n
  BY <1>1, LaidParts
<1>3. a \in Gaps["hex"] /\ a \in Seq(Characters) /\ r \in Seq(Characters)
  <2>1. a \in Gaps["hex"]
    BY <1>2
  <2>2. a \in Seq(Characters)
    BY <1>1, <1>2, LaidParts
  <2>3. r \in Seq(Characters)
    BY <1>1, <1>2, RestGrows
  <2> QED
    BY <2>1, <2>2, <2>3
<1>4. text = a \o r
  BY <1>1, <1>2, TextIsRest
<1>5. <<>> \in Seq(Characters) /\ <<>> \o r = r
  <2> HIDE DEF r
  <2> QED
    BY <1>3
<1>6. CASE a = <<"0", "x">>
  <2> HIDE DEF a, r
  <2>1. Len(a) = 2 /\ a[1] = "0" /\ a[2] = "x"
    BY <1>6
  <2>2. Len(text) = 2 + Len(r) /\ text[1] = "0" /\ text[2] = "x" /\ text \in Seq(Characters)
    <3>1. a \in Seq(Characters) /\ r \in Seq(Characters)
      BY <1>3
    <3>2. text \in Seq(Characters) /\ Len(text) = Len(a) + Len(r) /\ \A k \in 1..Len(a) : text[k] = a[k]
      BY <1>4, <3>1
    <3> QED
      BY <2>1, <3>2
  <2>3. T!Unprefixed = SubSeq(text, 3, Len(text))
    <3>1. Len(r) \in Nat
      BY <1>3
    <3> QED
      BY <2>2, <3>1 DEF T!Unprefixed
  <2>4. SubSeq(text, 3, Len(text)) = r
    <3>1. \A k \in 1..Len(r) : text[2 + k] = r[k]
      <4>1. a \in Seq(Characters) /\ r \in Seq(Characters)
        BY <1>3
      <4>2. \A k \in 1..Len(r) : text[Len(a) + k] = r[k]
        BY <1>4, <4>1
      <4> QED
        BY <2>1, <4>2
    <3>2. SubSeq(text, 3, Len(text)) \in Seq(Characters) /\ Len(SubSeq(text, 3, Len(text))) = Len(r)
      BY <1>3, <2>2
    <3>3. \A k \in 1..Len(r) : SubSeq(text, 3, Len(text))[k] = text[2 + k]
      BY <1>3, <2>2
    <3> QED
      BY <1>3, <3>1, <3>2, <3>3
  <2> QED
    BY <1>5, <2>3, <2>4 DEF r
<1>7. CASE a # <<"0", "x">>
  <2>1. \A k \in 1..Len(a) : a[k] \notin Digits
    BY <1>3, <1>7, Silence, Zenon
  <2>2. ASSUME Len(text) >= 2, text[1] = "0", text[2] = "x" PROVE FALSE
    <3>1. CASE Len(a) = 0
      <4>1. n # 0
        <5>1. Rest(tokens, gaps, 0) = <<>>
          BY <1>1, <1>2, RestGrows
        <5> HIDE DEF a
        <5>2. n = 0 => Len(text) = 0
          BY <1>3, <1>4, <3>1, <5>1
        <5> QED
          BY <2>2, <5>2
      <4>2. 1 \in 1..n /\ 0 < n
        BY <1>2, <4>1
      <4>3. tokens[1] \in T!Byte
        <5>1. tokens \in Seq(T!Byte)
          BY DEF MeantInv
        <5> QED
          BY <4>2, <5>1
      <4>4. tokens[1] \in T!Byte \cup T!Wild /\ tokens[1] \notin T!Wild
        BY <4>3, ByteIsNotWild
      <4> DEFINE sp == T!Spelled(tokens[1])
      <4>5. tokens[1].low \in Digits /\ sp = <<tokens[1].high, tokens[1].low>>
        BY <4>4, SpelledShape
      <4>6. EndOf(tokens, gaps, 0) = 0
        <5>1. Rest(tokens, gaps, 0) = <<>>
          BY <1>1, <1>2, RestGrows
        <5> QED
          BY <3>1, <5>1 DEF EndOf
      <4>7. \A m \in 1..Len(T!Spelled(tokens[0 + 1])) :
              text[EndOf(tokens, gaps, 0) + m] = T!Spelled(tokens[0 + 1])[m]
        BY <1>1, <1>2, <4>2, Layout
      <4>8. \A m \in 1..Len(sp) : text[m] = sp[m]
        BY <4>6, <4>7
      <4>9. Len(sp) = 2 /\ sp[2] = tokens[1].low
        BY <4>5
      <4> HIDE DEF sp
      <4>10. text[2] \in Digits
        BY <4>5, <4>8, <4>9
      <4> QED
        BY <2>2, <4>10, Silence
    <3>2. CASE Len(a) # 0
      <4> HIDE DEF a, r
      <4>1. 1 \in 1..Len(a) /\ text[1] = a[1] /\ a[1] \in Characters
        BY <1>3, <1>4, <3>2
      <4>2. a[1] = "0" /\ a[1] \notin Digits
        BY <2>1, <2>2, <4>1
      <4>3. "0" \in Digits
        BY <4>1, <4>2 DEF Characters
      <4> QED
        BY <4>2, <4>3
    <3> QED
      BY <3>1, <3>2
  <2>3. T!Unprefixed = text
    BY <2>2 DEF T!Unprefixed
  <2> QED
    BY <1>3, <1>4, <2>3
<1> QED
  BY <1>6, <1>7

\* If only digits are left of a text, they are those of the bytes meant.
LEMMA TrimmedText ==
  ASSUME TextInv, MeantInv, reading = "hex", T!Trim(T!Unprefixed) \in Seq(Digits)
  PROVE  DigitsOf(T!Trim(T!Unprefixed))
<1> DEFINE n == Len(tokens)
<1>1. form = "hex"
  BY InvFacts DEF TextInv
<1>2. PICK gaps \in [0..Len(tokens) -> Gaps["hex"]] : text = T!Text(tokens, gaps)
  BY <1>1 DEF MeantInv
<1> DEFINE r == Rest(tokens, gaps, n)
<1>3. PICK a \in Gaps["hex"] \cup {<<>>} : a \in Seq(Characters) /\ T!Unprefixed = a \o r
  BY <1>1, <1>2, UnprefixedIs
<1>4. Laid(tokens, gaps)
  <2>1. form \in {"ida", "hex"} /\ gaps \in [0..Len(tokens) -> Gaps[form]]
    BY <1>1
  <2> QED
    BY <2>1, LaidText, Zenon
<1>5. n \in 0..n /\ r \in Seq(Characters)
  <2>1. n \in 0..n
    BY <1>4, LaidParts
  <2> QED
    BY <1>4, <2>1, RestGrows
<1>6. T!Trim(T!Unprefixed) = T!Trim(a) \o T!Trim(r)
  BY <1>3, <1>5, TrimCat
<1>7. T!Trim(a) \in Seq(Characters) /\ T!Trim(r) \in Seq(Characters)
  BY <1>3, <1>5, TrimTypes
<1>8. T!Trim(a) \in Seq(Digits) /\ T!Trim(r) \in Seq(Digits)
  <2> DEFINE s == T!Trim(a)
             t == T!Trim(r)
  <2>1. s \in Seq(Characters) /\ t \in Seq(Characters) /\ s \o t \in Seq(Digits)
    BY <1>6, <1>7
  <2> HIDE DEF s, t
  <2>2. s \in Seq(Digits) /\ t \in Seq(Digits)
    BY <2>1, CatMembers
  <2> QED
    BY <2>2 DEF s, t
<1>9. T!Trim(a) = <<>>
  <2>1. CASE a \in Gaps["hex"]
    BY <1>3, <1>8, <2>1, GapTrim
  <2>2. CASE a = <<>>
    <3>1. T!Trim(<<>>) = <<>>
      BY EmptyTrim
    <3> QED
      BY <2>2, <3>1
  <2> QED
    BY <2>1, <2>2
<1>10. T!Trim(T!Unprefixed) = T!Trim(r)
  <2> DEFINE t == T!Trim(r)
  <2>1. t \in Seq(Characters) /\ T!Trim(T!Unprefixed) = <<>> \o t
    BY <1>6, <1>7, <1>9
  <2> HIDE DEF t
  <2>2. T!Trim(T!Unprefixed) = t
    BY <2>1
  <2> QED
    BY <2>2 DEF t
<1>11. tokens \in Seq(T!Byte)
  BY <1>1 DEF MeantInv
<1>12. DigitsUpto(tokens, n, T!Trim(r))
  BY <1>2, <1>4, <1>5, <1>8, <1>11, RestTrim
<1> QED
  BY <1>10, <1>12 DEF DigitsUpto, DigitsOf

LEMMA ValidateHexMeant == TextInv /\ MeantInv /\ T!ValidateHex => MeantInv'
<1> SUFFICES ASSUME TextInv, MeantInv, T!ValidateHex PROVE MeantInv'
  OBVIOUS
<1>1. /\ reading = "hex" /\ form' = form /\ mask' = mask /\ at' = at /\ read' = read /\ tokens' = tokens
      /\ text' = T!Trim(T!Unprefixed)
      /\ reading' = IF mask # <<>> /\ T!Valid(text') /\ T!Masked(text') THEN "bytes" ELSE "done"
  BY DEF T!ValidateHex, T!said
<1>2. form = "hex" /\ read = <<>> /\ mask \in Seq({"x", "?"})
  BY <1>1, InvFacts DEF TextInv
<1>3. tokens' \in Seq(IF form' = "ida" THEN T!Byte \cup T!Wild ELSE T!Byte) /\ Len(tokens) \in Nat
  BY <1>1, <1>2 DEF MeantInv
<1>4. text' \in Seq(Digits) => DigitsOf(text)'
  <2> SUFFICES ASSUME text' \in Seq(Digits) PROVE DigitsOf(text)'
    OBVIOUS
  <2>1. DigitsOf(T!Trim(T!Unprefixed))
    BY <1>1, TrimmedText
  <2> DEFINE s == T!Trim(T!Unprefixed)
  <2>2. /\ text' = s /\ Len(s) = 2 * Len(tokens)
        /\ \A k \in 1..Len(tokens) : s[2 * k - 1] = tokens[k].high /\ s[2 * k] = tokens[k].low
    BY <1>1, <2>1 DEF DigitsOf
  <2> HIDE DEF s
  <2> QED
    BY <1>1, <2>2 DEF DigitsOf
<1>5. Len(read') = 0 /\ read' = <<>>
  BY <1>1, <1>2
<1>6. ASSUME reading' = "done", Len(tokens) = Len(mask), T!Range(text') \subseteq Digits
      PROVE  tokens = <<>>
  <2> DEFINE s == text'
  <2>1. s \in Seq(Characters)
    BY <1>1, UnprefixedTypes, TrimTypes
  <2>2. \A k \in 1..Len(s) : s[k] \in Digits
    <3>1. DOMAIN s = 1..Len(s)
      BY <2>1
    <3>2. \A k \in DOMAIN s : s[k] \in T!Range(s)
      BY DEF T!Range
    <3> QED
      BY <1>6, <3>1, <3>2
  <2>3. s \in Seq(Digits)
    BY <2>1, <2>2
  <2>4. Len(s) = 2 * Len(tokens)
    BY <1>1, <1>4, <2>3 DEF DigitsOf
  <2>5. Len(tokens) # 0 => mask # <<>> /\ T!Valid(s) /\ T!Masked(s)
    <3> SUFFICES ASSUME Len(tokens) # 0 PROVE mask # <<>> /\ T!Valid(s) /\ T!Masked(s)
      OBVIOUS
    <3>1. mask # <<>>
      BY <1>2, <1>3, <1>6
    <3>2. \A m \in Nat : m # 0 => (2 * m) % 2 = 0 /\ (2 * m) \div 2 = m /\ 2 * m >= 2
      OBVIOUS
    <3> HIDE DEF s
    <3>3. T!Valid(s) /\ T!Masked(s)
      BY <1>3, <1>6, <2>2, <2>4, <3>2 DEF T!Valid, T!Masked
    <3> QED
      BY <3>1, <3>3
  <2>6. Len(tokens) = 0
    BY <1>1, <1>6, <2>5
  <2>7. tokens \in Seq(T!Byte)
    BY <1>2 DEF MeantInv
  <2> QED
    BY <2>6, <2>7
<1>7. ReadAsMeant'
  <2> SUFFICES ASSUME reading' = "done"
               PROVE  read' = IF Len(tokens) = Len(mask) /\ T!Range(text') \subseteq Digits
                              THEN [k \in 1..Len(tokens) |-> [T!Meant(tokens[k]) EXCEPT !.mask = mask[k]]]
                              ELSE <<>>
    BY <1>1, <1>2 DEF ReadAsMeant, T!ReadAsMeant
  <2>1. CASE Len(tokens) = Len(mask) /\ T!Range(text') \subseteq Digits
    <3>1. tokens = <<>> /\ Len(tokens) = 0
      BY <1>6, <2>1
    <3>2. [k \in 1..Len(tokens) |-> [T!Meant(tokens[k]) EXCEPT !.mask = mask[k]]] = <<>>
      BY <3>1
    <3> QED
      BY <1>5, <2>1, <3>2
  <2> QED
    BY <1>5, <2>1
<1>8. reading' \in {"bytes", "done"} /\ form' = "hex"
  BY <1>1, <1>2
<1> QED
  BY <1>3, <1>4, <1>5, <1>7, <1>8 DEF MeantInv

LEMMA dataFromHexMeant == TextInv /\ MeantInv /\ T!dataFromHex => MeantInv'
<1> SUFFICES ASSUME TextInv, MeantInv, T!dataFromHex PROVE MeantInv'
  OBVIOUS
<1> DEFINE p == [byte |-> 16 * Value[T!At(1)] + Value[T!At(2)], mask |-> mask[at \div 2 + 1]]
           Wanted(k) == [T!Meant(tokens[k]) EXCEPT !.mask = mask[k]]
<1>1. /\ reading = "bytes" /\ form' = form /\ mask' = mask /\ text' = text /\ tokens' = tokens
      /\ IF at < Len(text) THEN read' = Append(read, p) /\ at' = at + 2 /\ reading' = reading
                           ELSE reading' = "done" /\ at' = at /\ read' = read
  BY DEF T!dataFromHex, T!said, T!Push, T!PairRead
<1>2. /\ form = "hex" /\ text \in Seq(Digits) /\ Len(text) = 2 * Len(mask)
      /\ at = 2 * Len(read)
  BY <1>1, InvFacts DEF TextInv
<1>3. /\ Len(text) \in Nat /\ at \in 0..Len(text) /\ Len(mask) \in Nat
      /\ read \in Seq(ReadPlaces) /\ Len(read) \in Nat /\ Len(read) <= Len(mask)
  BY <1>2, InvFacts
<1>4. /\ tokens \in Seq(T!Byte) /\ Len(tokens) \in Nat /\ DigitsOf(text)
      /\ \A k \in 1..Len(read) : read[k] = Wanted(k)
  BY <1>1, <1>2 DEF MeantInv
<1>5. Len(tokens) = Len(mask)
  BY <1>2, <1>3, <1>4 DEF DigitsOf
<1>6. DigitsOf(text)' /\ tokens' \in Seq(IF form' = "ida" THEN T!Byte \cup T!Wild ELSE T!Byte)
  BY <1>1, <1>2, <1>4 DEF DigitsOf
<1>7. form' = "hex" /\ reading' \in {"bytes", "done"}
  BY <1>1, <1>2
<1>8. CASE at < Len(text)
  <2> DEFINE k == Len(read) + 1
  <2>1. k \in 1..Len(tokens) /\ at + 1 = 2 * k - 1 /\ at + 2 = 2 * k /\ at \div 2 + 1 = k
    BY <1>2, <1>3, <1>5, <1>8
  <2> HIDE DEF k
  <2>2. T!At(1) = tokens[k].high /\ T!At(2) = tokens[k].low
    BY <1>4, <2>1 DEF DigitsOf, T!At
  <2>3. tokens[k] \in T!Byte \cup T!Wild /\ tokens[k] \notin T!Wild
    <3>1. tokens[k] \in T!Byte
      BY <1>4, <2>1
    <3> QED
      BY <3>1, ByteIsNotWild
  <2>4. T!Meant(tokens[k]) = [byte |-> 16 * Value[tokens[k].high] + Value[tokens[k].low], mask |-> "x"]
    BY <2>3, SpelledShape
  <2>5. p = [byte |-> 16 * Value[tokens[k].high] + Value[tokens[k].low], mask |-> mask[k]]
    BY <2>1, <2>2
  <2>6. p = Wanted(k)
    BY <2>4, <2>5
  <2> HIDE DEF p, Wanted
  <2>7. read' = Append(read, Wanted(k)) /\ reading' = "bytes"
    BY <1>1, <1>8, <2>6
  <2>8. \A m \in 1..Len(read') : read'[m] = Wanted(m)
    BY <1>3, <1>4, <2>7 DEF k
  <2>9. \A m \in 1..Len(read') : read'[m] = [T!Meant(tokens'[m]) EXCEPT !.mask = mask'[m]]
    BY <1>1, <2>8 DEF Wanted
  <2>10. ReadAsMeant'
    BY <2>7 DEF ReadAsMeant, T!ReadAsMeant
  <2> QED
    BY <1>6, <1>7, <2>7, <2>9, <2>10 DEF MeantInv
<1>9. CASE ~(at < Len(text))
  <2>1. reading' = "done" /\ read' = read
    BY <1>1, <1>9
  <2>2. Len(read) = Len(tokens)
    BY <1>2, <1>3, <1>5, <1>9
  <2> HIDE DEF p
  <2>3. read = [k \in 1..Len(tokens) |-> Wanted(k)]
    <3> HIDE DEF Wanted
    <3> QED
      BY <1>3, <1>4, <2>2
  <2>4. T!Range(text) \subseteq Digits
    <3>1. DOMAIN text = 1..Len(text) /\ \A k \in 1..Len(text) : text[k] \in Digits
      BY <1>2
    <3> QED
      BY <3>1 DEF T!Range
  <2>5. ReadAsMeant'
    <3>1. read' = [k \in 1..Len(tokens') |-> [T!Meant(tokens'[k]) EXCEPT !.mask = mask'[k]]]
      BY <1>1, <2>1, <2>3
    <3>2. form' # "ida" /\ Len(tokens') = Len(mask') /\ T!Range(text') \subseteq Digits
      BY <1>1, <1>2, <1>5, <2>4
    <3> QED
      BY <1>7, <3>1, <3>2 DEF ReadAsMeant, T!ReadAsMeant
  <2> QED
    BY <1>6, <1>7, <2>1, <2>5 DEF MeantInv
<1> QED
  BY <1>8, <1>9

LEMMA InitMeant == T!Init => MeantInv
<1> SUFFICES ASSUME T!Init PROVE MeantInv
  OBVIOUS
<1>1. PICK n \in 0..MaxTokens :
        /\ form \in {"ida", "hex"}
        /\ tokens \in [1..n -> IF form = "ida" THEN T!Byte \cup T!Wild ELSE T!Byte]
        /\ \E gaps \in [0..n -> Gaps[form]] : text = T!Text(tokens, gaps)
        /\ reading = form /\ at = 0 /\ read = <<>>
  BY DEF T!Init
<1>2. n \in Nat
  BY TokenBound
<1>3. PICK gaps \in [0..n -> Gaps[form]] : text = T!Text(tokens, gaps)
  BY <1>1
<1>4. Len(tokens) = n /\ tokens \in Seq(IF form = "ida" THEN T!Byte \cup T!Wild ELSE T!Byte)
  BY <1>1, <1>2
<1>5. Laid(tokens, gaps)
  <2>1. Gaps[form] \subseteq Seq(Characters)
    BY <1>1, ScannerAssumption DEF Characters
  <2>2. gaps \in [0..Len(tokens) -> Seq(Characters)]
    BY <1>4, <2>1
  <2>3. tokens \in Seq(T!Byte \cup T!Wild)
    BY <1>4
  <2> QED
    BY <2>2, <2>3 DEF Laid
<1>6. StandsIn(gaps)
  <2> DEFINE a == gaps[0]
             r == Rest(tokens, gaps, 0)
  <2>1. 0 \in 0..Len(tokens)
    BY <1>2, <1>4
  <2>2. Len(Upto(0, gaps)) = Len(a) + Len(r)
    BY <1>5, <2>1, UptoIs DEF EndOf
  <2>3. r = <<>>
    BY <1>5, <2>1, RestGrows
  <2>4. Len(a) \in Nat
    BY <1>5, <2>1, LaidParts
  <2> HIDE DEF a, r
  <2>5. at = Len(Upto(0, gaps)) - Len(a) + 0 /\ 0 \in 0..Len(a)
    BY <1>1, <2>2, <2>3, <2>4
  <2>6. read = [m \in 1..0 |-> T!Meant(tokens[m])]
    BY <1>1
  <2> QED
    BY <2>1, <2>5, <2>6 DEF StandsIn, a
<1>7. ReadAsMeant
  BY <1>1 DEF ReadAsMeant, T!ReadAsMeant
<1>8. reading \in {"ida", "hex"} /\ (form = "hex" => reading = "hex")
  BY <1>1
<1> QED
  BY <1>3, <1>4, <1>6, <1>7, <1>8 DEF MeantInv

-----------------------------------------------------------------------------
(* A search by text                                                        *)

LEMMA ReadIsPattern == TextInv => read \in Seq(Masked)
<1> SUFFICES ASSUME TextInv PROVE read \in Seq(Masked)
  OBVIOUS
<1>1. read \in Seq(ReadPlaces)
  BY InvFacts
<1>2. ReadPlaces \subseteq Masked
  BY DEF ReadPlaces, Masked
<1>3. Len(read) \in Nat /\ \A k \in 1..Len(read) : read[k] \in ReadPlaces
  BY <1>1
<1>4. \A k \in 1..Len(read) : read[k] \in Masked
  BY <1>2, <1>3
<1> QED
  BY <1>1, <1>3, <1>4

LEMMA ScanInitHolds == ScanInit => ScanInv
<1> SUFFICES ASSUME ScanInit PROVE ScanInv
  OBVIOUS
<1>1. TextInv
  BY InitText DEF ScanInit
<1>2. TypeOK
  BY SearchAssumption DEF ScanInit, TypeOK, Addr
<1> QED
  BY <1>1, <1>2 DEF ScanInit, ScanInv, Uncalled

\* What the reading of the text leaves alone, and what the search does.
LEMMA TextKept == TextInv /\ UNCHANGED textVars => TextInv'
  BY DEF TextInv, TextTypes, T!TypeOK, textVars

LEMMA SearchKept ==
  ASSUME UNCHANGED <<mem, start, end, pattern, all, pc, from, i, list>>
  PROVE  TypeOK' = TypeOK /\ Uncalled' = Uncalled /\ IInv' = IInv
BY DEF IInv, TypeOK, SettledBehind, Places, Match, Listed, Reached, Size, Uncalled

LEMMA GiveStep == ScanInv /\ Give => ScanInv'
<1>1. SUFFICES ASSUME ScanInv, Give PROVE TextInv' /\ TypeOK' /\ Uncalled' /\ given'
  BY UncalledHolds, PTL DEF ScanInv
<1>2. TextInv /\ TypeOK /\ Uncalled
  BY <1>1 DEF ScanInv, Give
<1>3. TextInv'
  BY <1>1, <1>2, TextKept DEF Give
<1>4. pattern' \in Seq(Masked)
  BY <1>1, <1>2, ReadIsPattern DEF Give
<1>5. Uncalled'
  BY <1>1, <1>2 DEF Give, Uncalled
<1>6. TypeOK'
  <2>1. /\ mem' = mem /\ start' = start /\ end' = end /\ all' = all
        /\ pc' = pc /\ from' = from /\ i' = i /\ list' = list
    BY <1>1 DEF Give
  <2>2. pc' # "range"
    BY <1>5 DEF Uncalled
  <2> QED
    BY <1>2, <1>4, <2>1, <2>2 DEF TypeOK
<1> QED
  BY <1>1, <1>3, <1>5, <1>6 DEF Give

LEMMA ScanStep == ScanInv /\ [ScanNext]_scanVars => ScanInv'
<1> SUFFICES ASSUME ScanInv, [ScanNext]_scanVars PROVE ScanInv'
  OBVIOUS
<1>1. CASE ReadText
  <2>1. TextInv'
    BY <1>1, ReadIdaStep, ValidateHexStep, dataFromHexStep DEF ReadText, T!Next, ScanInv
  <2>2. UNCHANGED <<mem, start, end, pattern, all, pc, from, i, list>> /\ given' = given
    BY <1>1 DEF ReadText, vars, request
  <2> QED
    BY <2>1, <2>2, SearchKept DEF ScanInv
<1>2. CASE Give
  BY <1>2, GiveStep
<1>3. CASE Search
  <2>1. given /\ given' = given /\ TextInv'
    BY <1>3, TextKept DEF Search, ScanInv
  <2>2. IInv'
    BY <1>3, <2>1, SearchSteps DEF Search, ScanInv
  <2>3. TypeOK'
    BY <2>2 DEF IInv
  <2> QED
    BY <2>1, <2>2, <2>3 DEF ScanInv
<1>4. CASE UNCHANGED scanVars
  <2>1. UNCHANGED <<mem, start, end, pattern, all, pc, from, i, list>> /\ given' = given
    BY <1>4 DEF scanVars, vars, request
  <2>2. TextInv'
    BY <1>4, TextKept DEF scanVars, ScanInv
  <2> QED
    BY <2>1, <2>2, SearchKept DEF ScanInv
<1> QED
  BY <1>1, <1>2, <1>3, <1>4 DEF ScanNext

\* The inductive invariant of a search by text.
THEOREM ScanInvariant == ScanSpec => []ScanInv
  BY ScanInitHolds, ScanStep, PTL DEF ScanSpec

\* Whatever text is given, the index stays within it, what is read from it is
\* a pattern of bytes, dataFromHex writes no byte behind its buffer, and the
\* search that follows leaves the range no more than one for bytes.
THEOREM TextsAreTyped == ScanSpec => []ScanTypes
<1>1. ScanInv => ScanTypes
  BY DEF ScanInv, TextInv, ScanTypes
<1> QED
  BY <1>1, ScanInvariant, PTL

\* Whatever pattern is read from the text, the matches listed at the end are
\* the ones to be listed; before the call there is no end.
THEOREM ScanCorrect == ScanSpec => []ListedMatches
<1>1. ScanInv => ListedMatches
  BY DEF ScanInv, Uncalled, IInv, SettledBehind, ListedMatches
<1> QED
  BY <1>1, ScanInvariant, PTL

LEMMA MeantKept == MeantInv /\ UNCHANGED textVars => MeantInv'
<1> SUFFICES ASSUME MeantInv, UNCHANGED textVars PROVE MeantInv'
  OBVIOUS
<1>1. /\ form' = form /\ tokens' = tokens /\ mask' = mask /\ text' = text
      /\ reading' = reading /\ at' = at /\ read' = read
  BY DEF textVars
<1> QED
  BY <1>1 DEF MeantInv, StandsIn, Upto, DigitsOf, ReadAsMeant, T!ReadAsMeant

LEMMA MeantStep == TextInv /\ MeantInv /\ [ScanNext]_scanVars => MeantInv'
<1> SUFFICES ASSUME TextInv, MeantInv, [ScanNext]_scanVars PROVE MeantInv'
  OBVIOUS
<1>1. CASE ReadText
  BY <1>1, ReadIdaMeant, ValidateHexMeant, dataFromHexMeant DEF ReadText, T!Next
<1>2. CASE UNCHANGED textVars
  BY <1>2, MeantKept
<1> QED
  BY <1>1, <1>2 DEF ScanNext, Give, Search, scanVars

\* However the positions of a text are spaced, what is read of it is what its
\* writer meant, place for place; of a hexadecimal text with anything else in
\* it, or a mask of another length, nothing is.
THEOREM TextsReadAsMeant == ScanSpec => []ReadAsMeant
<1>1. ScanInit => MeantInv
  BY InitMeant DEF ScanInit
<1>2. ScanInv /\ MeantInv /\ [ScanNext]_scanVars => MeantInv'
  BY MeantStep DEF ScanInv
<1>3. MeantInv => ReadAsMeant
  BY DEF MeantInv
<1> QED
  BY <1>1, <1>2, <1>3, ScanInvariant, PTL DEF ScanSpec

=============================================================================
