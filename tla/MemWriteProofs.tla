--------------------------- MODULE MemWriteProofs ---------------------------
(* memWrite for every number of threads, pages, bytes and calls: the       *)
(* instruction cache, the protections of pages, and the write its callers  *)
(* see.                                                                    *)
EXTENDS MemWrite, TLAPS

Split(p) == ~({"w", "x"} \subseteq p)

\* No page and no remembered protection is writable and executable.
SplitInv ==
  /\ \A p \in Pages : Split(prot[p])
  /\ \A w \in Writers : Split(saved[w])

FlushPending ==
  \A p \in Pages : ("x" \in prot[p] /\ Stale(p)) =>
    \E w \in Writers : pc[w] = "flush" /\ p \in Covered(w)

\* The shapes the step proofs rely on.
Shape ==
  /\ prot \in [Pages -> SUBSET {"r", "w", "x"}]
  /\ pc \in [Writers -> {"idle", "info", "direct", "protect", "write", "restore", "flush"}]
  /\ DOMAIN req = Writers
  /\ saved \in [Writers -> SUBSET {"r", "w", "x"}]
  /\ \A w \in Writers : pc[w] # "idle" => PageOf(req[w].first) \in Pages

CacheInv == Shape /\ SplitInv /\ FlushPending

USE DEF HasWrite, Restored, Flushed

LEMMA ShapeStep ==
  ASSUME Shape, [Next]_vars
  PROVE  Shape'
<1>1. ASSUME NEW w \in Writers, NEW f \in Addrs, NEW l \in Addrs, NEW v \in Values,
             Call(w, f, l, v)
      PROVE  Shape'
  BY <1>1, MemAssumption DEF Call, Shape
<1>2. ASSUME NEW w \in Writers, GetInfo(w) PROVE Shape'
  BY <1>2 DEF GetInfo, Refused, Finish, Shape
<1>3. ASSUME NEW w \in Writers, DirectWrite(w) PROVE Shape'
  BY <1>3 DEF DirectWrite, Refused, Finish, Shape
<1>4. ASSUME NEW w \in Writers, Protect(w) PROVE Shape'
  BY <1>4 DEF Protect, Refused, Finish, Shape, RW
<1>5. ASSUME NEW w \in Writers, Write(w) PROVE Shape'
  BY <1>5 DEF Write, Refused, Finish, Shape
<1>6. ASSUME NEW w \in Writers, Restore(w) PROVE Shape'
  BY <1>6 DEF Restore, Refused, Finish, Shape
<1>7. ASSUME NEW w \in Writers, Flush(w) PROVE Shape'
  BY <1>7 DEF Flush, Finish, Shape
<1>8. CASE UNCHANGED vars
  BY <1>8 DEF vars, Shape
<1>9. QED
  BY <1>1, <1>2, <1>3, <1>4, <1>5, <1>6, <1>7, <1>8 DEF Next, Step

LEMMA SplitStep ==
  ASSUME Shape, SplitInv, [Next]_vars
  PROVE  SplitInv'
<1>1. ASSUME NEW w \in Writers, GetInfo(w) PROVE SplitInv'
  BY <1>1 DEF GetInfo, Refused, Finish, Shape, SplitInv, Split
<1>2. ASSUME NEW w \in Writers, Protect(w) PROVE SplitInv'
  BY <1>2 DEF Protect, Refused, Finish, Shape, SplitInv, Split, RW
<1>3. ASSUME NEW w \in Writers, Restore(w) PROVE SplitInv'
  BY <1>3 DEF Restore, Refused, Finish, Shape, SplitInv, Split
<1>4. CASE UNCHANGED <<prot, saved>>
  BY <1>4 DEF SplitInv
<1>5. QED
  BY <1>1, <1>2, <1>3, <1>4
  DEF Next, Step, Call, DirectWrite, Write, Flush, Refused, Finish, vars

LEMMA FlushStep ==
  ASSUME Shape, SplitInv, FlushPending, [Next]_vars
  PROVE  FlushPending'
<1>1. ASSUME NEW w \in Writers, Restore(w) PROVE FlushPending'
  <2>1. CASE Refused(w, "restore", "KMS_ERR_PROT")
    BY <2>1 DEF Refused, Finish, FlushPending, Shape, Stale, Covered, PagesOf, Bytes
  <2>2. CASE pc[w] = "restore" /\ ~Refused(w, "restore", "KMS_ERR_PROT")
    <3>1. /\ \A p \in Pages : prot'[p] = IF p \in Covered(w) THEN saved[w] ELSE prot[p]
          /\ pc' = [pc EXCEPT ![w] = "flush"]
          /\ UNCHANGED <<mem, icache, req>>
      BY <1>1, <2>2 DEF Restore
    <3>2. \A p \in Pages : Stale(p)' = Stale(p)
      BY <3>1 DEF Stale
    <3>3. \A u \in Writers : Covered(u)' = Covered(u)
      BY <3>1 DEF Covered, PagesOf, Bytes
    <3>4. QED
      BY <2>2, <3>1, <3>2, <3>3 DEF FlushPending, Shape
  <2>3. QED
    BY <1>1, <2>1, <2>2 DEF Restore
<1>2. ASSUME NEW w \in Writers, Flush(w) PROVE FlushPending'
  <2>1. /\ \A a \in Addrs : icache'[a] = IF PageOf(a) \in Covered(w) THEN mem[a] ELSE icache[a]
        /\ pc[w] = "flush"
        /\ pc' = [pc EXCEPT ![w] = "idle"]
        /\ UNCHANGED <<mem, prot, req>>
    BY <1>2 DEF Flush, Finish
  <2>2. \A p \in Pages : Stale(p)' => Stale(p) /\ p \notin Covered(w)
    BY <2>1 DEF Stale
  <2>3. \A u \in Writers : Covered(u)' = Covered(u)
    BY <2>1 DEF Covered, PagesOf, Bytes
  <2>4. QED
    BY <2>1, <2>2, <2>3 DEF FlushPending, Shape
<1>3. ASSUME NEW w \in Writers, pc[w] # "flush", pc'[w] # "flush",
             \A u \in Writers : u # w => pc'[u] = pc[u] /\ req'[u] = req[u],
             \A p \in Pages : ("x" \in prot'[p] /\ Stale(p)') => ("x" \in prot[p] /\ Stale(p))
      PROVE  FlushPending'
  <2>1. \A u \in Writers : u # w => Covered(u)' = Covered(u)
    BY <1>3 DEF Covered, PagesOf, Bytes
  <2>2. QED
    BY <1>3, <2>1 DEF FlushPending
<1>4. ASSUME NEW w \in Writers, DirectWrite(w) \/ Write(w) PROVE FlushPending'
  <2>1. /\ pc[w] \in {"direct", "write"}
        /\ pc'[w] \in {"idle", "restore"}
        /\ \A u \in Writers : u # w => pc'[u] = pc[u] /\ req'[u] = req[u]
        /\ UNCHANGED <<prot, icache>>
    BY <1>4 DEF DirectWrite, Write, Refused, Finish, Shape
  <2>2. \/ mem' = mem
        \/ Put(w) /\ Writable(w)
    BY <1>4 DEF DirectWrite, Write, Refused
  <2>3. \A p \in Pages : ("x" \in prot'[p] /\ Stale(p)') => Stale(p)
    <3> SUFFICES ASSUME NEW p \in Pages, "x" \in prot[p], Stale(p)'
                 PROVE  Stale(p)
      BY <2>1
    <3>1. PICK a \in Addrs : PageOf(a) = p /\ icache[a] # mem'[a]
      BY <2>1 DEF Stale
    <3>2. CASE Put(w) /\ Writable(w)
      <4>1. a \notin Bytes(w)
        BY <3>1, <3>2 DEF Writable, PagesOf, SplitInv, Split
      <4>2. mem'[a] = mem[a]
        BY <3>2, <4>1 DEF Put
      <4>3. QED
        BY <3>1, <4>2 DEF Stale
    <3>3. QED
      BY <2>2, <3>1, <3>2 DEF Stale
  <2>4. QED
    BY <1>3, <2>1, <2>3
<1>5. ASSUME NEW w \in Writers, GetInfo(w) \/ Protect(w) PROVE FlushPending'
  <2>1. /\ pc[w] \in {"info", "protect"}
        /\ pc'[w] \in {"idle", "direct", "protect", "write"}
        /\ \A u \in Writers : u # w => pc'[u] = pc[u] /\ req'[u] = req[u]
        /\ \A p \in Pages : "x" \in prot'[p] => "x" \in prot[p]
        /\ UNCHANGED <<mem, icache>>
    BY <1>5 DEF GetInfo, Protect, Refused, Finish, Shape, RW
  <2>2. \A p \in Pages : Stale(p)' = Stale(p)
    BY <2>1 DEF Stale
  <2>3. QED
    BY <1>3, <2>1, <2>2
<1>6. ASSUME NEW w \in Writers, NEW f \in Addrs, NEW l \in Addrs, NEW v \in Values,
             Call(w, f, l, v)
      PROVE  FlushPending'
  <2>1. /\ pc[w] = "idle"
        /\ pc'[w] = "info"
        /\ \A u \in Writers : u # w => pc'[u] = pc[u] /\ req'[u] = req[u]
        /\ UNCHANGED <<mem, icache, prot>>
    BY <1>6 DEF Call, Shape
  <2>2. \A p \in Pages : Stale(p)' = Stale(p)
    BY <2>1 DEF Stale
  <2>3. QED
    BY <1>3, <2>1, <2>2
<1>7. CASE UNCHANGED vars
  BY <1>7 DEF vars, FlushPending, Stale, Covered, PagesOf, Bytes
<1>8. QED
  BY <1>1, <1>2, <1>4, <1>5, <1>6, <1>7 DEF Next, Step

\* Whatever number of threads write and whatever the kernel refuses, a page
\* that can be executed with outdated cached instructions has a call left
\* that is about to flush it.
THEOREM CacheCoherence == Spec => []StaleOnlyUntilFlush
<1>1. CASE WriteXorExecute
  <2>1. Init => CacheInv
    BY <1>1, MemAssumption
    DEF Init, CacheInv, Shape, SplitInv, Split, FlushPending, Stale, WriteXorExecute
  <2>2. CacheInv /\ [Next]_vars => CacheInv'
    BY ShapeStep, SplitStep, FlushStep DEF CacheInv
  <2>3. CacheInv => StaleOnlyUntilFlush
    BY DEF CacheInv, FlushPending, StaleOnlyUntilFlush
  <2>4. QED
    BY <2>1, <2>2, <2>3, PTL DEF Spec
<1>2. CASE ~WriteXorExecute
  <2>1. StaleOnlyUntilFlush
    BY <1>2 DEF StaleOnlyUntilFlush
  <2>2. QED
    BY <2>1, PTL
<1>3. QED
  BY <1>1, <1>2

-----------------------------------------------------------------------------
(* Types, and protections that come back                                   *)

LEMMA TypeRefused ==
  ASSUME TypeOK, NEW w \in Writers, NEW at, NEW code \in Results, Refused(w, at, code)
  PROVE  TypeOK'
<1>1. /\ refused' = TRUE
      /\ pc' = [pc EXCEPT ![w] = "idle"]
      /\ result' = [result EXCEPT ![w] = code]
      /\ UNCHANGED <<mem, icache, prot, initProt, req, saved, lost, wide, calls>>
  BY DEF Refused, Finish
<1>2. QED
  BY <1>1 DEF TypeOK

LEMMA TypeStep ==
  ASSUME TypeOK, [Next]_vars
  PROVE  TypeOK'
<1>1. ASSUME NEW w \in Writers, NEW f \in Addrs, NEW l \in Addrs, NEW v \in Values,
             Call(w, f, l, v)
      PROVE  TypeOK'
  <2>1. req' \in [Writers -> [first : Addrs, last : Addrs, value : Values]]
        /\ \A u \in Writers : req'[u].first <= req'[u].last
    BY <1>1 DEF Call, TypeOK
  <2>2. calls' \in 0..MaxCalls
    BY <1>1, MemAssumption DEF Call, TypeOK
  <2>3. QED
    BY <1>1, <2>1, <2>2 DEF Call, TypeOK, Results
<1>2. ASSUME NEW w \in Writers, GetInfo(w) PROVE TypeOK'
  <2>1. PageOf(req[w].first) \in Pages
    BY MemAssumption DEF TypeOK
  <2>2. CASE Refused(w, "info", "KMS_ERR_GET_PAGEINFO")
    BY <2>2, TypeRefused DEF Results
  <2>3. CASE ~Refused(w, "info", "KMS_ERR_GET_PAGEINFO")
    <3>1. /\ saved' = [saved EXCEPT ![w] = prot[PageOf(req[w].first)]]
          /\ pc' = [pc EXCEPT ![w] =
                      IF "w" \in prot[PageOf(req[w].first)] THEN "direct" ELSE "protect"]
          /\ UNCHANGED <<mem, icache, prot, initProt, req, result, refused, lost, wide, calls>>
      BY <1>2, <2>3 DEF GetInfo
    <3>2. prot[PageOf(req[w].first)] \in SUBSET {"r", "w", "x"}
      BY <2>1 DEF TypeOK
    <3>3. /\ saved' \in [Writers -> SUBSET {"r", "w", "x"}]
          /\ pc' \in [Writers -> {"idle", "info", "direct", "protect", "write", "restore", "flush"}]
      BY <3>1, <3>2 DEF TypeOK
    <3>4. QED
      BY <3>1, <3>3 DEF TypeOK
  <2>4. QED
    BY <2>2, <2>3
<1>3. ASSUME NEW w \in Writers, Put(w) PROVE mem' \in [Addrs -> Values] \/ ~TypeOK
  BY <1>3 DEF Put, TypeOK
<1>4. ASSUME NEW w \in Writers, DirectWrite(w) PROVE TypeOK'
  BY <1>3, <1>4 DEF DirectWrite, Refused, Finish, TypeOK, Results
<1>5. ASSUME NEW w \in Writers, Protect(w) PROVE TypeOK'
  <2>1. CASE Refused(w, "protect", "KMS_ERR_PROT")
    BY <2>1, TypeRefused DEF Results
  <2>2. CASE ~Refused(w, "protect", "KMS_ERR_PROT")
    <3>1. /\ pc[w] = "protect" /\ pc' = [pc EXCEPT ![w] = "write"]
          /\ prot' = [p \in Pages |-> IF p \in Covered(w) THEN RW ELSE prot[p]]
          /\ UNCHANGED <<mem, icache, initProt, req, saved, result, refused, lost, wide, calls>>
      BY <1>5, <2>2 DEF Protect
    <3>2. prot' \in [Pages -> SUBSET {"r", "w", "x"}]
      BY <3>1 DEF TypeOK, RW
    <3>3. QED
      BY <3>1, <3>2 DEF TypeOK
  <2>3. QED
    BY <2>1, <2>2
<1>6. ASSUME NEW w \in Writers, Write(w) PROVE TypeOK'
  BY <1>3, <1>6 DEF Write, Refused, Finish, TypeOK, Results
<1>7. ASSUME NEW w \in Writers, Restore(w) PROVE TypeOK'
  BY <1>7 DEF Restore, Refused, Finish, TypeOK, Results
<1>8. ASSUME NEW w \in Writers, Flush(w) PROVE TypeOK'
  BY <1>8 DEF Flush, Finish, TypeOK, Results
<1>9. CASE UNCHANGED vars
  BY <1>9 DEF vars, TypeOK
<1>10. QED
  BY <1>1, <1>2, <1>4, <1>5, <1>6, <1>7, <1>8, <1>9 DEF Next, Step

LEMMA TypesAtStart == Init => TypeOK
<1> SUFFICES ASSUME Init PROVE TypeOK
  OBVIOUS
<1>1. NoRequest \in [first : Addrs, last : Addrs, value : Values]
  BY MemAssumption DEF NoRequest
<1>2. req \in [Writers -> [first : Addrs, last : Addrs, value : Values]]
      /\ \A w \in Writers : req[w].first <= req[w].last
  BY <1>1 DEF Init, NoRequest
<1>3. prot \in [Pages -> SUBSET {"r", "w", "x"}] /\ initProt \in [Pages -> Protections]
  BY MemAssumption DEF Init
<1>4. mem \in [Addrs -> Values] /\ icache \in [Addrs -> Values] /\ calls \in 0..MaxCalls
  BY MemAssumption DEF Init
<1>5. saved \in [Writers -> SUBSET {"r", "w", "x"}]
  BY DEF Init
<1>6. QED
  BY <1>2, <1>3, <1>4, <1>5 DEF Init, TypeOK, Results

\* Every reachable state of any number of calls is well typed; a call that goes
\* straight to the write has read a writable page, and one that changes
\* protections has not.
THEOREM TypeCorrect == Spec => []TypeOK
<1>1. Init => TypeOK
  BY TypesAtStart
<1>2. TypeOK /\ [Next]_vars => TypeOK'
  BY TypeStep
<1>3. QED
  BY <1>1, <1>2, PTL DEF Spec

\* The pages of a range lie between its first and its last one.
LEMMA PageMonotone ==
  ASSUME NEW a \in Nat, NEW b \in Nat, a <= b
  PROVE  PageOf(a) <= PageOf(b)
  BY MemAssumption DEF PageOf

LEMMA OnePage ==
  ASSUME TypeOK, NEW w \in Writers, PageOf(req[w].first) = PageOf(req[w].last)
  PROVE  Covered(w) = {PageOf(req[w].first)}
<1>1. /\ req[w].first \in Nat /\ req[w].last \in Nat
      /\ req[w].first <= req[w].last
  BY DEF TypeOK, Addrs
<1>2. ASSUME NEW a \in Bytes(w) PROVE PageOf(a) = PageOf(req[w].first)
  <2>1. a \in Nat /\ req[w].first <= a /\ a <= req[w].last
    BY <1>1 DEF Bytes
  <2>2. PageOf(req[w].first) <= PageOf(a) /\ PageOf(a) <= PageOf(req[w].last)
    BY <1>1, <2>1, PageMonotone
  <2>3. PageOf(a) \in Int /\ PageOf(req[w].first) \in Int
    BY <1>1, <2>1, MemAssumption DEF PageOf
  <2>4. QED
    BY <2>2, <2>3
<1>3. req[w].first \in Bytes(w)
  BY <1>1 DEF Bytes
<1>4. QED
  BY <1>2, <1>3 DEF Covered, PagesOf

-----------------------------------------------------------------------------
\* The runs ProtectionsReturn speaks of, before its calls are over.
Undisturbed ==
  /\ ~refused /\ ~(wide /\ lost)
  /\ \A p, q \in Pages : initProt[p] = initProt[q]

Borrows(w) == pc[w] \in {"write", "restore"}

\* While calls are under way, a page whose protection is not its own is readable
\* and writable, and some call that covers it is to put back what it had found.
Borrowed ==
  /\ \A p \in Pages : prot[p] \in {initProt[p], RW}
  /\ \A w \in Writers : pc[w] \in {"protect", "write", "restore"} =>
       \A p \in Pages : saved[w] = initProt[p]
  /\ \A p \in Pages : prot[p] # initProt[p] =>
       \E w \in Writers : Borrows(w) /\ p \in Covered(w)

NarrowCalls == ~wide => \A w \in Writers :
  pc[w] # "idle" => PageOf(req[w].first) = PageOf(req[w].last)

ProtInv == TypeOK /\ NarrowCalls /\ (Undisturbed => Borrowed)

\* A step that leaves protections alone, and no call that borrows a page.
LEMMA BorrowedStays ==
  ASSUME ProtInv, Undisturbed, NEW w \in Writers,
         UNCHANGED <<prot, initProt>>,
         \A u \in Writers : u # w => pc'[u] = pc[u] /\ req'[u] = req[u] /\ saved'[u] = saved[u],
         Borrows(w) => pc'[w] \in {"write", "restore"} /\ req'[w] = req[w],
         pc'[w] \in {"protect", "write", "restore"} => \A p \in Pages : saved'[w] = initProt[p]
  PROVE  Borrowed'
<1>1. Borrowed
  BY DEF ProtInv
<1>2. \A u \in Writers : Borrows(u) => Borrows(u)' /\ Covered(u)' = Covered(u)
  BY DEF Borrows, Covered, PagesOf, Bytes
<1>3. \A p \in Pages : prot'[p] \in {initProt'[p], RW}
  BY <1>1 DEF Borrowed
<1>4. \A u \in Writers : pc'[u] \in {"protect", "write", "restore"} =>
        \A p \in Pages : saved'[u] = initProt'[p]
  BY <1>1 DEF Borrowed
<1>5. \A p \in Pages : prot'[p] # initProt'[p] =>
        \E u \in Writers : Borrows(u)' /\ p \in Covered(u)'
  BY <1>1, <1>2 DEF Borrowed
<1>6. QED
  BY <1>3, <1>4, <1>5 DEF Borrowed

\* A page that is not writable has its own protection.
LEMMA LostIsReturned ==
  ASSUME ProtInv, Undisturbed, NEW p \in Pages, "w" \notin prot[p]
  PROVE  prot[p] = initProt[p]
  BY DEF ProtInv, Borrowed, RW

LEMMA ProtStep ==
  ASSUME ProtInv, [Next]_vars
  PROVE  ProtInv'
<1>t. TypeOK /\ NarrowCalls
  BY DEF ProtInv
<1>n. TypeOK'
  BY <1>t, TypeStep
<1>1. ASSUME NEW w \in Writers, NEW at, NEW code, Refused(w, at, code) PROVE ProtInv'
  <2>1. refused' /\ wide' = wide /\ req' = req
        /\ \A u \in Writers : pc'[u] # "idle" => pc[u] # "idle"
    BY <1>1, <1>t DEF Refused, Finish, TypeOK
  <2>2. NarrowCalls'
    BY <2>1, <1>t DEF NarrowCalls
  <2>3. QED
    BY <2>1, <2>2, <1>n DEF ProtInv, Undisturbed
<1>2. ASSUME NEW w \in Writers, NEW f \in Addrs, NEW l \in Addrs, NEW v \in Values,
             Call(w, f, l, v)
      PROVE  ProtInv'
  <2>1. /\ pc[w] = "idle" /\ pc' = [pc EXCEPT ![w] = "info"]
        /\ req' = [req EXCEPT ![w] = [first |-> f, last |-> l, value |-> v]]
        /\ wide' = (wide \/ PageOf(f) # PageOf(l))
        /\ UNCHANGED <<prot, initProt, saved, refused, lost>>
    BY <1>2 DEF Call
  <2>2. /\ \A u \in Writers : u # w => pc'[u] = pc[u] /\ req'[u] = req[u]
        /\ pc'[w] = "info" /\ req'[w].first = f /\ req'[w].last = l
    BY <2>1, <1>t DEF TypeOK
  <2>3. NarrowCalls'
    BY <2>1, <2>2, <1>t DEF NarrowCalls
  <2>4. Undisturbed' => Undisturbed
    BY <2>1, <1>t DEF Undisturbed, TypeOK
  <2>5. ASSUME Undisturbed PROVE Borrowed'
    BY <2>1, <2>2, <2>5, BorrowedStays DEF Borrows
  <2>6. QED
    BY <1>n, <2>3, <2>4, <2>5 DEF ProtInv
<1>3. ASSUME NEW w \in Writers, NEW next \in {"idle", "direct", "protect", "write", "restore", "flush"},
             pc' = [pc EXCEPT ![w] = next], pc[w] # "idle",
             UNCHANGED <<req, initProt, refused, wide>>,
             lost => lost', lost' \in BOOLEAN,
             Undisturbed => Borrowed'
      PROVE  ProtInv'
  <2>1. NarrowCalls'
    BY <1>3, <1>t DEF NarrowCalls, TypeOK
  <2>2. Undisturbed' => Undisturbed
    BY <1>3, <1>t DEF Undisturbed, TypeOK
  <2>3. QED
    BY <1>3, <1>n, <2>1, <2>2 DEF ProtInv
<1>4. ASSUME NEW w \in Writers, GetInfo(w), ~Refused(w, "info", "KMS_ERR_GET_PAGEINFO")
      PROVE  ProtInv'
  <2> DEFINE own == prot[PageOf(req[w].first)]
  <2>1. /\ pc[w] = "info" /\ saved' = [saved EXCEPT ![w] = own]
        /\ pc' = [pc EXCEPT ![w] = IF "w" \in own THEN "direct" ELSE "protect"]
        /\ UNCHANGED <<mem, icache, prot, initProt, req, result, refused, lost, wide, calls>>
    BY <1>4 DEF GetInfo
  <2>2. PageOf(req[w].first) \in Pages
    BY <1>t, MemAssumption DEF TypeOK
  <2>3. ASSUME Undisturbed PROVE Borrowed'
    <3>1. /\ \A u \in Writers : u # w => pc'[u] = pc[u] /\ saved'[u] = saved[u]
          /\ saved'[w] = own
          /\ pc'[w] = IF "w" \in own THEN "direct" ELSE "protect"
      BY <2>1, <1>t DEF TypeOK
    <3>2. pc'[w] = "protect" => \A p \in Pages : saved'[w] = initProt[p]
      BY <3>1, <2>2, <2>3, LostIsReturned DEF Undisturbed
    <3>3. ~Borrows(w) /\ pc'[w] \notin {"write", "restore"}
      BY <2>1, <3>1 DEF Borrows
    <3>4. QED
      BY <2>1, <2>3, <3>1, <3>2, <3>3, BorrowedStays
  <2>4. QED
    BY <1>3, <2>1, <2>3, <1>t DEF TypeOK
<1>5. ASSUME NEW w \in Writers, DirectWrite(w), ~Refused(w, "direct", "KMS_ERR_VMWRITE")
      PROVE  ProtInv'
  <2>1. /\ pc[w] = "direct" /\ pc' = [pc EXCEPT ![w] = "idle"]
        /\ lost => lost'
        /\ UNCHANGED <<prot, initProt, req, saved, refused, wide>>
    BY <1>5 DEF DirectWrite, Finish
  <2>2. ASSUME Undisturbed PROVE Borrowed'
    <3>1. /\ \A u \in Writers : u # w => pc'[u] = pc[u]
          /\ pc'[w] = "idle"
      BY <2>1, <1>t DEF TypeOK
    <3>2. QED
      BY <2>1, <2>2, <3>1, BorrowedStays DEF Borrows
  <2>3. QED
    BY <1>3, <2>1, <2>2, <1>n DEF TypeOK
<1>6. ASSUME NEW w \in Writers, Protect(w), ~Refused(w, "protect", "KMS_ERR_PROT")
      PROVE  ProtInv'
  <2>1. /\ pc[w] = "protect" /\ pc' = [pc EXCEPT ![w] = "write"]
        /\ prot' = [p \in Pages |-> IF p \in Covered(w) THEN RW ELSE prot[p]]
        /\ UNCHANGED <<initProt, req, saved, refused, lost, wide>>
    BY <1>6 DEF Protect
  <2>2. ASSUME Undisturbed PROVE Borrowed'
    <3>1. /\ \A u \in Writers : u # w => pc'[u] = pc[u]
          /\ pc'[w] = "write"
      BY <2>1, <1>t DEF TypeOK
    <3>2. Borrowed
      BY <2>2 DEF ProtInv
    <3>3. \A u \in Writers : (Borrows(u) => Borrows(u)') /\ Covered(u)' = Covered(u)
      BY <2>1, <3>1 DEF Borrows, Covered, PagesOf, Bytes
    <3>4. Borrows(w)'
      BY <3>1 DEF Borrows
    <3>5. \A p \in Pages : prot'[p] \in {initProt'[p], RW}
      BY <2>1, <3>2 DEF Borrowed
    <3>6. \A u \in Writers : pc'[u] \in {"protect", "write", "restore"} =>
            \A p \in Pages : saved'[u] = initProt'[p]
      BY <2>1, <3>1, <3>2 DEF Borrowed
    <3>7. \A p \in Pages : prot'[p] # initProt'[p] =>
            \E u \in Writers : Borrows(u)' /\ p \in Covered(u)'
      BY <2>1, <3>2, <3>3, <3>4 DEF Borrowed
    <3>8. QED
      BY <3>5, <3>6, <3>7 DEF Borrowed
  <2>3. QED
    BY <1>3, <2>1, <2>2, <1>n DEF TypeOK
<1>7. ASSUME NEW w \in Writers, Write(w), ~Refused(w, "write", "KMS_ERR_VMWRITE")
      PROVE  ProtInv'
  <2>1. /\ pc[w] = "write"
        /\ UNCHANGED <<prot, initProt, req, saved, refused, wide>>
        /\ \/ Writable(w) /\ pc' = [pc EXCEPT ![w] = "restore"] /\ lost' = lost
           \/ ~Writable(w) /\ pc' = [pc EXCEPT ![w] = "idle"] /\ lost'
    BY <1>7 DEF Write, Finish
  <2>2. CASE Writable(w) /\ pc' = [pc EXCEPT ![w] = "restore"] /\ lost' = lost
    <3>1. ASSUME Undisturbed PROVE Borrowed'
      <4>1. /\ \A u \in Writers : u # w => pc'[u] = pc[u]
            /\ pc'[w] = "restore"
        BY <2>2, <1>t DEF TypeOK
      <4>2. \A p \in Pages : saved[w] = initProt[p]
        BY <2>1, <3>1 DEF ProtInv, Borrowed
      <4>3. QED
        BY <2>1, <3>1, <4>1, <4>2, BorrowedStays
    <3>2. QED
      BY <1>3, <2>1, <2>2, <3>1, <1>n DEF TypeOK
  <2>3. CASE ~Writable(w) /\ pc' = [pc EXCEPT ![w] = "idle"] /\ lost'
    <3>1. NarrowCalls'
      BY <2>1, <2>3, <1>t DEF NarrowCalls, TypeOK
    <3>2. Undisturbed' => Undisturbed /\ ~wide
      BY <2>1, <2>3 DEF Undisturbed
    <3>3. ASSUME Undisturbed, ~wide PROVE Borrowed'
      <4>1. /\ \A u \in Writers : u # w => pc'[u] = pc[u]
            /\ pc'[w] = "idle"
        BY <2>3, <1>t DEF TypeOK
      <4>2. Covered(w) = {PageOf(req[w].first)}
        BY <2>1, <3>3, <1>t, OnePage DEF NarrowCalls
      <4>3. PageOf(req[w].first) \in Pages
        BY <1>t, MemAssumption DEF TypeOK
      <4>4. prot[PageOf(req[w].first)] = initProt[PageOf(req[w].first)]
        BY <2>3, <3>3, <4>2, <4>3, LostIsReturned DEF Writable, Covered
      <4>5. Borrowed
        BY <3>3 DEF ProtInv
      <4>6. \A u \in Writers : u # w => (Borrows(u) => Borrows(u)') /\ Covered(u)' = Covered(u)
        BY <2>1, <4>1 DEF Borrows, Covered, PagesOf, Bytes
      <4>7. \A p \in Pages : prot'[p] # initProt'[p] =>
              \E u \in Writers : Borrows(u)' /\ p \in Covered(u)'
        BY <2>1, <4>2, <4>4, <4>5, <4>6 DEF Borrowed
      <4>8. QED
        BY <2>1, <4>1, <4>5, <4>7 DEF Borrowed
    <3>4. QED
      BY <1>n, <3>1, <3>2, <3>3 DEF ProtInv
  <2>4. QED
    BY <2>1, <2>2, <2>3
<1>8. ASSUME NEW w \in Writers, Restore(w), ~Refused(w, "restore", "KMS_ERR_PROT")
      PROVE  ProtInv'
  <2>1. /\ pc[w] = "restore" /\ pc' = [pc EXCEPT ![w] = "flush"]
        /\ prot' = [p \in Pages |-> IF p \in Covered(w) THEN saved[w] ELSE prot[p]]
        /\ UNCHANGED <<initProt, req, saved, refused, lost, wide>>
    BY <1>8 DEF Restore
  <2>2. ASSUME Undisturbed PROVE Borrowed'
    <3>1. /\ \A u \in Writers : u # w => pc'[u] = pc[u]
          /\ pc'[w] = "flush"
      BY <2>1, <1>t DEF TypeOK
    <3>2. Borrowed /\ \A p \in Pages : saved[w] = initProt[p]
      BY <2>1, <2>2 DEF ProtInv, Borrowed
    <3>3. \A u \in Writers : u # w => (Borrows(u) => Borrows(u)') /\ Covered(u)' = Covered(u)
      BY <2>1, <3>1 DEF Borrows, Covered, PagesOf, Bytes
    <3>4. \A p \in Pages : prot'[p] \in {initProt'[p], RW}
      BY <2>1, <3>2 DEF Borrowed
    <3>5. \A u \in Writers : pc'[u] \in {"protect", "write", "restore"} =>
            \A p \in Pages : saved'[u] = initProt'[p]
      BY <2>1, <3>1, <3>2 DEF Borrowed
    <3>6. \A p \in Pages : prot'[p] # initProt'[p] =>
            \E u \in Writers : Borrows(u)' /\ p \in Covered(u)'
      BY <2>1, <3>2, <3>3 DEF Borrowed
    <3>7. QED
      BY <3>4, <3>5, <3>6 DEF Borrowed
  <2>3. QED
    BY <1>3, <2>1, <2>2, <1>n DEF TypeOK
<1>9. ASSUME NEW w \in Writers, Flush(w) PROVE ProtInv'
  <2>1. /\ pc[w] = "flush" /\ pc' = [pc EXCEPT ![w] = "idle"]
        /\ UNCHANGED <<prot, initProt, req, saved, refused, lost, wide>>
    BY <1>9 DEF Flush, Finish
  <2>2. ASSUME Undisturbed PROVE Borrowed'
    <3>1. /\ \A u \in Writers : u # w => pc'[u] = pc[u]
          /\ pc'[w] = "idle"
      BY <2>1, <1>t DEF TypeOK
    <3>2. QED
      BY <2>1, <2>2, <3>1, BorrowedStays DEF Borrows
  <2>3. QED
    BY <1>3, <2>1, <2>2, <1>n DEF TypeOK
<1>10. CASE UNCHANGED vars
  BY <1>10, <1>n
  DEF vars, ProtInv, NarrowCalls, Undisturbed, Borrowed, Borrows, Covered, PagesOf, Bytes
<1>11. QED
  BY <1>1, <1>2, <1>4, <1>5, <1>6, <1>7, <1>8, <1>9, <1>10 DEF Next, Step

\* Whatever number of calls overlap on whatever number of pages that share one
\* protection: when they are over every page has it back, unless the kernel
\* refused something or a call of several pages lost the race for one of them.
THEOREM ProtectionsComeBack == Spec => []ProtectionsReturn
<1>1. ASSUME Init PROVE ProtInv
  <2>1. TypeOK
    BY <1>1, TypesAtStart
  <2>2. QED
    BY <1>1, <2>1 DEF Init, ProtInv, NarrowCalls, Borrowed
<1>2. ProtInv /\ [Next]_vars => ProtInv'
  BY ProtStep
<1>3. ASSUME ProtInv PROVE ProtectionsReturn
  <2>1. SUFFICES ASSUME Idle, Undisturbed PROVE prot = initProt
    BY DEF ProtectionsReturn, Undisturbed
  <2>2. \A p \in Pages : prot[p] = initProt[p]
    BY <1>3, <2>1 DEF ProtInv, Borrowed, Borrows, Idle
  <2>3. QED
    BY <1>3, <2>2 DEF ProtInv, TypeOK
<1>4. QED
  BY <1>1, <1>2, <1>3, PTL DEF Spec

-----------------------------------------------------------------------------
(* The service a caller sees                                               *)

\* A call that moves from one of the program's places to another.
LEMMA StageMoves ==
  ASSUME TypeOK, NEW w \in Writers, NEW to, pc' = [pc EXCEPT ![w] = to], NEW s,
         s = CASE to = "idle" -> "none"
               [] to \in {"restore", "flush"} -> "written"
               [] OTHER -> "asked"
  PROVE  Stage' = [Stage EXCEPT ![w] = s]
<1>1. DOMAIN pc = Writers
  BY DEF TypeOK
<1>2. pc'[w] = to /\ \A u \in Writers : u # w => pc'[u] = pc[u]
  BY <1>1
<1> QED
  BY <1>2 DEF Stage

LEMMA StageStays ==
  ASSUME TypeOK, NEW w \in Writers, NEW to, pc' = [pc EXCEPT ![w] = to],
         Stage[w] = CASE to = "idle" -> "none"
                      [] to \in {"restore", "flush"} -> "written"
                      [] OTHER -> "asked"
  PROVE  Stage' = Stage
<1>1. Stage' = [Stage EXCEPT ![w] = Stage[w]]
  BY StageMoves
<1> QED
  BY <1>1 DEF Stage

\* A refusal is an answer that the call may give where it is.
LEMMA RefusalAnswers ==
  ASSUME TypeOK, NEW w \in Writers, NEW at, NEW code, Refused(w, at, code),
         code \in Service!Answers(Stage[w])
  PROVE  Service!Next
<1>1. /\ pc' = [pc EXCEPT ![w] = "idle"]
      /\ result' = [result EXCEPT ![w] = code]
      /\ UNCHANGED <<mem, req>>
  BY DEF Refused, Finish
<1>2. Stage' = [Stage EXCEPT ![w] = "none"]
  BY <1>1, StageMoves
<1>3. Service!Return(w, code)
  BY <1>1, <1>2 DEF Service!Return
<1>4. Service!Answer(w)
  BY <1>1, <1>3 DEF Service!Answer
<1> QED
  BY <1>4 DEF Service!Next

\* Every step of memWrite is one of the service, or nothing that it sees.
LEMMA ServiceStep ==
  ASSUME TypeOK, [Next]_vars
  PROVE  [Service!Next]_(Service!vars)
<1>0. \A w \in Writers :
        /\ pc[w] = "idle" => Stage[w] = "none"
        /\ pc[w] \in {"info", "direct", "protect", "write"} => Stage[w] = "asked"
        /\ pc[w] \in {"restore", "flush"} => Stage[w] = "written"
  BY DEF Stage
<1>a. /\ Service!Answers("asked") = {"KMS_ERR_GET_PAGEINFO", "KMS_ERR_PROT", "KMS_ERR_VMWRITE"}
      /\ Service!Answers("written") = {"KMS_SUCCESS", "KMS_ERR_PROT"}
  BY DEF Service!Answers
<1>1. ASSUME NEW w \in Writers, NEW f \in Addrs, NEW l \in Addrs, NEW v \in Values,
             Call(w, f, l, v)
      PROVE  Service!Next
  <2>1. /\ pc[w] = "idle" /\ f <= l
        /\ pc' = [pc EXCEPT ![w] = "info"]
        /\ req' = [req EXCEPT ![w] = [first |-> f, last |-> l, value |-> v]]
        /\ result' = [result EXCEPT ![w] = "none"]
        /\ UNCHANGED mem
    BY <1>1 DEF Call
  <2>2. Stage' = [Stage EXCEPT ![w] = "asked"]
    <3>1. "asked" = CASE "info" = "idle" -> "none"
                      [] "info" \in {"restore", "flush"} -> "written"
                      [] OTHER -> "asked"
      OBVIOUS
    <3> QED
      BY <2>1, <3>1, StageMoves
  <2>3. Service!Ask(w, f, l, v)
    BY <1>0, <2>1, <2>2 DEF Service!Ask
  <2> QED
    BY <2>3 DEF Service!Next
<1>2. ASSUME NEW w \in Writers, GetInfo(w) PROVE [Service!Next]_(Service!vars)
  <2>1. CASE Refused(w, "info", "KMS_ERR_GET_PAGEINFO")
    <3>1. pc[w] = "info"
      BY <2>1 DEF Refused
    <3> QED
      BY <1>0, <1>a, <2>1, <3>1, RefusalAnswers
  <2>2. CASE ~Refused(w, "info", "KMS_ERR_GET_PAGEINFO")
    <3>1. /\ pc[w] = "info"
          /\ \E to \in {"direct", "protect"} : pc' = [pc EXCEPT ![w] = to]
          /\ UNCHANGED <<mem, req, result>>
      BY <1>2, <2>2 DEF GetInfo
    <3>2. Stage' = Stage
      BY <1>0, <3>1, StageStays
    <3> QED
      BY <3>1, <3>2 DEF Service!vars
  <2> QED
    BY <2>1, <2>2
<1>3. ASSUME NEW w \in Writers, Put(w), pc[w] \in {"direct", "write"}
      PROVE  Service!Take(w)
  BY <1>0, <1>3 DEF Put, Bytes, Service!Take
<1>4. ASSUME NEW w \in Writers, ~Writable(w), pc[w] \in {"direct", "write"},
             Finish(w, "KMS_ERR_VMWRITE"), UNCHANGED <<mem, req>>
      PROVE  Service!Next
  <2>1. pc' = [pc EXCEPT ![w] = "idle"] /\ result' = [result EXCEPT ![w] = "KMS_ERR_VMWRITE"]
    BY <1>4 DEF Finish
  <2>2. Stage' = [Stage EXCEPT ![w] = "none"]
    BY <2>1, StageMoves
  <2>3. Service!Return(w, "KMS_ERR_VMWRITE")
    BY <1>4, <2>1, <2>2 DEF Service!Return
  <2>4. Service!Answer(w)
    BY <1>0, <1>a, <1>4, <2>3 DEF Service!Answer
  <2> QED
    BY <2>4 DEF Service!Next
<1>5. ASSUME NEW w \in Writers, DirectWrite(w) PROVE Service!Next
  <2>1. CASE Refused(w, "direct", "KMS_ERR_VMWRITE")
    <3>1. pc[w] = "direct"
      BY <2>1 DEF Refused
    <3> QED
      BY <1>0, <1>a, <2>1, <3>1, RefusalAnswers
  <2>2. CASE /\ pc[w] = "direct" /\ Put(w) /\ Finish(w, "KMS_SUCCESS")
             /\ UNCHANGED req
    <3>1. pc' = [pc EXCEPT ![w] = "idle"] /\ result' = [result EXCEPT ![w] = "KMS_SUCCESS"]
      BY <2>2 DEF Finish
    <3>2. Stage' = [Stage EXCEPT ![w] = "none"]
      BY <3>1, StageMoves
    <3>3. Service!WriteAndAnswer(w)
      BY <1>3, <2>2, <3>1, <3>2 DEF Service!WriteAndAnswer, Service!Return
    <3> QED
      BY <3>3 DEF Service!Next
  <2>3. CASE /\ pc[w] = "direct" /\ ~Writable(w) /\ Finish(w, "KMS_ERR_VMWRITE")
             /\ UNCHANGED <<mem, req>>
    BY <1>4, <2>3
  <2> QED
    BY <1>5, <2>1, <2>2, <2>3 DEF DirectWrite
<1>6. ASSUME NEW w \in Writers, Protect(w) PROVE [Service!Next]_(Service!vars)
  <2>1. CASE Refused(w, "protect", "KMS_ERR_PROT")
    <3>1. pc[w] = "protect"
      BY <2>1 DEF Refused
    <3> QED
      BY <1>0, <1>a, <2>1, <3>1, RefusalAnswers
  <2>2. CASE ~Refused(w, "protect", "KMS_ERR_PROT")
    <3>1. /\ pc[w] = "protect" /\ pc' = [pc EXCEPT ![w] = "write"]
          /\ UNCHANGED <<mem, req, result>>
      BY <1>6, <2>2 DEF Protect
    <3>2. Stage' = Stage
      BY <1>0, <3>1, StageStays
    <3> QED
      BY <3>1, <3>2 DEF Service!vars
  <2> QED
    BY <2>1, <2>2
<1>7. ASSUME NEW w \in Writers, Write(w) PROVE Service!Next
  <2>1. CASE Refused(w, "write", "KMS_ERR_VMWRITE")
    <3>1. pc[w] = "write"
      BY <2>1 DEF Refused
    <3> QED
      BY <1>0, <1>a, <2>1, <3>1, RefusalAnswers
  <2>2. CASE /\ pc[w] = "write" /\ Put(w) /\ pc' = [pc EXCEPT ![w] = "restore"]
             /\ UNCHANGED <<req, result>>
    <3>1. Stage' = [Stage EXCEPT ![w] = "written"]
      BY <2>2, StageMoves
    <3>2. Service!Write(w)
      BY <1>3, <2>2, <3>1 DEF Service!Write
    <3> QED
      BY <3>2 DEF Service!Next
  <2>3. CASE /\ pc[w] = "write" /\ ~Writable(w) /\ Finish(w, "KMS_ERR_VMWRITE")
             /\ UNCHANGED <<mem, req>>
    BY <1>4, <2>3
  <2> QED
    BY <1>7, <2>1, <2>2, <2>3 DEF Write
<1>8. ASSUME NEW w \in Writers, Restore(w) PROVE [Service!Next]_(Service!vars)
  <2>1. CASE Refused(w, "restore", "KMS_ERR_PROT")
    <3>1. pc[w] = "restore"
      BY <2>1 DEF Refused
    <3> QED
      BY <1>0, <1>a, <2>1, <3>1, RefusalAnswers
  <2>2. CASE ~Refused(w, "restore", "KMS_ERR_PROT")
    <3>1. /\ pc[w] = "restore" /\ pc' = [pc EXCEPT ![w] = "flush"]
          /\ UNCHANGED <<mem, req, result>>
      BY <1>8, <2>2 DEF Restore
    <3>2. Stage' = Stage
      BY <1>0, <3>1, StageStays
    <3> QED
      BY <3>1, <3>2 DEF Service!vars
  <2> QED
    BY <2>1, <2>2
<1>9. ASSUME NEW w \in Writers, Flush(w) PROVE Service!Next
  <2>1. /\ pc[w] = "flush" /\ pc' = [pc EXCEPT ![w] = "idle"]
        /\ result' = [result EXCEPT ![w] = "KMS_SUCCESS"] /\ UNCHANGED <<mem, req>>
    BY <1>9 DEF Flush, Finish
  <2>2. Stage' = [Stage EXCEPT ![w] = "none"]
    BY <2>1, StageMoves
  <2>3. Service!Return(w, "KMS_SUCCESS")
    BY <2>1, <2>2 DEF Service!Return
  <2>4. Service!Answer(w)
    BY <1>0, <1>a, <2>1, <2>3 DEF Service!Answer
  <2> QED
    BY <2>4 DEF Service!Next
<1>10. CASE UNCHANGED vars
  BY <1>10 DEF vars, Stage, Service!vars
<1> QED
  BY <1>1, <1>2, <1>5, <1>6, <1>7, <1>8, <1>9, <1>10 DEF Next, Step

\* memWrite implements the atomic service that MemoryPatch is written against,
\* for every number of callers, pages and refusals (ImplementsWriteService).
THEOREM WritesAreAtomic == Spec => ImplementsWriteService
<1>1. Init => Service!Init
  BY DEF Init, Stage, NoRequest, Service!Init
<1>2. TypeOK /\ [Next]_vars => [Service!Next]_(Service!vars)
  BY ServiceStep
<1> QED
  BY <1>1, <1>2, TypeCorrect, PTL DEF Spec, Service!Spec, ImplementsWriteService

=============================================================================
