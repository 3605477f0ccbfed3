-------------------------- MODULE HookEngineProofs --------------------------
(* Theorems about HookEngine, for every value of its constants, and about  *)
(* HookOnce, for the programs that make one call.                          *)
EXTENDS HookOnce, WellFoundedInduction, TLAPS

USE HookAssumption
USE DEF MovedFunction, StoresDone, Remaining, Verdict, InTable, NextSlot

Tables    == [Slots -> Addr \cup {NoAddr}]
FuncLists == [Slots -> Func \cup {NoFunc}]

\* An accepted call: a well-formed image is about to be stored; that of an
\* unhook does not name its address.
BeginSome ==
  /\ \E n \in 0..MaxCount, a \in Addr \cup {NoAddr}, adr \in Tables, fun \in FuncLists,
        want \in SUBSET (Addr \X Func) :
       /\ CanCall
       /\ Begin(adr, fun, n, a, want)
       /\ a # NoAddr => \A i \in 1..n : adr[i] # a
  /\ initialized' \in BOOLEAN
  /\ breakpoints' \in Nat

RefuseSome == Refuse /\ initialized' \in BOOLEAN /\ breakpoints' \in Nat

\* Zexis either refuses or begins with a well-formed image.
LEMMA ZexisCases ==
  ASSUME TypeOK, NEW req \in Requests, Zexis(req)
  PROVE  BeginSome \/ RefuseSome
<1>1. PICK k \in 0..(MaxCount + 1) : req \in [1..k -> Addr \X Func]
  BY DEF Requests
<1>2. Len(req) = k
  BY <1>1
<1>3. initialized' \in BOOLEAN /\ breakpoints' \in Nat
  <2>1. Initialize \/ UNCHANGED initVars
    BY DEF Zexis
  <2>2. CASE Initialize
    <3>1. MaxCount \in Nat /\ breakpoints \in Nat
      BY DEF TypeOK
    <3>2. breakpoints' \in {breakpoints, HwBreakpoints, MaxCount}
      BY <2>2 DEF Initialize
    <3>3. QED
      BY <2>2, <3>1, <3>2 DEF Initialize
  <2>3. CASE UNCHANGED initVars
    BY <2>3 DEF TypeOK, initVars
  <2>4. QED
    BY <2>1, <2>2, <2>3
<1>4. CASE Refuse
  BY <1>3, <1>4 DEF RefuseSome
<1>5. CASE k <= MaxCount /\
           Begin([i \in Slots |-> IF i <= k THEN req[i][1] ELSE hookAddress[i]],
                 [i \in Slots |-> IF i <= k THEN req[i][2] ELSE hookFunction[i]],
                 k, NoAddr, FirstPairs(req))
  <2>1. [i \in Slots |-> IF i <= k THEN req[i][1] ELSE hookAddress[i]] \in Tables
    BY <1>1 DEF TypeOK, Slots, Tables
  <2>2. [i \in Slots |-> IF i <= k THEN req[i][2] ELSE hookFunction[i]] \in FuncLists
    BY <1>1 DEF TypeOK, Slots, FuncLists
  <2>3. CanCall
    BY DEF Zexis
  <2>4. FirstPairs(req) \in SUBSET (Addr \X Func)
    BY <1>1, <1>2 DEF FirstPairs
  <2>5. QED
    BY <1>3, <1>5, <2>1, <2>2, <2>3, <2>4 DEF BeginSome
<1>6. QED
  BY <1>2, <1>4, <1>5 DEF Zexis

\* ZexisUnhook always begins with a well-formed image.
LEMMA UnhookCases ==
  ASSUME TypeOK, NEW a \in Addr, ZexisUnhook(a)
  PROVE  BeginSome
<1>1. PICK n \in 0..active_hooks : \E m \in [1..n -> 1..active_hooks] :
        /\ Compaction(a, n, m)
        /\ Begin([i \in Slots |-> IF i <= n THEN hookAddress[m[i]] ELSE NoAddr],
                 [i \in Slots |-> IF i <= n THEN hookFunction[m[i]] ELSE NoFunc],
                 n, a, {p \in asked : p[1] # a})
  BY DEF ZexisUnhook
<1>2. PICK m \in [1..n -> 1..active_hooks] :
        /\ Compaction(a, n, m)
        /\ Begin([i \in Slots |-> IF i <= n THEN hookAddress[m[i]] ELSE NoAddr],
                 [i \in Slots |-> IF i <= n THEN hookFunction[m[i]] ELSE NoFunc],
                 n, a, {p \in asked : p[1] # a})
  BY <1>1
<1>3. n \in 0..MaxCount /\ 1..n \subseteq Slots /\ \A i \in 1..n : m[i] \in Slots
  BY DEF TypeOK, Slots
<1>4. [i \in Slots |-> IF i <= n THEN hookAddress[m[i]] ELSE NoAddr] \in Tables
  BY <1>3 DEF TypeOK, Slots, Tables
<1>5. [i \in Slots |-> IF i <= n THEN hookFunction[m[i]] ELSE NoFunc] \in FuncLists
  BY <1>3 DEF TypeOK, Slots, FuncLists
<1>6. initialized' \in BOOLEAN /\ breakpoints' \in Nat /\ CanCall
  BY DEF ZexisUnhook, TypeOK, initVars
<1>7. \A i \in 1..n : hookAddress[m[i]] # a
  BY <1>2 DEF Compaction, Kept
<1>8. \A i \in 1..n :
        [k \in Slots |-> IF k <= n THEN hookAddress[m[k]] ELSE NoAddr][i] # a
  BY <1>3, <1>7
<1>9. {p \in asked : p[1] # a} \in SUBSET (Addr \X Func)
  BY DEF TypeOK
<1>10. QED
  BY <1>2, <1>3, <1>4, <1>5, <1>6, <1>8, <1>9 DEF BeginSome

\* The state stays well typed.
THEOREM TypeCorrect == Spec => []TypeOK
<1>1. Init => TypeOK
  <2> SUFFICES ASSUME Init PROVE TypeOK
    OBVIOUS
  <2>1. port \in Seq(Threads)
    BY DEF Init
  <2>2. srv \in [phase : {"recv", "scan", "redirect"},
                 thread : Threads \cup {"none"}, i : Nat, limit : 0..MaxCount]
       /\ srv.phase = "recv"
    BY DEF Init
  <2>3. life \in [Threads -> {"unborn", "live", "gone"}]
    BY DEF Init
  <2>4. armed \in [Threads -> SUBSET (Addr \cup {NoAddr})] /\ MaxCount \in Nat
    BY DEF Init
  <2>5. /\ hookAddress \in [Slots -> Addr \cup {NoAddr}]
        /\ hookFunction \in [Slots -> Func \cup {NoFunc}]
        /\ landed \in [Threads -> Func \cup {NoFunc}]
        /\ trapped \in [Threads -> Addr \cup {NoAddr}]
    BY DEF Init
  <2>6. /\ active_hooks \in 0..MaxCount
        /\ breakpoints \in Nat
        /\ newCount \in 0..MaxCount
    BY <2>4 DEF Init
  <2>7. QED
    BY <2>1, <2>2, <2>3, <2>4, <2>5, <2>6 DEF Init, TypeOK
<1>2. TypeOK /\ [Next]_vars => TypeOK'
  <2> SUFFICES ASSUME TypeOK, [Next]_vars PROVE TypeOK'
    OBVIOUS
  <2> USE DEF tableVars, initVars, newVars, trapVars
  <2>1. CASE BeginSome
    <3>1. PICK n \in 0..MaxCount, a \in Addr \cup {NoAddr},
               adr \in Tables, fun \in FuncLists,
               want \in SUBSET (Addr \X Func) : Begin(adr, fun, n, a, want)
      BY <2>1 DEF BeginSome
    <3>2. ChangedWords(adr, fun, n) \subseteq Words
      BY DEF ChangedWords
    <3>3. /\ newAddress' \in [Slots -> Addr \cup {NoAddr}]
          /\ newFunction' \in [Slots -> Func \cup {NoFunc}]
          /\ newCount' \in 0..MaxCount
          /\ pend' \subseteq Words
          /\ target' \in Addr \cup {NoAddr}
          /\ calls' \in Nat
          /\ asked' \subseteq Addr \X Func
      BY <3>1, <3>2 DEF TypeOK, Begin, Tables, FuncLists
    <3>4. UNCHANGED <<tableVars, taskArmed, armed, life, todo, success, trapVars>>
      BY <3>1 DEF Begin
    <3>5. /\ pc' = "store"
          /\ result' = "none"
          /\ settled' = FALSE
          /\ clean' = {}
          /\ initialized' \in BOOLEAN
          /\ breakpoints' \in Nat
      BY <2>1, <3>1 DEF Begin, BeginSome
    <3>6. QED
      BY <3>3, <3>4, <3>5 DEF TypeOK
  <2>2. CASE RefuseSome
    BY <2>2 DEF RefuseSome, Refuse, TypeOK
  <2>3. ASSUME NEW w \in pend, Store(w) PROVE TypeOK'
    <3>1. w \in Words
      BY DEF TypeOK
    <3>2. CASE w \in {"address", "function"} \X Slots
      BY <2>3, <3>2 DEF Store, TypeOK
    <3>3. CASE w = CountWord
      BY <2>3, <3>3 DEF Store, TypeOK, CountWord
    <3>4. QED
      BY <3>1, <3>2, <3>3 DEF Words
  <2>4. CASE SetTask
    <3>1. newCount \in 0..MaxCount /\ newAddress \in Tables
      BY DEF TypeOK, Tables
    <3>2. NewArmed \subseteq Addr \cup {NoAddr}
      BY <3>1 DEF NewArmed, Prefix, Tables, Slots
    <3>3. QED
      BY <2>4, <3>2 DEF SetTask, TypeOK
  <2>5. CASE ListThreads
    BY <2>5 DEF ListThreads, TypeOK, Live
  <2>6. ASSUME NEW t \in todo, SetThread(t) PROVE TypeOK'
    <3>1. newCount \in 0..MaxCount /\ newAddress \in Tables
      BY DEF TypeOK, Tables
    <3>2. NewArmed \subseteq Addr \cup {NoAddr}
      BY <3>1 DEF NewArmed, Prefix, Tables, Slots
    <3>3. QED
      BY <2>6, <3>2 DEF SetThread, TypeOK
  <2>7. CASE Return
    BY <2>7 DEF Return, TypeOK
  <2>8. ASSUME NEW t \in Threads, Spawn(t) PROVE TypeOK'
    BY <2>8 DEF Spawn, TypeOK, callVars
  <2>9. ASSUME NEW t \in Threads, Exit(t) PROVE TypeOK'
    BY <2>9 DEF Exit, TypeOK, callVars
  <2>10. ASSUME NEW t \in Threads, NEW a \in Addr, Trap(t, a) PROVE TypeOK'
    <3>1. port' \in Seq(Threads)
      BY <2>10 DEF Trap, TypeOK
    <3>2. QED
      BY <2>10, <3>1 DEF Trap, TypeOK, callVars
  <2>11. CASE Receive
    <3>1. port' \in Seq(Threads) /\ Head(port) \in Threads
      BY <2>11 DEF Receive, TypeOK
    <3>2. /\ srv' \in [phase : {"recv", "scan", "redirect"},
                       thread : Threads \cup {"none"}, i : Nat, limit : 0..MaxCount]
          /\ srv'.phase = "scan" /\ srv'.i = 1 /\ srv'.thread \in Threads
      BY <2>11, <3>1 DEF Receive, TypeOK
    <3>3. QED
      BY <2>11, <3>1, <3>2 DEF Receive, TypeOK, callVars, serverFrame
  <2>12. CASE Scan
    <3>1. /\ srv.i \in 1..MaxCount
          /\ srv.thread \in Threads
          /\ srv.limit \in 0..MaxCount
          /\ active_hooks \in 0..MaxCount
      BY <2>12 DEF Scan, TypeOK
    <3>2. CASE srv' = [srv EXCEPT !.phase = "redirect"]
      <4>1. /\ srv' \in [phase : {"recv", "scan", "redirect"},
                         thread : Threads \cup {"none"}, i : Nat, limit : 0..MaxCount]
            /\ srv'.thread = srv.thread
            /\ srv'.i = srv.i
        BY <3>2 DEF TypeOK
      <4>2. QED
        BY <2>12, <3>1, <4>1 DEF Scan, TypeOK, callVars, serverFrame
    <3>3. ASSUME NEW lim \in {srv.limit, active_hooks},
                 srv' = [phase |-> "scan", thread |-> srv.thread,
                         i |-> srv.i + 1, limit |-> lim]
          PROVE  TypeOK'
      <4>1. lim \in 0..MaxCount
        BY <3>1
      <4>2. /\ srv' \in [phase : {"recv", "scan", "redirect"},
                         thread : Threads \cup {"none"}, i : Nat, limit : 0..MaxCount]
            /\ srv'.phase = "scan"
            /\ srv'.thread = srv.thread
            /\ srv'.i \in 1..(MaxCount + 1)
        BY <3>1, <3>3, <4>1
      <4>3. QED
        BY <2>12, <3>1, <4>2 DEF Scan, TypeOK, callVars, serverFrame
    <3>4. QED
      BY <2>12, <3>2, <3>3 DEF Scan
  <2>13. CASE Fail
    BY <2>13 DEF Fail, TypeOK, callVars, serverFrame
  <2>14. CASE Redirect
    <3>1. /\ srv.i \in Slots
          /\ srv.thread \in Threads
      BY <2>14 DEF Redirect, TypeOK, Slots
    <3>2. hookFunction[srv.i] \in Func \cup {NoFunc}
      BY <3>1 DEF TypeOK
    <3>3. /\ srv' \in [phase : {"recv", "scan", "redirect"},
                       thread : Threads \cup {"none"}, i : Nat, limit : 0..MaxCount]
          /\ srv'.phase = "recv"
      BY <2>14 DEF Redirect, TypeOK
    <3>4. landed' \in [Threads -> Func \cup {NoFunc}]
      BY <2>14, <3>1, <3>2 DEF Redirect, TypeOK
    <3>5. QED
      BY <2>14, <3>3, <3>4 DEF Redirect, TypeOK, callVars, serverFrame
  <2>15. CASE UNCHANGED vars
    BY <2>15 DEF vars, TypeOK, callVars
  <2>16. QED
    BY <2>1, <2>2, <2>3, <2>4, <2>5, <2>6, <2>7, <2>8, <2>9, <2>10, <2>11, <2>12,
       <2>13, <2>14, <2>15, ZexisCases, UnhookCases
    DEF Next, Caller, Server
<1>3. QED
  BY <1>1, <1>2, PTL DEF Spec

-----------------------------------------------------------------------------
(* The invariant, one lemma per conjunct, one step per action.             *)

\* The steps of Next, with the API calls in the form of the case lemmas.
LEMMA NextCases ==
  ASSUME TypeOK, [Next]_vars
  PROVE  \/ BeginSome
         \/ RefuseSome
         \/ \E w \in pend : Store(w)
         \/ SetTask
         \/ ListThreads
         \/ \E t \in todo : SetThread(t)
         \/ Return
         \/ \E t \in Threads : Spawn(t)
         \/ \E t \in Threads : Exit(t)
         \/ \E t \in Threads, a \in Addr : Trap(t, a)
         \/ Receive
         \/ Scan
         \/ Fail
         \/ Redirect
         \/ UNCHANGED vars
BY ZexisCases, UnhookCases DEF Next, Caller, Server

LEMMA StoreStep ==
  ASSUME TypeOK, StoreInv, [Next]_vars
  PROVE  StoreInv'
<1> USE DEF tableVars, newVars, trapVars, callVars, serverFrame
<1>1. CASE BeginSome
  <2>1. PICK n \in 0..MaxCount, a \in Addr \cup {NoAddr},
             adr \in Tables, fun \in FuncLists,
             want \in SUBSET (Addr \X Func) : Begin(adr, fun, n, a, want)
    BY <1>1 DEF BeginSome
  <2>2. \A i \in Slots : <<"address", i>> \notin pend' => hookAddress[i] = adr[i]
    BY <2>1 DEF Begin, ChangedWords, Words
  <2>3. \A i \in Slots : <<"function", i>> \notin pend' => hookFunction[i] = fun[i]
    BY <2>1 DEF Begin, ChangedWords, Words
  <2>4. CountWord \notin pend' => active_hooks = n
    BY <2>1 DEF Begin, ChangedWords, Words, CountWord
  <2>5. /\ settled' = FALSE
        /\ pc' = "store"
        /\ newAddress' = adr
        /\ newFunction' = fun
        /\ newCount' = n
        /\ UNCHANGED tableVars
    BY <2>1 DEF Begin
  <2>6. QED
    BY <2>2, <2>3, <2>4, <2>5 DEF StoreInv, CountWord, Slots
<1>2. CASE RefuseSome
  BY <1>2 DEF RefuseSome, Refuse, StoreInv, NewArmed, Prefix
<1>3. ASSUME NEW w \in pend, Store(w) PROVE StoreInv'
  <2>1. pc = "store" /\ ~settled /\ UNCHANGED <<pc, newVars, settled>>
    BY <1>3 DEF Store, StoreInv
  <2>2. ASSUME NEW i \in Slots, <<"address", i>> \notin pend'
        PROVE  hookAddress'[i] = newAddress'[i]
    <3>1. CASE w = <<"address", i>>
      BY <1>3, <3>1 DEF Store, TypeOK
    <3>2. CASE w # <<"address", i>>
      <4>1. hookAddress[i] = newAddress[i]
        BY <1>3, <2>2, <3>2 DEF Store, StoreInv
      <4>2. hookAddress'[i] \in {hookAddress[i], newAddress[i]}
        BY <1>3 DEF Store, TypeOK
      <4>3. QED
        BY <2>1, <4>1, <4>2
    <3>3. QED
      BY <3>1, <3>2
  <2>3. ASSUME NEW i \in Slots, <<"function", i>> \notin pend'
        PROVE  hookFunction'[i] = newFunction'[i]
    <3>1. CASE w = <<"function", i>>
      BY <1>3, <3>1 DEF Store, TypeOK
    <3>2. CASE w # <<"function", i>>
      <4>1. hookFunction[i] = newFunction[i]
        BY <1>3, <2>3, <3>2 DEF Store, StoreInv
      <4>2. hookFunction'[i] \in {hookFunction[i], newFunction[i]}
        BY <1>3 DEF Store, TypeOK
      <4>3. QED
        BY <2>1, <4>1, <4>2
    <3>3. QED
      BY <3>1, <3>2
  <2>4. ASSUME CountWord \notin pend'
        PROVE  active_hooks' = newCount'
    <3>1. CASE w = CountWord
      BY <1>3, <3>1 DEF Store, CountWord
    <3>2. CASE w # CountWord
      BY <1>3, <2>4, <3>2 DEF Store, StoreInv
    <3>3. QED
      BY <3>1, <3>2
  <2>5. QED
    BY <2>1, <2>2, <2>3, <2>4 DEF StoreInv, CountWord, Slots
<1>4. CASE SetTask
  <2>1. CASE pc' = "list" /\ taskArmed' = NewArmed
    <3>1. /\ \A i \in Slots : hookAddress[i] = newAddress[i]
          /\ \A i \in Slots : hookFunction[i] = newFunction[i]
          /\ active_hooks = newCount
          /\ ~settled
      BY <1>4 DEF SetTask, StoreInv
    <3>2. hookAddress = newAddress /\ hookFunction = newFunction
      BY <3>1 DEF TypeOK
    <3>3. QED
      BY <1>4, <2>1, <3>1, <3>2 DEF SetTask, StoreInv, NewArmed, Prefix
  <2>2. CASE pc' = "idle"
    BY <1>4, <2>2 DEF SetTask, StoreInv
  <2>3. QED
    BY <1>4, <2>1, <2>2 DEF SetTask
<1>5. CASE ListThreads
  BY <1>5 DEF ListThreads, StoreInv, NewArmed, Prefix
<1>6. ASSUME NEW t \in todo, SetThread(t) PROVE StoreInv'
  BY <1>6 DEF SetThread, StoreInv, NewArmed, Prefix
<1>7. CASE Return
  BY <1>7 DEF Return, StoreInv
<1>8. ASSUME NEW t \in Threads, Spawn(t) PROVE StoreInv'
  BY <1>8 DEF Spawn, StoreInv, NewArmed, Prefix
<1>9. ASSUME NEW t \in Threads, Exit(t) PROVE StoreInv'
  BY <1>9 DEF Exit, StoreInv, NewArmed, Prefix
<1>10. ASSUME NEW t \in Threads, NEW a \in Addr, Trap(t, a) PROVE StoreInv'
  BY <1>10 DEF Trap, StoreInv, NewArmed, Prefix
<1>11. CASE Server \/ UNCHANGED vars
  BY <1>11 DEF Server, Receive, Scan, Fail, Redirect, vars, StoreInv, NewArmed, Prefix
<1>12. QED
  BY <1>1, <1>2, <1>3, <1>4, <1>5, <1>6, <1>7, <1>8, <1>9, <1>10, <1>11, NextCases
  DEF Server

\* The first entry of the image of Zexis is a pair of the request.
LEMMA RequestFollows ==
  ASSUME TypeOK, NEW req \in Requests, Zexis(req)
  PROVE  \/ Refuse
         \/ pc' = "store" /\ Follows(newAddress, newFunction, newCount)'
<1>1. PICK k \in 0..(MaxCount + 1) : req \in [1..k -> Addr \X Func]
  BY DEF Requests
<1>2. Len(req) = k
  BY <1>1
<1> DEFINE adr == [i \in Slots |-> IF i <= k THEN req[i][1] ELSE hookAddress[i]]
           fun == [i \in Slots |-> IF i <= k THEN req[i][2] ELSE hookFunction[i]]
<1>3. CASE k <= MaxCount /\ Begin(adr, fun, k, NoAddr, FirstPairs(req))
  <2>1. /\ pc' = "store"
        /\ newAddress' = adr
        /\ newFunction' = fun
        /\ newCount' = k
        /\ asked' = FirstPairs(req)
    BY <1>3 DEF Begin
  <2>2. 1..k \subseteq Slots
    BY <1>3 DEF Slots
  <2>3. \A i \in 1..k : adr[i] = req[i][1] /\ fun[i] = req[i][2] /\ req[i] = <<req[i][1], req[i][2]>>
    BY <1>1, <2>2
  <2>4. ASSUME NEW i \in 1..k, \A j \in 1..(i - 1) : adr[j] # adr[i]
        PROVE  <<adr[i], fun[i]>> \in asked'
    <3>1. \A j \in 1..(i - 1) : j \in 1..k
      OBVIOUS
    <3>2. \A j \in 1..(i - 1) : req[j][1] # req[i][1]
      BY <2>3, <2>4, <3>1
    <3>3. req[i] \in FirstPairs(req)
      BY <1>2, <3>2 DEF FirstPairs
    <3>4. QED
      BY <2>1, <2>3, <3>3
  <2> HIDE DEF adr, fun
  <2>5. QED
    BY <2>1, <2>4 DEF Follows
<1>4. QED
  BY <1>2, <1>3 DEF Zexis

\* The first entry of the image of an unhook was the first in the table: an
\* earlier one for the same address is kept too, and stays before it.
LEMMA UnhookFollows ==
  ASSUME TypeOK, AskInv, NEW a \in Addr, ZexisUnhook(a)
  PROVE  pc' = "store" /\ Follows(newAddress, newFunction, newCount)'
<1>1. PICK n \in 0..active_hooks : \E m \in [1..n -> 1..active_hooks] :
        /\ Compaction(a, n, m)
        /\ Begin([i \in Slots |-> IF i <= n THEN hookAddress[m[i]] ELSE NoAddr],
                 [i \in Slots |-> IF i <= n THEN hookFunction[m[i]] ELSE NoFunc],
                 n, a, {p \in asked : p[1] # a})
  BY DEF ZexisUnhook
<1>2. PICK m \in [1..n -> 1..active_hooks] :
        /\ Compaction(a, n, m)
        /\ Begin([i \in Slots |-> IF i <= n THEN hookAddress[m[i]] ELSE NoAddr],
                 [i \in Slots |-> IF i <= n THEN hookFunction[m[i]] ELSE NoFunc],
                 n, a, {p \in asked : p[1] # a})
  BY <1>1
<1> DEFINE adr == [i \in Slots |-> IF i <= n THEN hookAddress[m[i]] ELSE NoAddr]
           fun == [i \in Slots |-> IF i <= n THEN hookFunction[m[i]] ELSE NoFunc]
<1>3. /\ pc' = "store"
      /\ newAddress' = adr
      /\ newFunction' = fun
      /\ newCount' = n
      /\ asked' = {p \in asked : p[1] # a}
  BY <1>2 DEF Begin
<1>4. /\ active_hooks \in Nat
      /\ 1..n \subseteq Slots
      /\ \A i \in 1..n : m[i] \in 1..active_hooks
  BY DEF TypeOK, Slots
<1>5. \A i \in 1..n : adr[i] = hookAddress[m[i]] /\ fun[i] = hookFunction[m[i]]
  BY <1>4
<1>6. Follows(hookAddress, hookFunction, active_hooks)
  BY DEF ZexisUnhook, CanCall, AskInv
<1>7. ASSUME NEW i \in 1..n, \A j \in 1..(i - 1) : adr[j] # adr[i]
      PROVE  <<adr[i], fun[i]>> \in asked'
  <2>1. hookAddress[m[i]] # a
    BY <1>2 DEF Compaction, Kept
  <2>2. ASSUME NEW j \in 1..(m[i] - 1), hookAddress[j] = hookAddress[m[i]]
        PROVE  FALSE
    <3>1. j \in 1..active_hooks
      BY <1>4
    <3>2. j \in Kept(a)
      BY <2>1, <2>2, <3>1 DEF Kept
    <3>3. PICK k \in 1..n : m[k] = j
      BY <1>2, <3>2 DEF Compaction
    <3>4. k < i
      <4>1. m[k] < m[i]
        BY <1>4, <3>3
      <4>2. ~ (i < k) /\ i # k
        BY <1>2, <1>4, <4>1 DEF Compaction
      <4>3. QED
        BY <4>2
    <3>5. adr[k] = adr[i]
      BY <1>5, <2>2, <3>3
    <3>6. k \in 1..(i - 1)
      BY <3>4
    <3> HIDE DEF adr, fun
    <3>7. QED
      BY <1>7, <3>5, <3>6
  <2>3. <<hookAddress[m[i]], hookFunction[m[i]]>> \in asked
    BY <1>4, <1>6, <2>2 DEF Follows
  <2>4. <<hookAddress[m[i]], hookFunction[m[i]]>> \in asked'
    BY <1>3, <2>1, <2>3
  <2> HIDE DEF adr, fun
  <2>5. QED
    BY <1>5, <2>4
<1> HIDE DEF adr, fun
<1>8. QED
  BY <1>3, <1>7 DEF Follows

LEMMA AskStep ==
  ASSUME TypeOK, StoreInv, AskInv, [Next]_vars
  PROVE  AskInv'
<1> USE DEF tableVars, newVars, trapVars, callVars, serverFrame
<1>1. ASSUME NEW req \in Requests, Zexis(req) PROVE AskInv'
  <2>1. CASE Refuse
    BY <2>1 DEF Refuse, AskInv, Follows
  <2>2. QED
    BY <1>1, <2>1, RequestFollows DEF AskInv
<1>2. ASSUME NEW a \in Addr, ZexisUnhook(a) PROVE AskInv'
  BY <1>2, UnhookFollows DEF AskInv
<1>3. ASSUME NEW w \in pend, Store(w) PROVE AskInv'
  BY <1>3 DEF Store, AskInv, Follows
<1>4. CASE SetTask
  <2>1. /\ \A i \in Slots : hookAddress[i] = newAddress[i]
        /\ \A i \in Slots : hookFunction[i] = newFunction[i]
        /\ active_hooks = newCount
        /\ pc = "store"
    BY <1>4 DEF SetTask, StoreInv
  <2>2. hookAddress = newAddress /\ hookFunction = newFunction
    BY <2>1 DEF TypeOK
  <2>3. Follows(hookAddress, hookFunction, active_hooks)
    BY <2>1, <2>2 DEF AskInv
  <2>4. pc' # "store" /\ UNCHANGED <<tableVars, asked>>
    BY <1>4 DEF SetTask
  <2>5. QED
    BY <2>3, <2>4 DEF AskInv, Follows
<1>5. ASSUME \/ ListThreads
             \/ \E t \in todo : SetThread(t)
             \/ Return
             \/ \E t \in Threads : Spawn(t) \/ Exit(t)
             \/ \E t \in Threads, a \in Addr : Trap(t, a)
             \/ Server
             \/ UNCHANGED vars
      PROVE  AskInv'
  <2>1. /\ UNCHANGED <<tableVars, newVars>>
        /\ (pc' = "store") <=> (pc = "store")
    BY <1>5 DEF ListThreads, SetThread, Return, Spawn, Exit, Trap, Server, Receive, Scan,
       Fail, Redirect, vars
  <2>2. QED
    BY <2>1 DEF AskInv, Follows
<1>6. QED
  BY <1>1, <1>2, <1>3, <1>4, <1>5 DEF Next, Caller

LEMMA RegisterStep ==
  ASSUME TypeOK, StoreInv, RegisterInv, [Next]_vars
  PROVE  RegisterInv'
<1> USE DEF tableVars, newVars, trapVars, callVars, serverFrame
<1>1. CASE BeginSome
  <2>1. settled' = FALSE /\ pc' = "store"
    BY <1>1 DEF BeginSome, Begin
  <2>2. QED
    BY <2>1 DEF RegisterInv
<1>2. CASE RefuseSome
  BY <1>2 DEF RefuseSome, Refuse, RegisterInv, TableArmed, NewArmed, Prefix, Live
<1>3. ASSUME NEW w \in pend, Store(w) PROVE RegisterInv'
  BY <1>3 DEF Store, StoreInv, RegisterInv
<1>4. CASE SetTask
  BY <1>4 DEF SetTask, StoreInv, RegisterInv
<1>5. CASE ListThreads
  BY <1>5 DEF ListThreads, StoreInv, RegisterInv, Live
<1>6. ASSUME NEW t \in todo, SetThread(t) PROVE RegisterInv'
  <2>1. NewArmed' = NewArmed /\ pc' = "arm" /\ settled' = settled /\ ~settled /\ Live' = Live
    BY <1>6 DEF SetThread, NewArmed, Prefix, StoreInv, Live
  <2>2. ASSUME success', NEW u \in Live' \ todo'
        PROVE  armed'[u] = NewArmed'
    <3>1. success /\ armed' = [armed EXCEPT ![t] = NewArmed]
      BY <1>6, <2>2 DEF SetThread
    <3>2. CASE u = t
      BY <2>1, <3>1, <3>2 DEF Live, TypeOK
    <3>3. CASE u # t
      BY <1>6, <2>1, <2>2, <3>1, <3>3 DEF SetThread, RegisterInv, Live, TypeOK
    <3>4. QED
      BY <3>2, <3>3
  <2>3. QED
    BY <2>1, <2>2 DEF RegisterInv
<1>7. CASE Return
  <2>1. /\ TableArmed' = NewArmed
        /\ taskArmed' = NewArmed
        /\ pc' = "idle"
        /\ settled' = success
        /\ Live' = Live
        /\ armed' = armed
    BY <1>7 DEF Return, StoreInv, TableArmed, NewArmed, Prefix, Live
  <2>2. success => \A t \in Live : armed[t] = NewArmed
    BY <1>7 DEF Return, RegisterInv
  <2>3. QED
    BY <2>1, <2>2 DEF RegisterInv
<1>8. ASSUME NEW t \in Threads, Spawn(t) PROVE RegisterInv'
  <2>1. /\ NewArmed' = NewArmed
        /\ TableArmed' = TableArmed
        /\ UNCHANGED <<pc, success, todo, settled, taskArmed>>
        /\ Live' = Live \cup {t}
        /\ armed'[t] = taskArmed
        /\ \A u \in Threads : u # t => armed'[u] = armed[u]
    BY <1>8 DEF Spawn, NewArmed, TableArmed, Prefix, Live, TypeOK
  <2>2. pc = "arm" => taskArmed = NewArmed
    BY DEF StoreInv
  <2>3. QED
    BY <2>1, <2>2 DEF RegisterInv, Live
<1>9. ASSUME NEW t \in Threads, Exit(t) PROVE RegisterInv'
  <2>1. /\ NewArmed' = NewArmed
        /\ TableArmed' = TableArmed
        /\ UNCHANGED <<pc, success, todo, settled, taskArmed, armed>>
        /\ Live' \subseteq Live
    BY <1>9 DEF Exit, NewArmed, TableArmed, Prefix, Live, TypeOK
  <2>2. QED
    BY <2>1 DEF RegisterInv
<1>10. ASSUME NEW t \in Threads, NEW a \in Addr, Trap(t, a) PROVE RegisterInv'
  BY <1>10 DEF Trap, RegisterInv, TableArmed, NewArmed, Prefix, Live
<1>11. CASE Server \/ UNCHANGED vars
  BY <1>11
  DEF Server, Receive, Scan, Fail, Redirect, vars, RegisterInv, TableArmed, NewArmed,
      Prefix, Live
<1>12. QED
  BY <1>1, <1>2, <1>3, <1>4, <1>5, <1>6, <1>7, <1>8, <1>9, <1>10, <1>11, NextCases
  DEF Server

LEMMA TargetStep ==
  ASSUME TypeOK, StoreInv, TargetInv, [Next]_vars
  PROVE  TargetInv'
<1> USE DEF tableVars, newVars, trapVars, callVars, serverFrame
<1>1. CASE BeginSome
  <2>1. PICK n \in 0..MaxCount, a \in Addr \cup {NoAddr},
             adr \in Tables, fun \in FuncLists, want \in SUBSET (Addr \X Func) :
               Begin(adr, fun, n, a, want) /\ (a # NoAddr => \A i \in 1..n : adr[i] # a)
    BY <1>1 DEF BeginSome
  <2>2. /\ settled' = FALSE
        /\ result' = "none"
        /\ target' = a
        /\ NewArmed' = {adr[i] : i \in 1..n}
    BY <2>1 DEF Begin, NewArmed, Prefix
  <2>3. QED
    BY <2>1, <2>2 DEF TargetInv
<1>2. CASE RefuseSome
  BY <1>2 DEF RefuseSome, Refuse, TargetInv
<1>3. ASSUME NEW w \in pend, Store(w) PROVE TargetInv'
  BY <1>3 DEF Store, StoreInv, TargetInv, NewArmed, Prefix
<1>4. CASE SetTask
  BY <1>4 DEF SetTask, StoreInv, TargetInv, NewArmed, Prefix
<1>5. CASE ListThreads
  BY <1>5 DEF ListThreads, StoreInv, TargetInv, NewArmed, Prefix
<1>6. ASSUME NEW t \in todo, SetThread(t) PROVE TargetInv'
  BY <1>6 DEF SetThread, StoreInv, TargetInv, NewArmed, Prefix
<1>7. CASE Return
  <2>1. TableArmed' = NewArmed /\ pc = "arm" /\ pc' = "idle" /\ target' = target
    BY <1>7 DEF Return, StoreInv, TableArmed, NewArmed, Prefix
  <2>2. QED
    BY <1>7, <2>1 DEF Return, TargetInv
<1>8. ASSUME NEW t \in Threads, Spawn(t) \/ Exit(t) PROVE TargetInv'
  BY <1>8 DEF Spawn, Exit, TargetInv, TableArmed, NewArmed, Prefix
<1>9. ASSUME NEW t \in Threads, NEW a \in Addr, Trap(t, a) PROVE TargetInv'
  BY <1>9 DEF Trap, TargetInv, TableArmed, NewArmed, Prefix
<1>10. CASE Server \/ UNCHANGED vars
  BY <1>10
  DEF Server, Receive, Scan, Fail, Redirect, vars, TargetInv, TableArmed, NewArmed, Prefix
<1>11. QED
  BY <1>1, <1>2, <1>3, <1>4, <1>5, <1>6, <1>7, <1>8, <1>9, <1>10, NextCases
  DEF Server

LEMMA QueueStep ==
  ASSUME TypeOK, QueueInv, [Next]_vars
  PROVE  QueueInv'
<1> USE DEF tableVars, newVars, trapVars, callVars, serverFrame
<1>1. CASE UNCHANGED <<trapped, port, srv>>
  BY <1>1 DEF QueueInv
<1>2. ASSUME NEW t \in Threads, NEW a \in Addr, Trap(t, a) PROVE QueueInv'
  <2>1. /\ trapped[t] = NoAddr
        /\ trapped' = [trapped EXCEPT ![t] = a]
        /\ port' = Append(port, t)
        /\ srv' = srv
        /\ a # NoAddr
    BY <1>2 DEF Trap
  <2>2. /\ Len(port') = Len(port) + 1
        /\ \A k \in 1..Len(port) : port'[k] = port[k] /\ port[k] \in Threads /\ port[k] # t
        /\ port'[Len(port) + 1] = t
        /\ Len(port) \in Nat
    BY <2>1 DEF TypeOK, QueueInv
  <2>3. srv.phase # "recv" => srv.thread \in Threads /\ srv.thread # t
    BY <2>1 DEF TypeOK, QueueInv
  <2>4. /\ \A u \in Threads : u # t => trapped'[u] = trapped[u]
        /\ trapped'[t] = a
    BY <2>1 DEF TypeOK
  <2>5. \A k \in 1..Len(port') : k \in 1..Len(port) \/ k = Len(port) + 1
    BY <2>2
  <2>6. \A k \in 1..Len(port') : trapped'[port'[k]] # NoAddr
    BY <2>1, <2>2, <2>4, <2>5 DEF QueueInv
  <2>7. \A k, l \in 1..Len(port') : port'[k] = port'[l] => k = l
    BY <2>2, <2>5 DEF QueueInv
  <2>8. srv'.phase # "recv" =>
          /\ trapped'[srv'.thread] # NoAddr
          /\ \A k \in 1..Len(port') : port'[k] # srv'.thread
    BY <2>1, <2>2, <2>3, <2>4, <2>5 DEF QueueInv
  <2>9. QED
    BY <2>6, <2>7, <2>8 DEF QueueInv
<1>3. CASE Receive
  <2>1. /\ port # <<>>
        /\ port' = Tail(port)
        /\ srv'.thread = port[1]
        /\ trapped' = trapped
    BY <1>3 DEF Receive, TypeOK
  <2>2. /\ Len(port) \in Nat \ {0}
        /\ Len(port') = Len(port) - 1
        /\ \A k \in 1..Len(port') : port'[k] = port[k + 1] /\ k + 1 \in 1..Len(port)
    BY <2>1 DEF TypeOK
  <2>3. QED
    BY <2>1, <2>2 DEF QueueInv
<1>4. CASE Scan
  <2>1. /\ srv.phase = "scan"
        /\ srv'.thread = srv.thread
        /\ UNCHANGED <<trapped, port>>
    BY <1>4 DEF Scan, TypeOK
  <2>2. QED
    BY <2>1 DEF QueueInv
<1>5. CASE Redirect
  <2>1. /\ srv.phase = "redirect"
        /\ srv'.phase = "recv"
        /\ trapped' = [trapped EXCEPT ![srv.thread] = NoAddr]
        /\ port' = port
    BY <1>5 DEF Redirect, TypeOK
  <2>2. \A k \in 1..Len(port) : port[k] \in Threads /\ port[k] # srv.thread
    BY <2>1 DEF QueueInv, TypeOK
  <2>3. QED
    BY <2>1, <2>2 DEF QueueInv, TypeOK
<1>6. QED
  <2>1. \/ UNCHANGED <<trapped, port, srv>>
        \/ \E t \in Threads, a \in Addr : Trap(t, a)
        \/ Receive
        \/ Scan
        \/ Redirect
    BY NextCases
    DEF BeginSome, Begin, RefuseSome, Refuse, Store, SetTask, ListThreads, SetThread,
        Return, Spawn, Exit, Fail, vars
  <2>2. QED
    BY <1>1, <1>2, <1>3, <1>4, <1>5, <2>1

LEMMA CleanStep ==
  ASSUME TypeOK, StoreInv, RegisterInv, QueueInv, CleanInv, [Next]_vars
  PROVE  CleanInv'
<1> USE DEF tableVars, newVars, trapVars, callVars, serverFrame
<1>1. CASE BeginSome
  <2>1. clean' = {} /\ UNCHANGED <<srv, dead>>
    BY <1>1 DEF BeginSome, Begin
  <2>2. QED
    BY <2>1 DEF CleanInv
<1>2. CASE RefuseSome
  BY <1>2 DEF RefuseSome, Refuse, CleanInv, TableArmed, Prefix
<1>3. CASE pc # "idle" /\ UNCHANGED <<clean, srv, dead>>
  BY <1>3 DEF CleanInv
<1>4. ASSUME NEW t \in Threads, Spawn(t) \/ Exit(t) PROVE CleanInv'
  BY <1>4 DEF Spawn, Exit, CleanInv, TableArmed, Prefix
<1>5. ASSUME NEW t \in Threads, NEW a \in Addr, Trap(t, a) PROVE CleanInv'
  <2>1. /\ t \in Live
        /\ trapped[t] = NoAddr
        /\ a \in armed[t]
        /\ trapped' = [trapped EXCEPT ![t] = a]
        /\ UNCHANGED <<pc, hookAddress, active_hooks, srv, dead, settled>>
        /\ clean' = IF settled THEN clean \cup {t} ELSE clean
    BY <1>5 DEF Trap
  <2>2. TableArmed' = TableArmed
    BY <2>1 DEF TableArmed, Prefix
  <2>3. /\ \A u \in Threads : u # t => trapped'[u] = trapped[u]
        /\ trapped'[t] = a
    BY <2>1 DEF TypeOK
  <2>4. settled => a \in TableArmed /\ pc = "idle"
    BY <2>1 DEF RegisterInv, StoreInv, Live
  <2>5. srv.phase # "recv" => srv.thread \in Threads /\ srv.thread # t
    BY <2>1 DEF QueueInv, TypeOK
  <2>6. \A u \in clean' : trapped'[u] \in TableArmed'
    BY <2>1, <2>2, <2>3, <2>4 DEF CleanInv, TypeOK
  <2>7. (srv.phase # "recv" /\ srv.thread \in clean') =>
          srv.thread \in clean /\ trapped'[srv.thread] = trapped[srv.thread]
    BY <2>1, <2>3, <2>5
  <2>8. QED
    BY <2>1, <2>4, <2>6, <2>7 DEF CleanInv
<1>6. CASE Receive
  <2>1. /\ srv' = [phase |-> "scan", thread |-> Head(port), i |-> 1, limit |-> active_hooks]
        /\ ~dead
        /\ UNCHANGED <<pc, hookAddress, active_hooks, trapped, dead, settled, clean>>
    BY <1>6 DEF Receive
  <2>2. TableArmed' = TableArmed
    BY <2>1 DEF TableArmed, Prefix
  <2>3. QED
    BY <2>1, <2>2 DEF CleanInv
<1>7. CASE Scan
  <2>1. /\ ~dead
        /\ srv.phase = "scan"
        /\ srv.i <= srv.limit
        /\ srv.i \in 1..MaxCount
        /\ srv.limit \in 0..MaxCount
        /\ UNCHANGED <<pc, hookAddress, active_hooks, trapped, dead, settled, clean>>
    BY <1>7 DEF Scan, TypeOK
  <2>2. TableArmed' = TableArmed
    BY <2>1 DEF TableArmed, Prefix
  <2>3. CASE hookAddress[srv.i] = trapped[srv.thread]
    <3>1. /\ srv'.phase = "redirect"
          /\ srv'.thread = srv.thread
          /\ srv'.i = srv.i
          /\ srv'.limit = srv.limit
      BY <1>7, <2>3 DEF Scan, TypeOK
    <3>2. QED
      BY <2>1, <2>2, <2>3, <3>1 DEF CleanInv
  <2>4. CASE hookAddress[srv.i] # trapped[srv.thread]
    <3>1. /\ srv'.phase = "scan"
          /\ srv'.thread = srv.thread
          /\ srv'.i = srv.i + 1
          /\ srv'.limit \in {srv.limit, active_hooks}
      BY <1>7, <2>4 DEF Scan
    <3>2. \A j \in 1..(srv'.i - 1) : j \in 1..(srv.i - 1) \/ j = srv.i
      BY <2>1, <3>1
    <3>3. QED
      BY <2>1, <2>2, <2>4, <3>1, <3>2 DEF CleanInv
  <2>5. QED
    BY <2>3, <2>4
<1>8. CASE Fail
  <2>1. /\ srv.i \in Nat
        /\ srv.limit \in 0..MaxCount
        /\ srv.phase = "scan"
        /\ ~ (srv.i <= srv.limit)
        /\ UNCHANGED <<pc, hookAddress, active_hooks, trapped, srv, settled, clean>>
    BY <1>8 DEF Fail, TypeOK
  <2>2. srv.i > srv.limit
    BY <2>1
  <2>3. TableArmed' = TableArmed
    BY <2>1 DEF TableArmed, Prefix
  <2>4. QED
    BY <2>1, <2>2, <2>3 DEF CleanInv
<1>9. CASE Redirect
  <2>1. /\ ~dead
        /\ srv'.phase = "recv"
        /\ srv.thread \in Threads
        /\ clean' = clean \ {srv.thread}
        /\ \A u \in Threads : u # srv.thread => trapped'[u] = trapped[u]
        /\ UNCHANGED <<pc, hookAddress, active_hooks, dead, settled>>
    BY <1>9 DEF Redirect, TypeOK
  <2>2. TableArmed' = TableArmed
    BY <2>1 DEF TableArmed, Prefix
  <2>3. QED
    BY <2>1, <2>2 DEF CleanInv, TypeOK
<1>10. CASE UNCHANGED vars
  BY <1>10 DEF vars, CleanInv, TableArmed, Prefix
<1>11. ASSUME \/ \E w \in pend : Store(w)
              \/ SetTask
              \/ ListThreads
              \/ \E t \in todo : SetThread(t)
       PROVE  pc # "idle" /\ UNCHANGED <<clean, srv, dead>>
  BY <1>11 DEF Store, SetTask, ListThreads, SetThread
<1>12. CASE Return
  BY <1>12 DEF Return, CleanInv
<1>13. QED
  BY <1>1, <1>2, <1>3, <1>4, <1>5, <1>6, <1>7, <1>8, <1>9, <1>10, <1>11, <1>12, NextCases

-----------------------------------------------------------------------------
(* The theorems.                                                           *)

\* IInv holds in every reachable state.
THEOREM Invariant == Spec => []IInv
<1>1. Init => IInv
  <2> SUFFICES ASSUME Init PROVE IInv
    OBVIOUS
  <2>1. TableArmed = {} /\ Len(port) = 0
    BY DEF Init, TableArmed, Prefix
  <2>2. pc = "idle" /\ taskArmed = {} /\ \A t \in Live : armed[t] = {}
    BY DEF Init, Live
  <2>3. StoreInv /\ RegisterInv
    BY <2>1, <2>2 DEF StoreInv, RegisterInv
  <2>4. TargetInv /\ QueueInv /\ CleanInv
    BY <2>1 DEF Init, TargetInv, QueueInv, CleanInv
  <2>5. AskInv
    BY DEF Init, AskInv, Follows
  <2>6. QED
    BY <2>3, <2>4, <2>5 DEF IInv
<1>2. TypeOK /\ IInv /\ [Next]_vars => IInv'
  BY AskStep, StoreStep, RegisterStep, TargetStep, QueueStep, CleanStep DEF IInv
<1>3. QED
  BY <1>1, <1>2, TypeCorrect, PTL DEF Spec

\* After a call that returned true, the table, the task and every live
\* thread agree on the hooked addresses, whatever the number of threads.
THEOREM Agreement == Spec => []SettledAgreement
<1>1. IInv => SettledAgreement
  BY DEF IInv, RegisterInv, SettledAgreement
<1>2. QED
  BY <1>1, Invariant, PTL

\* A successful ZexisUnhook disarms its address in every live thread.
THEOREM Disarmed == Spec => []UnhookDisarms
<1>1. IInv => UnhookDisarms
  BY DEF IInv, TargetInv, RegisterInv, UnhookDisarms
<1>2. QED
  BY <1>1, Invariant, PTL

\* A hit no call overlaps never ends the process.
THEOREM HitSurvives == Spec => []CleanHitSurvives
<1>1. TypeOK /\ IInv => CleanHitSurvives
  <2> SUFFICES ASSUME TypeOK, IInv, dead, srv.thread \in clean
               PROVE  FALSE
    BY DEF CleanHitSurvives
  <2>1. /\ srv.phase = "scan"
        /\ srv.i > srv.limit
        /\ srv.limit = active_hooks
        /\ \A j \in 1..(srv.i - 1) : hookAddress[j] # trapped[srv.thread]
        /\ trapped[srv.thread] \in TableArmed
    BY DEF IInv, CleanInv
  <2>2. PICK j \in 1..active_hooks : hookAddress[j] = trapped[srv.thread]
    BY <2>1 DEF TableArmed, Prefix
  <2>3. j \in 1..(srv.i - 1)
    BY <2>1, <2>2 DEF TypeOK
  <2>4. QED
    BY <2>1, <2>2, <2>3
<1>2. QED
  BY <1>1, Invariant, TypeCorrect, PTL

\* A hit no call overlaps lands on the function asked for at its address.
THEOREM HitLands == Spec => CleanLanding
<1>1. ASSUME TypeOK, IInv, [Next]_vars, NEW t \in Threads,
             t \in clean, trapped[t] # NoAddr, trapped'[t] = NoAddr
      PROVE  <<trapped[t], landed'[t]>> \in asked
  <2>1. \/ trapped' = trapped
        \/ \E u \in Threads, a \in Addr : Trap(u, a)
        \/ Redirect
    BY <1>1, NextCases
    DEF BeginSome, Begin, RefuseSome, Refuse, Store, SetTask, ListThreads, SetThread,
        Return, Spawn, Exit, Receive, Scan, Fail, vars, trapVars
  <2>2. ASSUME NEW u \in Threads, NEW a \in Addr, Trap(u, a)
        PROVE  FALSE
    <3>1. trapped' = [trapped EXCEPT ![u] = a] /\ a # NoAddr
      BY <2>2 DEF Trap
    <3>2. trapped'[t] \in {trapped[t], a}
      BY <3>1, <1>1 DEF TypeOK
    <3>3. QED
      BY <1>1, <3>1, <3>2
  <2>3. Redirect /\ srv.thread = t
    <3>1. Redirect
      BY <1>1, <2>1, <2>2
    <3>2. CASE srv.thread # t
      <4>1. trapped'[t] = trapped[t]
        BY <1>1, <3>1, <3>2 DEF Redirect, TypeOK
      <4>2. QED
        BY <1>1, <4>1
    <3>3. QED
      BY <3>1, <3>2
  <2>4. landed'[t] = hookFunction[srv.i]
    BY <1>1, <2>3 DEF Redirect, TypeOK
  <2>5. /\ srv.i \in 1..active_hooks
        /\ hookAddress[srv.i] = trapped[t]
        /\ \A j \in 1..(srv.i - 1) : hookAddress[j] # trapped[t]
    <3>1. /\ srv.phase = "redirect"
          /\ srv.thread \in clean
      BY <1>1, <2>3 DEF Redirect
    <3>2. CleanInv /\ srv.i \in 1..MaxCount /\ active_hooks \in 0..MaxCount
      BY <1>1, <3>1 DEF IInv, TypeOK
    <3>3. QED
      BY <2>3, <3>1, <3>2 DEF CleanInv
  <2>6. QED
    <3>1. srv.phase = "redirect" /\ t \in clean
      BY <1>1, <2>3 DEF Redirect
    <3>2. pc = "idle"
      BY <1>1 DEF IInv, CleanInv
    <3>3. Follows(hookAddress, hookFunction, active_hooks)
      BY <1>1, <3>2 DEF IInv, AskInv
    <3>4. <<hookAddress[srv.i], hookFunction[srv.i]>> \in asked
      BY <2>5, <3>3 DEF Follows
    <3>5. QED
      BY <2>4, <2>5, <3>4
<1>2. TypeOK /\ IInv /\ [Next]_vars =>
        [\A t \in Threads :
           (t \in clean /\ trapped[t] # NoAddr /\ trapped'[t] = NoAddr)
             => <<trapped[t], landed'[t]>> \in asked]_vars
  BY <1>1
<1>3. QED
  BY <1>2, Invariant, TypeCorrect, PTL DEF Spec, CleanLanding

-----------------------------------------------------------------------------
(* A program that makes one call implements the abstract service.          *)

\* What registers may name: nothing before the first set_state.
Armable == IF pc = "store" THEN {} ELSE TableArmed

\* The one table: empty until the call stores its image, full entries only.
TableOnce ==
  /\ calls \in {0, 1}
  /\ calls = 0 => pc = "idle" /\ active_hooks = 0
  /\ pc = "store" =>
       \A i \in 1..newCount : newAddress[i] \in Addr /\ newFunction[i] \in Func
  /\ pc # "store" =>
       \A i \in 1..active_hooks : hookAddress[i] \in Addr /\ hookFunction[i] \in Func

\* Whoever is armed, or waits, is so at an address of the table.
ArmedOnce ==
  /\ taskArmed \subseteq Armable
  /\ \A t \in Threads : armed[t] \subseteq Armable
  /\ \A t \in Threads : trapped[t] # NoAddr => trapped[t] \in Armable

\* Every search runs over a table that stands still.
SearchOnce ==
  /\ ~dead
  /\ srv.phase # "recv" =>
       /\ srv.limit = active_hooks
       /\ \A j \in 1..(srv.i - 1) : hookAddress[j] # trapped[srv.thread]
  /\ srv.phase = "redirect" =>
       /\ srv.i \in 1..active_hooks
       /\ hookAddress[srv.i] = trapped[srv.thread]

Once == TableOnce /\ ArmedOnce /\ SearchOnce

\* The one accepted call stores full entries.
BeginOnce ==
  \E n \in 0..MaxCount, a \in Addr \cup {NoAddr}, adr \in Tables, fun \in FuncLists,
     want \in SUBSET (Addr \X Func) :
    /\ CanCall
    /\ Begin(adr, fun, n, a, want)
    /\ \A i \in 1..n : adr[i] \in Addr /\ fun[i] \in Func

LEMMA ZexisOnce ==
  ASSUME TypeOK, NEW req \in Requests, Zexis(req)
  PROVE  BeginOnce \/ Refuse
<1>1. PICK k \in 0..(MaxCount + 1) : req \in [1..k -> Addr \X Func]
  BY DEF Requests
<1>2. Len(req) = k
  BY <1>1
<1>3. CASE k <= MaxCount /\
           Begin([i \in Slots |-> IF i <= k THEN req[i][1] ELSE hookAddress[i]],
                 [i \in Slots |-> IF i <= k THEN req[i][2] ELSE hookFunction[i]],
                 k, NoAddr, FirstPairs(req))
  <2> DEFINE adr == [i \in Slots |-> IF i <= k THEN req[i][1] ELSE hookAddress[i]]
             fun == [i \in Slots |-> IF i <= k THEN req[i][2] ELSE hookFunction[i]]
  <2>1. adr \in Tables
    BY <1>1 DEF TypeOK, Slots, Tables
  <2>2. fun \in FuncLists
    BY <1>1 DEF TypeOK, Slots, FuncLists
  <2>3. CanCall
    BY DEF Zexis
  <2>4. FirstPairs(req) \in SUBSET (Addr \X Func)
    BY <1>1, <1>2 DEF FirstPairs
  <2>5. \A i \in 1..k : adr[i] \in Addr /\ fun[i] \in Func
    BY <1>1, <1>3 DEF Slots
  <2>6. Begin(adr, fun, k, NoAddr, FirstPairs(req)) /\ k \in 0..MaxCount
    BY <1>3
  <2> HIDE DEF adr, fun
  <2>7. QED
    BY <2>1, <2>2, <2>3, <2>4, <2>5, <2>6 DEF BeginOnce
<1>4. QED
  BY <1>2, <1>3 DEF Zexis

\* There is nothing yet to unhook.
LEMMA UnhookOnce ==
  ASSUME TypeOK, TableOnce, MaxCalls = 1, NEW a \in Addr, ZexisUnhook(a)
  PROVE  BeginOnce
<1>1. active_hooks = 0 /\ CanCall
  BY DEF ZexisUnhook, CanCall, TableOnce
<1>2. PICK n \in 0..active_hooks : \E m \in [1..n -> 1..active_hooks] :
        Begin([i \in Slots |-> IF i <= n THEN hookAddress[m[i]] ELSE NoAddr],
              [i \in Slots |-> IF i <= n THEN hookFunction[m[i]] ELSE NoFunc],
              n, a, {p \in asked : p[1] # a})
  BY DEF ZexisUnhook
<1>3. n = 0
  BY <1>1, <1>2
<1>4. PICK m :
        Begin([i \in Slots |-> IF i <= n THEN hookAddress[m[i]] ELSE NoAddr],
              [i \in Slots |-> IF i <= n THEN hookFunction[m[i]] ELSE NoFunc],
              n, a, {p \in asked : p[1] # a})
  BY <1>2
<1> DEFINE adr == [i \in Slots |-> IF i <= n THEN hookAddress[m[i]] ELSE NoAddr]
           fun == [i \in Slots |-> IF i <= n THEN hookFunction[m[i]] ELSE NoFunc]
<1>5. adr \in Tables /\ fun \in FuncLists
  BY <1>3 DEF Slots, Tables, FuncLists
<1>6. {p \in asked : p[1] # a} \in SUBSET (Addr \X Func) /\ 0 \in 0..MaxCount
  BY DEF TypeOK
<1>7. Begin(adr, fun, 0, a, {p \in asked : p[1] # a})
  BY <1>3, <1>4
<1> HIDE DEF adr, fun
<1>8. \A i \in 1..0 : adr[i] \in Addr /\ fun[i] \in Func
  OBVIOUS
<1>9. QED
  BY <1>1, <1>5, <1>6, <1>7, <1>8 DEF BeginOnce

LEMMA NextOnce ==
  ASSUME TypeOK, TableOnce, MaxCalls = 1, [Next]_vars
  PROVE  \/ BeginOnce
         \/ Refuse /\ CanCall
         \/ \E w \in pend : Store(w)
         \/ SetTask
         \/ ListThreads
         \/ \E t \in todo : SetThread(t)
         \/ Return
         \/ \E t \in Threads : Spawn(t)
         \/ \E t \in Threads : Exit(t)
         \/ \E t \in Threads, a \in Addr : Trap(t, a)
         \/ Receive
         \/ Scan
         \/ Fail
         \/ Redirect
         \/ UNCHANGED vars
<1>1. ASSUME NEW req \in Requests, Zexis(req) PROVE BeginOnce \/ (Refuse /\ CanCall)
  BY <1>1, ZexisOnce DEF Zexis
<1>2. ASSUME NEW a \in Addr, ZexisUnhook(a) PROVE BeginOnce
  BY <1>2, UnhookOnce
<1>3. QED
  BY <1>1, <1>2 DEF Next, Caller, Server

\* Before the first call, and while its image is stored, nobody searches.
LEMMA NobodyWaits ==
  ASSUME TypeOK, QueueInv, ArmedOnce, TableOnce, pc = "store" \/ calls = 0
  PROVE  /\ srv.phase = "recv"
         /\ Armable = {}
         /\ taskArmed = {} /\ \A t \in Threads : armed[t] = {}
         /\ \A t \in Threads : trapped[t] = NoAddr
<1>1. Armable = {}
  BY DEF Armable, TableOnce, TableArmed, Prefix
<1>2. \A t \in Threads : trapped[t] = NoAddr
  BY <1>1 DEF ArmedOnce
<1>3. srv.phase = "recv"
  BY <1>2 DEF QueueInv, TypeOK
<1>4. QED
  BY <1>1, <1>2, <1>3 DEF ArmedOnce

\* A step that leaves the table, the registers and the server alone.
LEMMA QuietKeeps ==
  ASSUME TableOnce, ArmedOnce, SearchOnce, pc # "store", pc' # "store",
         UNCHANGED <<tableVars, calls, trapped, srv, dead>>,
         calls # 0,
         taskArmed' \subseteq TableArmed,
         \A t \in Threads : armed'[t] \subseteq TableArmed
  PROVE  Once'
<1>1. TableArmed' = TableArmed /\ Armable' = TableArmed /\ Armable = TableArmed
  BY DEF TableArmed, Prefix, Armable, tableVars
<1>2. TableOnce'
  BY DEF TableOnce, tableVars
<1>3. ArmedOnce'
  BY <1>1 DEF ArmedOnce
<1>4. SearchOnce'
  BY DEF SearchOnce, tableVars
<1>5. QED
  BY <1>2, <1>3, <1>4 DEF Once

LEMMA BeginOnceStep ==
  ASSUME TypeOK, QueueInv, Once, MaxCalls = 1, BeginOnce
  PROVE  Once'
<1> USE DEF Once
<1>1. PICK n \in 0..MaxCount, a \in Addr \cup {NoAddr}, adr \in Tables, fun \in FuncLists,
           want \in SUBSET (Addr \X Func) :
        /\ CanCall
        /\ Begin(adr, fun, n, a, want)
        /\ \A i \in 1..n : adr[i] \in Addr /\ fun[i] \in Func
  BY DEF BeginOnce
<1>2. calls = 0 /\ calls' = 1 /\ pc' = "store"
  BY <1>1 DEF CanCall, Begin, TableOnce
<1>3. /\ srv.phase = "recv" /\ taskArmed = {} /\ \A t \in Threads : armed[t] = {}
      /\ \A t \in Threads : trapped[t] = NoAddr
  BY <1>2, NobodyWaits
<1>4. TableOnce'
  BY <1>1, <1>2 DEF TableOnce, Begin
<1>5. UNCHANGED <<taskArmed, armed, trapped, srv, dead>>
  BY <1>1 DEF Begin, trapVars
<1>6. ArmedOnce'
  BY <1>2, <1>3, <1>5 DEF ArmedOnce, Armable
<1>7. SearchOnce'
  BY <1>3, <1>5 DEF SearchOnce
<1>8. QED
  BY <1>4, <1>6, <1>7

LEMMA StoreOnceStep ==
  ASSUME TypeOK, QueueInv, Once, NEW w \in pend, Store(w)
  PROVE  Once'
<1> USE DEF Once
<1>1. /\ pc = "store" /\ pc' = "store" /\ calls' = calls
      /\ UNCHANGED <<taskArmed, armed, newVars, trapVars>>
  BY DEF Store
<1>2. /\ srv.phase = "recv" /\ taskArmed = {} /\ \A t \in Threads : armed[t] = {}
      /\ \A t \in Threads : trapped[t] = NoAddr
  BY <1>1, NobodyWaits
<1>3. TableOnce'
  BY <1>1 DEF TableOnce, newVars
<1>4. ArmedOnce'
  BY <1>1, <1>2 DEF ArmedOnce, Armable, trapVars
<1>5. SearchOnce'
  BY <1>1, <1>2 DEF SearchOnce, trapVars
<1>6. QED
  BY <1>3, <1>4, <1>5

LEMMA SetTaskOnceStep ==
  ASSUME TypeOK, StoreInv, QueueInv, Once, SetTask
  PROVE  Once'
<1> USE DEF Once
<1>1. /\ pc = "store" /\ pend = {} /\ pc' \in {"list", "idle"}
      /\ taskArmed' \in {NewArmed, taskArmed}
      /\ UNCHANGED <<tableVars, armed, newVars, calls, trapVars>>
  BY DEF SetTask
<1>2. /\ srv.phase = "recv" /\ taskArmed = {} /\ \A t \in Threads : armed[t] = {}
      /\ \A t \in Threads : trapped[t] = NoAddr
  BY <1>1, NobodyWaits
<1>3. /\ active_hooks = newCount
      /\ \A i \in Slots : hookAddress[i] = newAddress[i] /\ hookFunction[i] = newFunction[i]
  BY <1>1 DEF StoreInv
<1>4. active_hooks \in 0..MaxCount /\ \A i \in 1..active_hooks : i \in Slots
  BY DEF TypeOK, Slots
<1>5. NewArmed = TableArmed
  BY <1>3, <1>4 DEF NewArmed, TableArmed, Prefix
<1>6. TableOnce'
  BY <1>1, <1>3, <1>4 DEF TableOnce, tableVars
<1>7. Armable' = TableArmed
  BY <1>1 DEF Armable, TableArmed, Prefix, tableVars
<1>8. ArmedOnce'
  BY <1>1, <1>2, <1>5, <1>7 DEF ArmedOnce, trapVars
<1>9. SearchOnce'
  BY <1>1, <1>2 DEF SearchOnce, trapVars
<1>10. QED
  BY <1>6, <1>8, <1>9

LEMMA ServerOnceStep ==
  ASSUME TypeOK, QueueInv, Once, Receive \/ Scan \/ Fail \/ Redirect
  PROVE  Once'
<1> USE DEF Once, serverFrame, callVars, newVars, tableVars
<1>1. srv.phase # "recv" => pc # "store"
  BY NobodyWaits
<1>2. pc = "store" => \A t \in Threads : trapped[t] = NoAddr
  BY NobodyWaits
<1>3. /\ UNCHANGED <<hookAddress, hookFunction, active_hooks, pc, calls, newAddress, newFunction,
                     newCount, taskArmed, armed>>
  BY DEF Receive, Scan, Fail, Redirect
<1>4. TableOnce'
  BY <1>3 DEF TableOnce
<1>5. Armable' = Armable
  BY <1>3 DEF Armable, TableArmed, Prefix
<1>6. CASE Receive
  <2>1. ArmedOnce'
    BY <1>3, <1>5, <1>6 DEF Receive, ArmedOnce
  <2>2. SearchOnce'
    BY <1>3, <1>6 DEF Receive, SearchOnce
  <2>3. QED
    BY <1>4, <2>1, <2>2
<1>7. CASE Scan
  <2>1. ArmedOnce'
    BY <1>3, <1>5, <1>7 DEF Scan, ArmedOnce
  <2>2. /\ srv.phase = "scan" /\ srv.i <= srv.limit /\ srv.limit = active_hooks
        /\ srv.i \in 1..(MaxCount + 1) /\ active_hooks \in 0..MaxCount
        /\ \A j \in 1..(srv.i - 1) : hookAddress[j] # trapped[srv.thread]
        /\ trapped' = trapped /\ dead' = dead
    BY <1>7 DEF Scan, SearchOnce, TypeOK
  <2>3. CASE hookAddress[srv.i] = trapped[srv.thread]
    <3>1. srv' = [srv EXCEPT !.phase = "redirect"]
      BY <1>7, <2>3 DEF Scan
    <3>2. srv'.phase = "redirect" /\ srv'.i = srv.i /\ srv'.limit = srv.limit /\ srv'.thread = srv.thread
      BY <3>1 DEF TypeOK
    <3>3. SearchOnce'
      BY <1>3, <2>2, <2>3, <3>2 DEF SearchOnce
    <3>4. QED
      BY <1>4, <2>1, <3>3
  <2>4. CASE hookAddress[srv.i] # trapped[srv.thread]
    <3>1. /\ srv'.phase = "scan" /\ srv'.i = srv.i + 1 /\ srv'.limit = active_hooks
          /\ srv'.thread = srv.thread
      BY <1>7, <2>2, <2>4 DEF Scan
    <3>2. \A j \in 1..(srv'.i - 1) : hookAddress[j] # trapped[srv.thread]
      BY <2>2, <2>4, <3>1
    <3>3. SearchOnce'
      BY <1>3, <2>2, <3>1, <3>2 DEF SearchOnce
    <3>4. QED
      BY <1>4, <2>1, <3>3
  <2>5. QED
    BY <2>3, <2>4
<1>8. CASE Fail
  <2>1. /\ srv.phase = "scan" /\ srv.i > active_hooks /\ srv.i \in 1..(MaxCount + 1)
        /\ srv.thread \in Threads /\ active_hooks \in 0..MaxCount
        /\ \A j \in 1..(srv.i - 1) : hookAddress[j] # trapped[srv.thread]
    BY <1>8 DEF Fail, SearchOnce, TypeOK
  <2>2. trapped[srv.thread] # NoAddr
    BY <2>1 DEF QueueInv
  <2>3. trapped[srv.thread] \in TableArmed
    BY <1>1, <2>1, <2>2 DEF ArmedOnce, Armable
  <2>4. PICK j \in 1..active_hooks : hookAddress[j] = trapped[srv.thread]
    BY <2>3 DEF TableArmed, Prefix
  <2>5. j \in 1..(srv.i - 1)
    BY <2>1
  <2>6. QED
    BY <2>1, <2>4, <2>5
<1>9. CASE Redirect
  <2>1. \A t \in Threads : trapped'[t] \in {trapped[t], NoAddr}
    BY <1>9 DEF Redirect, TypeOK
  <2>2. ArmedOnce'
    BY <1>3, <1>5, <2>1 DEF ArmedOnce
  <2>3. srv'.phase = "recv" /\ dead' = dead
    BY <1>9 DEF Redirect, TypeOK
  <2>4. SearchOnce'
    BY <2>3 DEF SearchOnce
  <2>5. QED
    BY <1>4, <2>2, <2>4
<1>10. QED
  BY <1>6, <1>7, <1>8, <1>9

LEMMA OnceStep ==
  ASSUME TypeOK, StoreInv, QueueInv, Once, MaxCalls = 1, [Next]_vars
  PROVE  Once'
<1> USE DEF Once
<1>1. CASE BeginOnce
  BY <1>1, BeginOnceStep
<1>2. CASE Refuse /\ CanCall
  <2>1. /\ pc = "idle" /\ pc' = "idle" /\ calls = 0 /\ calls' = 1
        /\ UNCHANGED <<tableVars, taskArmed, armed, newVars, trapVars>>
    BY <1>2 DEF Refuse, CanCall, TableOnce
  <2>2. TableOnce'
    BY <2>1 DEF TableOnce, tableVars
  <2>3. Armable' = Armable
    BY <2>1 DEF Armable, TableArmed, Prefix, tableVars
  <2>4. ArmedOnce' /\ SearchOnce'
    BY <2>1, <2>3 DEF ArmedOnce, SearchOnce, tableVars, trapVars
  <2>5. QED
    BY <2>2, <2>4
<1>3. ASSUME NEW w \in pend, Store(w) PROVE Once'
  BY <1>3, StoreOnceStep
<1>4. CASE SetTask
  BY <1>4, SetTaskOnceStep
<1>5. CASE ListThreads \/ Return
  <2>1. /\ pc \in {"list", "arm"} /\ pc' \in {"arm", "idle"}
        /\ UNCHANGED <<tableVars, calls, trapped, srv, dead, taskArmed, armed>>
    BY <1>5 DEF ListThreads, Return, trapVars
  <2>2. calls # 0 /\ taskArmed \subseteq TableArmed /\ \A t \in Threads : armed[t] \subseteq TableArmed
    BY <2>1 DEF TableOnce, ArmedOnce, Armable
  <2>3. QED
    BY <2>1, <2>2, QuietKeeps
<1>6. ASSUME NEW t \in todo, SetThread(t) PROVE Once'
  <2>1. /\ pc = "arm" /\ pc' = "arm"
        /\ UNCHANGED <<tableVars, calls, trapped, srv, dead, taskArmed>>
        /\ armed' \in {armed, [armed EXCEPT ![t] = NewArmed]}
    BY <1>6 DEF SetThread, trapVars
  <2>2. calls # 0 /\ taskArmed \subseteq TableArmed /\ \A u \in Threads : armed[u] \subseteq TableArmed
    BY <2>1 DEF TableOnce, ArmedOnce, Armable
  <2>3. NewArmed = TableArmed
    BY <2>1 DEF StoreInv, NewArmed, TableArmed
  <2>4. \A u \in Threads : armed'[u] \subseteq TableArmed
    BY <2>1, <2>2, <2>3 DEF TypeOK
  <2>5. QED
    BY <2>1, <2>2, <2>4, QuietKeeps
<1>7. ASSUME NEW t \in Threads, Spawn(t) PROVE Once'
  <2>1. /\ UNCHANGED <<tableVars, pc, calls, newVars, trapVars, taskArmed>>
        /\ armed' = [armed EXCEPT ![t] = taskArmed]
    BY <1>7 DEF Spawn, callVars
  <2>2. Armable' = Armable
    BY <2>1 DEF Armable, TableArmed, Prefix, tableVars
  <2>3. \A u \in Threads : armed'[u] \in {armed[u], taskArmed}
    BY <2>1 DEF TypeOK
  <2>4. TableOnce' /\ ArmedOnce' /\ SearchOnce'
    BY <2>1, <2>2, <2>3 DEF TableOnce, ArmedOnce, SearchOnce, tableVars, newVars, trapVars
  <2>5. QED
    BY <2>4
<1>8. ASSUME NEW t \in Threads, Exit(t) PROVE Once'
  <2>1. UNCHANGED <<tableVars, pc, calls, newVars, trapVars, taskArmed, armed>>
    BY <1>8 DEF Exit, callVars
  <2>2. Armable' = Armable
    BY <2>1 DEF Armable, TableArmed, Prefix, tableVars
  <2>3. TableOnce' /\ ArmedOnce' /\ SearchOnce'
    BY <2>1, <2>2 DEF TableOnce, ArmedOnce, SearchOnce, tableVars, newVars, trapVars
  <2>4. QED
    BY <2>3
<1>9. ASSUME NEW t \in Threads, NEW a \in Addr, Trap(t, a) PROVE Once'
  <2>1. /\ UNCHANGED <<tableVars, pc, calls, newVars, srv, dead, taskArmed, armed>>
        /\ trapped' = [trapped EXCEPT ![t] = a]
        /\ trapped[t] = NoAddr /\ a \in armed[t]
    BY <1>9 DEF Trap, callVars
  <2>2. Armable' = Armable
    BY <2>1 DEF Armable, TableArmed, Prefix, tableVars
  <2>3. \A u \in Threads : trapped'[u] = IF u = t THEN a ELSE trapped[u]
    BY <2>1 DEF TypeOK
  <2>4. TableOnce'
    BY <2>1 DEF TableOnce, tableVars, newVars
  <2>5. ArmedOnce'
    BY <2>1, <2>2, <2>3 DEF ArmedOnce
  <2>6. srv.phase # "recv" => srv.thread \in Threads /\ trapped'[srv.thread] = trapped[srv.thread]
    BY <2>1, <2>3 DEF QueueInv, TypeOK
  <2>7. SearchOnce'
    BY <2>1, <2>6 DEF SearchOnce, tableVars
  <2>8. QED
    BY <2>4, <2>5, <2>7
<1>10. CASE Receive \/ Scan \/ Fail \/ Redirect
  BY <1>10, ServerOnceStep
<1>11. CASE UNCHANGED vars
  <2>1. UNCHANGED <<tableVars, pc, calls, newVars, trapVars, taskArmed, armed>>
    BY <1>11 DEF vars, callVars
  <2>2. Armable' = Armable
    BY <2>1 DEF Armable, TableArmed, Prefix, tableVars
  <2>3. TableOnce' /\ ArmedOnce' /\ SearchOnce'
    BY <2>1, <2>2 DEF TableOnce, ArmedOnce, SearchOnce, tableVars, newVars, trapVars
  <2>4. QED
    BY <2>3
<1>12. QED
  BY <1>1, <1>2, <1>3, <1>4, <1>5, <1>6, <1>7, <1>8, <1>9, <1>10, <1>11, NextOnce

LEMMA OnceInvariant ==
  ASSUME MaxCalls = 1
  PROVE  Spec => []Once
<1>1. Init => Once
  <2> SUFFICES ASSUME Init PROVE Once
    OBVIOUS
  <2>1. TableOnce
    BY DEF Init, TableOnce
  <2>2. ArmedOnce
    BY DEF Init, ArmedOnce
  <2>3. SearchOnce
    BY DEF Init, SearchOnce
  <2>4. QED
    BY <2>1, <2>2, <2>3 DEF Once
<1>2. TypeOK /\ IInv /\ Once /\ [Next]_vars => Once'
  BY OnceStep DEF IInv
<1>3. QED
  BY <1>1, <1>2, TypeCorrect, Invariant, PTL DEF Spec

-----------------------------------------------------------------------------
(* The refinement mapping, step by step.                                   *)

\* Every set of numbers has a least one.
LEMMA LeastNumber ==
  ASSUME NEW T \in SUBSET Nat, T # {}
  PROVE  \E x \in T : \A y \in T : x <= y
<1> DEFINE R == OpToRel(<, Nat)
<1>1. IsWellFoundedOn(R, Nat)
  BY NatLessThanWellFounded
<1>2. \A x, y \in Nat : x < y => <<x, y>> \in R
  BY DEF OpToRel
<1> HIDE DEF R
<1>3. PICK x \in T : \A y \in T : ~(<<y, x>> \in R)
  BY <1>1, WFMin
<1>4. \A y \in T : ~(y < x)
  BY <1>2, <1>3
<1>5. QED
  BY <1>4

\* What an address is bound to is the function of its first slot.
LEMMA BoundAt ==
  ASSUME TypeOK, pc # "store", NEW a \in Addr, NEW i \in Slots, FirstSlot(a, i)
  PROVE  Bound[a] = hookFunction[i]
<1> DEFINE k == CHOOSE j \in Slots : FirstSlot(a, j)
<1>1. k \in Slots /\ FirstSlot(a, k)
  OBVIOUS
<1>2. Bound[a] = hookFunction[k]
  BY DEF Bound
<1> HIDE DEF k
<1>3. k = i
  BY <1>1 DEF FirstSlot, Slots, TypeOK
<1>4. QED
  BY <1>2, <1>3

\* Every address the table names has a first slot.
LEMMA HasFirst ==
  ASSUME TypeOK, NEW a \in TableArmed
  PROVE  \E i \in Slots : FirstSlot(a, i)
<1> DEFINE T == {j \in 1..active_hooks : hookAddress[j] = a}
<1>0. active_hooks \in 0..MaxCount
  BY DEF TypeOK
<1>1. T \in SUBSET Nat /\ T # {}
  BY <1>0 DEF TableArmed, Prefix
<1>2. PICK i \in T : \A j \in T : i <= j
  BY <1>1, LeastNumber
<1>3. i \in 1..active_hooks /\ i \in Slots /\ hookAddress[i] = a
  BY <1>0, <1>2 DEF Slots
<1>4. ASSUME NEW j \in 1..(i - 1), hookAddress[j] = a PROVE FALSE
  <2>1. j \in T /\ j < i
    BY <1>0, <1>3, <1>4
  <2>2. QED
    BY <1>2, <1>3, <2>1
<1>5. QED
  BY <1>3, <1>4 DEF FirstSlot

\* The bindings change with the table and with the end of its stores alone.
LEMMA BoundSame ==
  ASSUME UNCHANGED tableVars, pc = "store" <=> pc' = "store"
  PROVE  Bound' = Bound
  BY DEF Bound, FirstSlot, tableVars

LEMMA BoundNothing ==
  ASSUME pc = "store" \/ active_hooks = 0
  PROVE  Bound = [a \in Addr |-> NoFunc]
  BY DEF Bound, FirstSlot

LEMMA BoundType == TypeOK => Bound \in [Addr -> Func \cup {NoFunc}]
<1> SUFFICES ASSUME TypeOK PROVE Bound \in [Addr -> Func \cup {NoFunc}]
  OBVIOUS
<1>1. ASSUME NEW a \in Addr, \E i \in Slots : FirstSlot(a, i)
      PROVE  hookFunction[CHOOSE i \in Slots : FirstSlot(a, i)] \in Func \cup {NoFunc}
  <2>1. (CHOOSE i \in Slots : FirstSlot(a, i)) \in Slots
    BY <1>1
  <2>2. QED
    BY <2>1 DEF TypeOK
<1>2. QED
  BY <1>1 DEF Bound

LEMMA BoundTypeNext == TypeOK' => (Bound \in [Addr -> Func \cup {NoFunc}])'
  BY BoundType, PTL

\* Every step of the engine is one of the service, or is not seen by it.
LEMMA ServiceStep ==
  ASSUME TypeOK, TypeOK', QueueInv, Once, MaxCalls = 1, [Next]_vars
  PROVE  [Service!Next]_(Service!vars)
<1> USE DEF Once
<1>1. CASE BeginOnce
  <2>1. PICK n \in 0..MaxCount, a \in Addr \cup {NoAddr}, adr \in Tables, fun \in FuncLists,
             want \in SUBSET (Addr \X Func) : CanCall /\ Begin(adr, fun, n, a, want)
    BY <1>1 DEF BeginOnce
  <2>2. active_hooks = 0 /\ pc' = "store" /\ UNCHANGED <<trapped, landed, dead>>
    BY <2>1 DEF Begin, CanCall, TableOnce, trapVars
  <2>3. Bound = [a_1 \in Addr |-> NoFunc]
    BY <2>2, BoundNothing
  <2>4. Bound' = [a_1 \in Addr |-> NoFunc]
    BY <2>2 DEF Bound
  <2>5. QED
    BY <2>2, <2>3, <2>4 DEF Service!vars
<1>2. CASE Refuse /\ CanCall
  <2>1. UNCHANGED tableVars /\ pc' = pc /\ UNCHANGED <<trapped, landed, dead>>
    BY <1>2 DEF Refuse, trapVars
  <2>2. QED
    BY <2>1, BoundSame DEF Service!vars
<1>3. ASSUME NEW w \in pend, Store(w) PROVE UNCHANGED Service!vars
  <2>1. pc = "store" /\ pc' = "store" /\ UNCHANGED <<trapped, landed, dead>>
    BY <1>3 DEF Store, trapVars
  <2>2. Bound' = Bound
    BY <2>1 DEF Bound
  <2>3. QED
    BY <2>1, <2>2 DEF Service!vars
<1>4. CASE SetTask
  <2>1. pc = "store" /\ UNCHANGED <<trapped, landed, dead>>
    BY <1>4 DEF SetTask, trapVars
  <2>2. Bound = Service!Unbound
    BY <2>1, BoundNothing DEF Service!Unbound
  <2>3. Bound' \in [Addr -> Func \cup {NoFunc}]
    BY BoundTypeNext
  <2>4. Service!Bind(Bound')
    BY <2>1, <2>2 DEF Service!Bind
  <2>5. QED
    BY <2>3, <2>4 DEF Service!Next
<1>5. ASSUME \/ ListThreads \/ Return \/ \E t \in todo : SetThread(t)
             \/ (\E t \in Threads : Spawn(t)) \/ (\E t \in Threads : Exit(t))
             \/ Receive \/ Scan
      PROVE  UNCHANGED Service!vars
  <2>1. /\ UNCHANGED tableVars /\ (pc = "store" <=> pc' = "store")
        /\ UNCHANGED <<trapped, landed, dead>>
    BY <1>5 DEF ListThreads, Return, SetThread, Spawn, Exit, Receive, Scan, callVars, trapVars,
       serverFrame
  <2>2. QED
    BY <2>1, BoundSame DEF Service!vars
<1>6. ASSUME NEW t \in Threads, NEW a \in Addr, Trap(t, a) PROVE Service!Hit(t, a)
  <2>1. /\ UNCHANGED <<tableVars, pc, landed, dead>>
        /\ trapped[t] = NoAddr /\ trapped' = [trapped EXCEPT ![t] = a] /\ a \in armed[t]
    BY <1>6 DEF Trap, callVars
  <2>2. pc # "store" /\ a \in TableArmed
    BY <2>1 DEF ArmedOnce, Armable
  <2>3. PICK i \in Slots : FirstSlot(a, i)
    BY <2>2, HasFirst
  <2>4. Bound[a] = hookFunction[i] /\ hookFunction[i] \in Func
    BY <2>2, <2>3, BoundAt DEF TableOnce, FirstSlot
  <2>5. Bound' = Bound
    BY <2>1, BoundSame
  <2>6. QED
    BY <2>1, <2>4, <2>5 DEF Service!Hit
<1>7. CASE Fail
  <2>1. Once'
    BY <1>7, ServerOnceStep
  <2>2. QED
    BY <1>7, <2>1 DEF Fail, SearchOnce
<1>8. CASE Redirect
  <2> DEFINE t == srv.thread
  <2>1. /\ srv.phase = "redirect" /\ t \in Threads /\ trapped[t] # NoAddr
        /\ landed' = [landed EXCEPT ![t] = hookFunction[srv.i]]
        /\ trapped' = [trapped EXCEPT ![t] = NoAddr]
        /\ UNCHANGED <<tableVars, pc, dead>>
    BY <1>8 DEF Redirect, TypeOK, QueueInv, serverFrame, callVars
  <2>2. pc # "store" /\ trapped[t] \in Addr
    <3>1. pc # "store"
      BY <2>1 DEF ArmedOnce, Armable
    <3>2. QED
      BY <2>1, <3>1 DEF TypeOK
  <2>3. srv.i \in Slots /\ FirstSlot(trapped[t], srv.i)
    BY <2>1 DEF SearchOnce, FirstSlot, TypeOK, Slots
  <2>4. Bound[trapped[t]] = hookFunction[srv.i]
    BY <2>2, <2>3, BoundAt
  <2>5. Bound' = Bound
    BY <2>1, BoundSame
  <2>6. Service!Land(t)
    BY <2>1, <2>4, <2>5 DEF Service!Land
  <2>7. QED
    BY <2>1, <2>6 DEF Service!Next
<1>9. CASE UNCHANGED vars
  <2>1. UNCHANGED <<tableVars, pc, trapped, landed, dead>>
    BY <1>9 DEF vars, callVars, trapVars
  <2>2. QED
    BY <2>1, BoundSame DEF Service!vars
<1>10. QED
  BY <1>1, <1>2, <1>3, <1>4, <1>5, <1>6, <1>7, <1>8, <1>9, NextOnce DEF Service!Next

\* A program that makes one call sees the service: bindings that appear at
\* once, hits that land in the function bound, no hit that ends the process.
THEOREM OnceImplements ==
  ASSUME MaxCalls = 1
  PROVE  Spec => ImplementsService
<1>1. Init => Service!Init
  <2> SUFFICES ASSUME Init PROVE Service!Init
    OBVIOUS
  <2>1. active_hooks = 0
    BY DEF Init
  <2>2. Bound = Service!Unbound
    BY <2>1, BoundNothing DEF Service!Unbound
  <2>3. QED
    BY <2>2 DEF Init, Service!Init
<1>2. TypeOK /\ TypeOK' /\ IInv /\ Once /\ [Next]_vars => [Service!Next]_(Service!vars)
  BY ServiceStep DEF IInv
<1>3. QED
  BY <1>1, <1>2, TypeCorrect, Invariant, OnceInvariant, PTL DEF Spec, ImplementsService, Service!Spec
=============================================================================
