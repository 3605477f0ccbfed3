----------------------------- MODULE HookEngine -----------------------------
(***************************************************************************)
(* The breakpoint hook engine of hook/hook.c.                              *)
(*                                                                         *)
(* One application thread calls Zexis (install a table of hooks) or        *)
(* ZexisUnhook (drop one address).  Both rewrite the global table hooks /  *)
(* active_hooks, then copy the new breakpoint addresses into the debug     *)
(* registers of the task and of every thread of a snapshot.  Meanwhile     *)
(* other threads hit armed addresses; each hit is a message to the         *)
(* exception server, which searches the same table with no lock and either *)
(* redirects the thread or answers KERN_FAILURE, which ends the process.   *)
(*                                                                         *)
(* Every store to the table is a step of its own.  The stores of one call  *)
(* may become visible in any order, and the server may keep the value of   *)
(* active_hooks it read first: the code orders neither.                    *)
(***************************************************************************)
EXTENDS Integers, Sequences, FiniteSets

CONSTANTS
  Threads,        \* the other threads of the task, over its whole life
  Addr,           \* addresses that may be hooked
  Func,           \* replacement functions
  NoAddr, NoFunc, \* the zero words of an empty slot
  NumSlots,       \* size of the table (16 in the source)
  MaxCount,       \* most hooks one call may install (6 in the source)
  HwBreakpoints,  \* what the hardware reports (hw.optional.breakpoint)
  MayFail,        \* TRUE when the kernel may refuse a set_state call
  MaxCalls        \* bound: number of API calls in a behaviour

ASSUME HookAssumption ==
  /\ NumSlots \in Nat \ {0}
  /\ MaxCount \in 0..NumSlots
  /\ HwBreakpoints \in Nat
  /\ MayFail \in BOOLEAN
  /\ MaxCalls \in Nat
  /\ NoAddr \notin Addr
  /\ NoFunc \notin Func

VARIABLES
  hookAddress, hookFunction,  \* hooks[i].address, hooks[i].function
  active_hooks,
  initialized, breakpoints,   \* the statics of Zexis
  taskArmed,                  \* addresses in the debug state of the task
  armed,                      \* addresses in each thread's debug registers
  life,                       \* each thread: "unborn", "live" or "gone"
  pc,                         \* where the API call in progress is
  newAddress, newFunction, newCount, \* the table image the call stores
  pend,                       \* stores of the call not yet visible
  todo, success,              \* threads of the snapshot still to set
  result,                     \* what the last call returned
  target,                     \* address of the last ZexisUnhook, or NoAddr
  calls,
  asked,                      \* history: <<address, function>> pairs asked for
  trapped,                    \* address a thread waits at, or NoAddr
  port,                       \* queue of exception messages
  srv,                        \* the exception server's locals
  landed,                     \* function each thread was last sent to
  dead,                       \* a hit was answered KERN_FAILURE
  settled,                    \* history: last accepted call returned true
  clean                       \* history: hits no call has overlapped

tableVars == <<hookAddress, hookFunction, active_hooks>>
initVars  == <<initialized, breakpoints>>
newVars   == <<newAddress, newFunction, newCount, asked>>
callVars  == <<pc, newVars, pend, todo, success, result, target, calls>>
trapVars  == <<trapped, port, srv, landed, dead>>
vars == <<tableVars, initVars, taskArmed, armed, life, callVars, trapVars,
          settled, clean>>

Slots == 1..NumSlots
Live  == {t \in Threads : life[t] = "live"}

Prefix(f, n) == {f[i] : i \in 1..n}
TableArmed == Prefix(hookAddress, active_hooks)  \* what the table names
NewArmed   == Prefix(newAddress, newCount)       \* arm_debug_state64_t state

-----------------------------------------------------------------------------
(* The words of the table a call stores.  A store that leaves its word as  *)
(* it was cannot be observed and is not listed.                            *)

CountWord == <<"count", 0>>
Words == ({"address", "function"} \X Slots) \cup {CountWord}

ChangedWords(adr, fun, n) ==
  {w \in Words :
     \/ w[1] = "address"  /\ adr[w[2]] # hookAddress[w[2]]
     \/ w[1] = "function" /\ fun[w[2]] # hookFunction[w[2]]
     \/ w[1] = "count"    /\ n # active_hooks}

Init ==
  /\ hookAddress = [i \in Slots |-> NoAddr]
  /\ hookFunction = [i \in Slots |-> NoFunc]
  /\ active_hooks = 0
  /\ initialized = FALSE
  /\ breakpoints = MaxCount
  /\ taskArmed = {}
  /\ armed = [t \in Threads |-> {}]
  /\ life \in [Threads -> {"unborn", "live"}]
  /\ pc = "idle"
  /\ newAddress = hookAddress
  /\ newFunction = hookFunction
  /\ newCount = 0
  /\ pend = {}
  /\ todo = {}
  /\ success = TRUE
  /\ result = "none"
  /\ target = NoAddr
  /\ calls = 0
  /\ asked = {}
  /\ trapped = [t \in Threads |-> NoAddr]
  /\ port = <<>>
  /\ srv = [phase |-> "recv", thread |-> "none", i |-> 0, limit |-> 0]
  /\ landed = [t \in Threads |-> NoFunc]
  /\ dead = FALSE
  /\ settled = TRUE
  /\ clean = {}

-----------------------------------------------------------------------------
(* The API calls                                                           *)

\* A table of n hooks; Zexis leaves the slots from n on as they are.
Requests == UNION {[1..n -> Addr \X Func] : n \in 0..(MaxCount + 1)}

CanCall == pc = "idle" /\ ~dead /\ calls < MaxCalls

\* An accepted call starts storing the image adr, fun, n; the program now
\* wants the pairs in want.
Begin(adr, fun, n, a, want) ==
  /\ pc' = "store"
  /\ newAddress' = adr
  /\ newFunction' = fun
  /\ newCount' = n
  /\ pend' = ChangedWords(adr, fun, n)
  /\ result' = "none"
  /\ target' = a
  /\ calls' = calls + 1
  /\ asked' = want
  /\ settled' = FALSE
  /\ clean' = {}
  /\ UNCHANGED <<tableVars, taskArmed, armed, life, todo, success, trapVars>>

\* A refused call changes nothing but the answer.
Refuse ==
  /\ result' = "false"
  /\ target' = NoAddr
  /\ calls' = calls + 1
  /\ UNCHANGED <<tableVars, taskArmed, armed, life, pc, newVars, pend, todo,
                 success, trapVars, settled, clean>>

\* First call: read the number of breakpoints, start the server.  When the
\* query fails the static keeps its initial value.
Initialize ==
  /\ initialized' = TRUE
  /\ breakpoints' \in IF initialized THEN {breakpoints}
                                     ELSE {HwBreakpoints, MaxCount}

\* What a request asks for: of two hooks on an address the first counts.
FirstPairs(req) ==
  {req[i] : i \in {k \in 1..Len(req) : \A j \in 1..(k - 1) : req[j][1] # req[k][1]}}

Zexis(req) ==
  LET n == Len(req) IN
  /\ CanCall
  /\ \/ /\ n > MaxCount
        /\ Refuse
        /\ UNCHANGED initVars
     \/ /\ n <= MaxCount
        /\ Initialize
        /\ \/ /\ n > breakpoints'
              /\ Refuse
           \/ /\ n <= breakpoints'
              /\ Begin([i \in Slots |-> IF i <= n THEN req[i][1] ELSE hookAddress[i]],
                       [i \in Slots |-> IF i <= n THEN req[i][2] ELSE hookFunction[i]],
                       n, NoAddr, FirstPairs(req))

\* Slots of the active table that ZexisUnhook(a) keeps.
KeptPastFirst(a) ==  \* mutated: only the first entry for a goes
  {i \in 1..active_hooks :
     hookAddress[i] # a \/ \E j \in 1..(i - 1) : hookAddress[j] = a}
Kept(a) == {i \in 1..active_hooks : hookAddress[i] # a}

\* m lists them in order: slot i of the new table is slot m[i] of the old.
Compaction(a, n, m) ==
  /\ \A i, j \in 1..n : i < j => m[i] < m[j]
  /\ {m[i] : i \in 1..n} = Kept(a)

\* An entry moves whole.
FunctionStays(m, i) == hookFunction[i]  \* mutated: only the address moves
MovedFunction(m, i) == hookFunction[m[i]]

ZexisUnhook(a) ==
  /\ CanCall
  /\ \E n \in 0..active_hooks : \E m \in [1..n -> 1..active_hooks] :
       /\ Compaction(a, n, m)
       /\ Begin([i \in Slots |-> IF i <= n THEN hookAddress[m[i]] ELSE NoAddr],
                [i \in Slots |-> IF i <= n THEN MovedFunction(m, i) ELSE NoFunc],
                n, a, {p \in asked : p[1] # a})
  /\ UNCHANGED initVars

\* One store of the call becomes visible to the server.
Store(w) ==
  /\ pc = "store"
  /\ ~dead
  /\ w \in pend
  /\ pend' = pend \ {w}
  /\ IF w[1] = "address"
     THEN hookAddress' = [hookAddress EXCEPT ![w[2]] = newAddress[w[2]]]
     ELSE UNCHANGED hookAddress
  /\ IF w[1] = "function"
     THEN hookFunction' = [hookFunction EXCEPT ![w[2]] = newFunction[w[2]]]
     ELSE UNCHANGED hookFunction
  /\ IF w[1] = "count"
     THEN active_hooks' = newCount
     ELSE UNCHANGED active_hooks
  /\ UNCHANGED <<initVars, taskArmed, armed, life, pc, newVars, todo, success,
                 result, target, calls, trapVars, settled, clean>>

\* No register is armed before the table is in place.
ArmEarly == TRUE  \* mutated: set_state before the last store
StoresDone == pend = {}

\* task_set_state; when it is refused the call returns false at once.
SetTask ==
  /\ pc = "store"
  /\ ~dead
  /\ StoresDone
  /\ \/ /\ taskArmed' = NewArmed
        /\ pc' = "list"
        /\ UNCHANGED result
     \/ /\ MayFail
        /\ pc' = "idle"
        /\ result' = "false"
        /\ UNCHANGED taskArmed
  /\ UNCHANGED <<tableVars, initVars, armed, life, newVars, pend, todo, success,
                 target, calls, trapVars, settled, clean>>

\* task_threads takes the snapshot of live threads.
ListThreads ==
  /\ pc = "list"
  /\ ~dead
  /\ pc' = "arm"
  /\ todo' = Live
  /\ success' = TRUE
  /\ UNCHANGED <<tableVars, initVars, taskArmed, armed, life, newVars, pend,
                 result, target, calls, trapVars, settled, clean>>

\* Each thread of the snapshot is tried once.
RetryGone(t) == IF t \in Live THEN todo \ {t} ELSE todo  \* mutated: retries
Remaining(t) == todo \ {t}

\* thread_set_state on one thread; it fails on a thread that has ended.
SetThread(t) ==
  /\ pc = "arm"
  /\ ~dead
  /\ t \in todo
  /\ todo' = Remaining(t)
  /\ \/ /\ t \in Live
        /\ armed' = [armed EXCEPT ![t] = NewArmed]
        /\ UNCHANGED success
     \/ /\ t \in Live => MayFail
        /\ success' = FALSE
        /\ UNCHANGED armed
  /\ UNCHANGED <<tableVars, initVars, taskArmed, life, pc, newVars, pend,
                 result, target, calls, trapVars, settled, clean>>

\* The answer is true only when every thread took the registers.
AlwaysTrue == TRUE  \* mutated: a refused thread goes unreported
Verdict == success

Return ==
  /\ pc = "arm"
  /\ ~dead
  /\ todo = {}
  /\ pc' = "idle"
  /\ result' = IF Verdict THEN "true" ELSE "false"
  /\ settled' = Verdict
  /\ UNCHANGED <<tableVars, initVars, taskArmed, armed, life, newVars, pend,
                 todo, success, target, calls, trapVars, clean>>

-----------------------------------------------------------------------------
(* The other threads of the task                                           *)

\* A new thread starts with the debug state of the task.
Spawn(t) ==
  /\ ~dead
  /\ life[t] = "unborn"
  /\ life' = [life EXCEPT ![t] = "live"]
  /\ armed' = [armed EXCEPT ![t] = taskArmed]
  /\ UNCHANGED <<tableVars, initVars, taskArmed, callVars, trapVars, settled, clean>>

Exit(t) ==
  /\ ~dead
  /\ t \in Live
  /\ trapped[t] = NoAddr
  /\ life' = [life EXCEPT ![t] = "gone"]
  /\ UNCHANGED <<tableVars, initVars, taskArmed, armed, callVars, trapVars,
                 settled, clean>>

\* A thread reaches an armed address: its message is queued, it waits.
Trap(t, a) ==
  /\ ~dead
  /\ t \in Live
  /\ trapped[t] = NoAddr
  /\ a \in armed[t]
  /\ trapped' = [trapped EXCEPT ![t] = a]
  /\ port' = Append(port, t)
  /\ clean' = IF settled THEN clean \cup {t} ELSE clean
  /\ UNCHANGED <<tableVars, initVars, taskArmed, armed, life, callVars, srv,
                 landed, dead, settled>>

-----------------------------------------------------------------------------
(* The exception server: catch_mach_exception_raise_state                  *)

serverFrame == <<tableVars, initVars, taskArmed, armed, life, callVars, settled>>

\* The loop test and the loop step of the search.
InTableShort(i, limit) == i < limit       \* mutated: misses the last entry
InTableLong(i, limit)  == i <= limit + 1  \* mutated: reads past the table
InTable(i, limit) == i <= limit
SameSlot(i) == i                          \* mutated: the search stands still
NextSlot(i) == i + 1

Receive ==
  /\ ~dead
  /\ srv.phase = "recv"
  /\ port # <<>>
  /\ srv' = [phase |-> "scan", thread |-> Head(port), i |-> 1, limit |-> active_hooks]
  /\ port' = Tail(port)
  /\ UNCHANGED <<serverFrame, trapped, landed, dead, clean>>

\* One iteration of the search; a later iteration may test i against the
\* count read before or against the present one.
Scan ==
  /\ ~dead
  /\ srv.phase = "scan"
  /\ InTable(srv.i, srv.limit)
  /\ IF hookAddress[srv.i] = trapped[srv.thread]
     THEN srv' = [srv EXCEPT !.phase = "redirect"]
     ELSE \E lim \in {srv.limit, active_hooks} :
            srv' = [phase |-> "scan", thread |-> srv.thread,
                    i |-> NextSlot(srv.i), limit |-> lim]
  /\ UNCHANGED <<serverFrame, trapped, port, landed, dead, clean>>

\* No entry matched: KERN_FAILURE.
Fail ==
  /\ ~dead
  /\ srv.phase = "scan"
  /\ ~ InTable(srv.i, srv.limit)
  /\ dead' = TRUE
  /\ UNCHANGED <<serverFrame, trapped, port, srv, landed, clean>>

\* The reply carries the function word of the slot, read now.
Redirect ==
  /\ ~dead
  /\ srv.phase = "redirect"
  /\ landed' = [landed EXCEPT ![srv.thread] = hookFunction[srv.i]]
  /\ trapped' = [trapped EXCEPT ![srv.thread] = NoAddr]
  /\ srv' = [srv EXCEPT !.phase = "recv"]
  /\ clean' = clean \ {srv.thread}
  /\ UNCHANGED <<serverFrame, port, dead>>

-----------------------------------------------------------------------------
Caller == (\E w \in pend : Store(w)) \/ SetTask \/ ListThreads
            \/ (\E t \in todo : SetThread(t)) \/ Return

Server == Receive \/ Scan \/ Fail \/ Redirect

Next ==
  \/ \E req \in Requests : Zexis(req)
  \/ \E a \in Addr : ZexisUnhook(a)
  \/ Caller
  \/ \E t \in Threads : Spawn(t) \/ Exit(t)
  \/ \E t \in Threads, a \in Addr : Trap(t, a)
  \/ Server

Spec == Init /\ [][Next]_vars

\* The calling thread and the server thread are scheduled; nobody is obliged
\* to call, to start a thread or to reach a hooked address.
FairSpec == Spec /\ WF_vars(Caller) /\ WF_vars(Server)

-----------------------------------------------------------------------------
(* Properties                                                              *)

\* Types of the table, the call in progress, the threads and the server.
TypeOK ==
  /\ hookAddress \in [Slots -> Addr \cup {NoAddr}]
  /\ hookFunction \in [Slots -> Func \cup {NoFunc}]
  /\ active_hooks \in 0..MaxCount
  /\ initialized \in BOOLEAN
  /\ breakpoints \in Nat
  /\ taskArmed \subseteq Addr \cup {NoAddr}
  /\ armed \in [Threads -> SUBSET (Addr \cup {NoAddr})]
  /\ life \in [Threads -> {"unborn", "live", "gone"}]
  /\ pc \in {"idle", "store", "list", "arm"}
  /\ newAddress \in [Slots -> Addr \cup {NoAddr}]
  /\ newFunction \in [Slots -> Func \cup {NoFunc}]
  /\ newCount \in 0..MaxCount
  /\ pend \subseteq Words
  /\ todo \subseteq Threads
  /\ success \in BOOLEAN
  /\ result \in {"none", "true", "false"}
  /\ target \in Addr \cup {NoAddr}
  /\ calls \in Nat
  /\ asked \subseteq Addr \X Func
  /\ trapped \in [Threads -> Addr \cup {NoAddr}]
  /\ port \in Seq(Threads)
  /\ srv \in [phase : {"recv", "scan", "redirect"},
              thread : Threads \cup {"none"}, i : Nat, limit : 0..MaxCount]
  /\ srv.phase # "recv" => srv.thread \in Threads /\ srv.i \in 1..(MaxCount + 1)
  /\ srv.phase = "redirect" => srv.i \in 1..MaxCount
  /\ landed \in [Threads -> Func \cup {NoFunc}]
  /\ dead \in BOOLEAN
  /\ settled \in BOOLEAN
  /\ clean \subseteq Threads

\* Once a call has returned true, and until the next accepted one begins,
\* the table, the debug state of the task and the registers of every live
\* thread name the same addresses: also in threads that were started while
\* the call walked its snapshot, which no thread_set_state reaches.
SettledAgreement ==
  settled => /\ taskArmed = TableArmed
             /\ \A t \in Live : armed[t] = TableArmed

\* A successful ZexisUnhook leaves the address in no thread's registers,
\* however many slots named it.
UnhookDisarms ==
  (target # NoAddr /\ result = "true") => \A t \in Live : target \notin armed[t]

\* A hit taken after a successful call, and answered before the next call
\* begins, does not end the process.
CleanHitSurvives == dead => srv.thread \notin clean

\* Such a hit sends the thread to the function the program asked for at that
\* address (the first one when it named the address twice), also when
\* ZexisUnhook has moved the entry to another slot since.
CleanLanding ==
  [][\A t \in Threads :
       (t \in clean /\ trapped[t] # NoAddr /\ trapped'[t] = NoAddr)
         => <<trapped[t], landed'[t]>> \in asked]_vars

\* Every accepted call comes back, unless the process ends first.
CallReturns == (pc # "idle") ~> (pc = "idle" \/ dead)

\* Every thread that waits at a hook goes on, unless the process ends first.
HitAnswered ==
  \A t \in Threads : (trapped[t] # NoAddr) ~> (trapped[t] = NoAddr \/ dead)

-----------------------------------------------------------------------------
(* The inductive invariant behind the safety properties.                   *)

\* The stores of the call in progress; what is not pending has been stored.
StoreInv ==
  /\ pc # "idle" => ~settled
  /\ pc = "store" =>
       /\ \A i \in Slots : <<"address", i>> \notin pend => hookAddress[i] = newAddress[i]
       /\ \A i \in Slots : <<"function", i>> \notin pend => hookFunction[i] = newFunction[i]
       /\ CountWord \notin pend => active_hooks = newCount
  /\ pc \in {"list", "arm"} =>
       /\ hookAddress = newAddress
       /\ hookFunction = newFunction
       /\ active_hooks = newCount
       /\ taskArmed = NewArmed

\* The registers follow the table, snapshot and newcomers alike.
RegisterInv ==
  /\ (pc = "arm" /\ success) => \A t \in Live \ todo : armed[t] = NewArmed
  /\ settled => /\ taskArmed = TableArmed
                /\ \A t \in Live : armed[t] = TableArmed

\* The image of an unhook names its address no more.
TargetInv ==
  /\ result = "true" => settled
  /\ (target # NoAddr /\ pc # "idle") => target \notin NewArmed
  /\ (target # NoAddr /\ settled) => target \notin TableArmed

\* A waiting thread has one message, in the queue or with the server.
QueueInv ==
  /\ \A k \in 1..Len(port) : trapped[port[k]] # NoAddr
  /\ \A k, l \in 1..Len(port) : port[k] = port[l] => k = l
  /\ srv.phase # "recv" =>
       /\ trapped[srv.thread] # NoAddr
       /\ \A k \in 1..Len(port) : port[k] # srv.thread

\* The search of a clean hit runs over a table that stands still.
CleanInv ==
  /\ pc # "idle" => clean = {}
  /\ clean # {} => settled
  /\ \A t \in clean : trapped[t] \in TableArmed
  /\ (srv.phase # "recv" /\ srv.thread \in clean) =>
       /\ srv.limit = active_hooks
       /\ \A j \in 1..(srv.i - 1) : hookAddress[j] # trapped[srv.thread]
  /\ (srv.phase = "redirect" /\ srv.thread \in clean) =>
       /\ srv.i <= active_hooks
       /\ hookAddress[srv.i] = trapped[srv.thread]
  /\ dead => srv.phase = "scan" /\ srv.i > srv.limit

\* The first entry for an address, in the table or in the image a call is
\* storing, is a pair asked for.
Follows(adr, fun, n) ==
  \A i \in 1..n :
    (\A j \in 1..(i - 1) : adr[j] # adr[i]) => <<adr[i], fun[i]>> \in asked

AskInv ==
  /\ pc # "store" => Follows(hookAddress, hookFunction, active_hooks)
  /\ pc = "store" => Follows(newAddress, newFunction, newCount)

IInv == AskInv /\ StoreInv /\ RegisterInv /\ TargetInv /\ QueueInv /\ CleanInv

=============================================================================
