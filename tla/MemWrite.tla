------------------------------ MODULE MemWrite ------------------------------
(***************************************************************************)
(* KittyMemory::memWrite on the Apple build (KittyMemory.cpp), called by   *)
(* several threads on shared pages.                                        *)
(*                                                                         *)
(* A call reads the protection of the first page of its range.  If that    *)
(* page is writable the bytes go straight in; otherwise the whole range is *)
(* made readable and writable, written, given the protection read before,  *)
(* and flushed from the instruction cache.  Every kernel call is a step:   *)
(* other calls run between them, and the kernel may refuse.                *)
(***************************************************************************)
EXTENDS Integers, FiniteSets

CONSTANTS
  Writers,    \* calling threads
  Pages,      \* page numbers 0, 1, ...
  PageSize,
  Values,     \* byte values
  Zero,       \* the byte every address holds at the start
  Protections,\* protections pages may start with
  MayRefuse,  \* TRUE when the kernel may refuse a call
  MaxCalls    \* bound: number of calls of memWrite

Addrs == 0..(PageSize * Cardinality(Pages) - 1)
PageOf(a) == a \div PageSize

ASSUME MemAssumption ==
  /\ PageSize \in Nat \ {0}
  /\ IsFiniteSet(Pages)
  /\ 0 \in Addrs
  /\ \A a \in Addrs : PageOf(a) \in Pages
  /\ Zero \in Values
  /\ Protections \subseteq SUBSET {"r", "w", "x"}
  /\ MayRefuse \in BOOLEAN
  /\ MaxCalls \in Nat

VARIABLES
  mem,      \* byte at each address
  icache,   \* byte an instruction fetch may still see
  prot,     \* protection of each page
  initProt, \* protection each page started with
  pc,       \* where each writer's call is
  req,      \* its arguments: first and last address, value
  saved,    \* page_info.protection
  result,   \* what its last call returned
  refused,  \* history: the kernel has refused a call
  lost,     \* history: a call lost its write permission before vm_write
  wide,     \* history: a call has covered more than one page
  calls

vars == <<mem, icache, prot, initProt, pc, req, saved, result, refused,
          lost, wide, calls>>

Bytes(w)  == req[w].first .. req[w].last
PagesOf(w) == {PageOf(a) : a \in Bytes(w)}

\* KT_PAGE_LEN2: the range of pages protected, restored and flushed.
Covered(w) == PagesOf(w)

RW == {"r", "w"}
NoRequest == [first |-> 0, last |-> 0, value |-> Zero]

Init ==
  /\ mem = [a \in Addrs |-> Zero]
  /\ icache = mem
  /\ prot \in [Pages -> Protections]
  /\ initProt = prot
  /\ pc = [w \in Writers |-> "idle"]
  /\ req = [w \in Writers |-> NoRequest]
  /\ saved = [w \in Writers |-> {}]
  /\ result = [w \in Writers |-> "none"]
  /\ refused = FALSE
  /\ lost = FALSE
  /\ wide = FALSE
  /\ calls = 0

\* memWrite with a good address, buffer and length.  (A null address or
\* buffer or a zero length returns its error code and changes nothing.)
Call(w, f, l, v) ==
  /\ pc[w] = "idle"
  /\ calls < MaxCalls
  /\ f <= l
  /\ pc' = [pc EXCEPT ![w] = "info"]
  /\ req' = [req EXCEPT ![w] = [first |-> f, last |-> l, value |-> v]]
  /\ result' = [result EXCEPT ![w] = "none"]
  /\ calls' = calls + 1
  /\ wide' = (wide \/ PageOf(f) # PageOf(l))
  /\ UNCHANGED <<mem, icache, prot, initProt, saved, refused, lost>>

Finish(w, code) ==
  /\ pc' = [pc EXCEPT ![w] = "idle"]
  /\ result' = [result EXCEPT ![w] = code]

\* The kernel refuses the step the call is at.
Refused(w, at, code) ==
  /\ MayRefuse
  /\ pc[w] = at
  /\ refused' = TRUE
  /\ Finish(w, code)
  /\ UNCHANGED <<mem, icache, prot, initProt, req, saved, lost, wide, calls>>

\* The test that sends a call straight to vm_write.
HasExec(p) == "x" \in p  \* mutated: asks for the wrong bit
HasWrite(p) == "w" \in p

\* getPageInfo of the first page decides between the two ways.
GetInfo(w) ==
  \/ /\ pc[w] = "info"
     /\ LET p == prot[PageOf(req[w].first)] IN
          /\ saved' = [saved EXCEPT ![w] = p]
          /\ pc' = [pc EXCEPT ![w] = IF HasWrite(p) THEN "direct" ELSE "protect"]
     /\ UNCHANGED <<mem, icache, prot, initProt, req, result, refused, lost, wide, calls>>
  \/ Refused(w, "info", "KMS_ERR_GET_PAGEINFO")

PutPage(w) ==  \* mutated: the first page only
  mem' = [a \in Addrs |-> IF a \in Bytes(w) /\ PageOf(a) = PageOf(req[w].first)
                          THEN req[w].value ELSE mem[a]]
Put(w) ==
  mem' = [a \in Addrs |-> IF a \in Bytes(w) THEN req[w].value ELSE mem[a]]

\* mach_vm_write takes the bytes when every page it touches is writable now.
Writable(w) == \A p \in PagesOf(w) : "w" \in prot[p]

\* The page was writable when asked: one write, no flush.
DirectWrite(w) ==
  \/ /\ pc[w] = "direct"
     /\ \/ /\ Writable(w)
           /\ Put(w)
           /\ Finish(w, "KMS_SUCCESS")
           /\ UNCHANGED lost
        \/ /\ ~Writable(w)
           /\ Finish(w, "KMS_ERR_VMWRITE")
           /\ lost' = TRUE
           /\ UNCHANGED mem
     /\ UNCHANGED <<icache, prot, initProt, req, saved, refused, wide, calls>>
  \/ Refused(w, "direct", "KMS_ERR_VMWRITE")

Protect(w) ==
  \/ /\ pc[w] = "protect"
     /\ prot' = [p \in Pages |-> IF p \in Covered(w) THEN RW ELSE prot[p]]
     /\ pc' = [pc EXCEPT ![w] = "write"]
     /\ UNCHANGED <<mem, icache, initProt, req, saved, result, refused, lost, wide, calls>>
  \/ Refused(w, "protect", "KMS_ERR_PROT")

\* A failed write returns at once and leaves the protection as it is.
Write(w) ==
  \/ /\ pc[w] = "write"
     /\ \/ /\ Writable(w)
           /\ Put(w)
           /\ pc' = [pc EXCEPT ![w] = "restore"]
           /\ UNCHANGED <<result, lost>>
        \/ /\ ~Writable(w)
           /\ Finish(w, "KMS_ERR_VMWRITE")
           /\ lost' = TRUE
           /\ UNCHANGED mem
     /\ UNCHANGED <<icache, prot, initProt, req, saved, refused, wide, calls>>
  \/ Refused(w, "write", "KMS_ERR_VMWRITE")

\* What the range gets back: the protection read at the start.
ReadAgain(w) == prot[PageOf(req[w].first)] \* mutated: asks after vm_protect
Restored(w) == saved[w]

Restore(w) ==
  \/ /\ pc[w] = "restore"
     /\ prot' = [p \in Pages |-> IF p \in Covered(w) THEN Restored(w) ELSE prot[p]]
     /\ pc' = [pc EXCEPT ![w] = "flush"]
     /\ UNCHANGED <<mem, icache, initProt, req, saved, result, refused, lost, wide, calls>>
  \/ Refused(w, "restore", "KMS_ERR_PROT")

FlushedFirst(w) == {PageOf(req[w].first)}  \* mutated: ignores the length
Flushed(w) == Covered(w)

\* sys_icache_invalidate over the pages.
Flush(w) ==
  /\ pc[w] = "flush"
  /\ icache' = [a \in Addrs |-> IF PageOf(a) \in Flushed(w) THEN mem[a] ELSE icache[a]]
  /\ Finish(w, "KMS_SUCCESS")
  /\ UNCHANGED <<mem, prot, initProt, req, saved, refused, lost, wide, calls>>

Step(w) == GetInfo(w) \/ DirectWrite(w) \/ Protect(w) \/ Write(w) \/ Restore(w) \/ Flush(w)

Next ==
  \E w \in Writers :
    \/ \E f, l \in Addrs, v \in Values : Call(w, f, l, v)
    \/ Step(w)

Spec == Init /\ [][Next]_vars

-----------------------------------------------------------------------------
Results == {"none", "KMS_SUCCESS", "KMS_ERR_GET_PAGEINFO", "KMS_ERR_PROT", "KMS_ERR_VMWRITE"}

\* Types of memory, pages and calls.
TypeOK ==
  /\ mem \in [Addrs -> Values]
  /\ icache \in [Addrs -> Values]
  /\ prot \in [Pages -> SUBSET {"r", "w", "x"}]
  /\ initProt \in [Pages -> Protections]
  /\ pc \in [Writers -> {"idle", "info", "direct", "protect", "write", "restore", "flush"}]
  /\ req \in [Writers -> [first : Addrs, last : Addrs, value : Values]]
  /\ \A w \in Writers : req[w].first <= req[w].last
  /\ saved \in [Writers -> SUBSET {"r", "w", "x"}]
  /\ \A w \in Writers :
       /\ pc[w] = "direct" => "w" \in saved[w]
       /\ pc[w] \in {"protect", "write", "restore", "flush"} => "w" \notin saved[w]
  /\ result \in [Writers -> Results]
  /\ refused \in BOOLEAN
  /\ lost \in BOOLEAN
  /\ wide \in BOOLEAN
  /\ calls \in 0..MaxCalls

Idle == \A w \in Writers : pc[w] = "idle"
WriteXorExecute == \A p \in Protections : ~({"w", "x"} \subseteq p)
Stale(p) == \E a \in Addrs : PageOf(a) = p /\ icache[a] # mem[a]

\* Where no page starts both writable and executable, an executable page
\* whose cached instructions are out of date is about to be flushed by some
\* call: no interleaving, refusal or unflushed direct write leaves one.
StaleOnlyUntilFlush ==
  WriteXorExecute =>
    \A p \in Pages : ("x" \in prot[p] /\ Stale(p)) =>
      \E w \in Writers : pc[w] = "flush" /\ p \in Covered(w)

\* Where all pages start with one protection and the kernel refuses nothing,
\* every page has it back whenever no call is in progress, however the calls
\* have overlapped; a call of several pages that loses the race for one of
\* them is the exception, for it returns with the others still writable.
ProtectionsReturn ==
  ( /\ Idle
    /\ ~refused
    /\ ~(wide /\ lost)
    /\ \A p, q \in Pages : initProt[p] = initProt[q] )
  => prot = initProt

-----------------------------------------------------------------------------
(* What a caller sees of all this                                          *)

Stage ==
  [w \in Writers |-> CASE pc[w] = "idle" -> "none"
                      [] pc[w] \in {"restore", "flush"} -> "written"
                      [] OTHER -> "asked"]

Service == INSTANCE WriteService WITH stage <- Stage, answer <- result

\* Whatever other calls and refusals come between the kernel calls of a
\* memWrite, its bytes are written all at once and before it answers: where it
\* answers KMS_SUCCESS they were, where it answers KMS_ERR_VMWRITE or
\* KMS_ERR_GET_PAGEINFO they were not.
ImplementsWriteService == Service!Spec

=============================================================================
