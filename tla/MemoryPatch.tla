----------------------------- MODULE MemoryPatch -----------------------------
(***************************************************************************)
(* The patch and backup objects of MemoryPatch.cpp, MemoryBackup.cpp and   *)
(* writeData.hpp, over a memory of Top bytes.                              *)
(*                                                                         *)
(* An object saves the bytes at its target when it is made and writes them *)
(* back on Restore.  Objects know nothing of one another: what several of  *)
(* them on overlapping bytes leave behind depends on the order of calls,   *)
(* on the calls that fail, and on a save that is never checked.  One       *)
(* thread makes the calls; module MemWrite has the steps of one memWrite.  *)
(***************************************************************************)
EXTENDS Integers, Sequences

CONSTANTS
  Objects,    \* the caller's MemoryPatch and MemoryBackup variables
  Top,        \* addresses are 1..Top, 0 is the null address
  Base,       \* number of byte values
  MaxSize,    \* most bytes of one patch
  Image,      \* the bytes before any call
  LoadBases   \* load addresses of an image, 0 when it is not loaded

ASSUME PatchAssumption ==
  /\ Top \in Nat \ {0}
  /\ Base \in Nat \ {0, 1}
  /\ MaxSize \in Nat \ {0}
  /\ LoadBases \subseteq Nat
  /\ Image \in [1..Top -> 0..(Base - 1)]

VARIABLES
  mem,        \* the bytes
  readable,   \* the page that holds the bytes may be read
  obj,        \* the object each variable holds
  older,      \* history: pairs of objects alive, the one made first before the other
  was,        \* history: the bytes at its target at that moment
  applied,    \* history: objects whose last successful call was Modify
  base,       \* history: the bytes under all objects
  doubt,      \* history: addresses a call left in an unreported state
  orderly     \* history: the caller has nested its objects

ghosts == <<older, was, applied, base, doubt, orderly>>
vars == <<mem, readable, obj, ghosts>>

Addr == 1..Top
Byte == 0..(Base - 1)
Codes == UNION {[1..n -> Byte] : n \in 1..MaxSize}

Span(a, n) == a..(a + n - 1)
Bytes(m, a, n) == [i \in 1..n |-> m[a + i - 1]]
Zeros(n) == [i \in 1..n |-> 0]

Empty == [kind |-> "empty", at |-> 0, size |-> 0, orig |-> <<>>, code |-> <<>>]

AlwaysValid(o) == TRUE  \* mutated: an empty object is acted on
\* A backup has no code of its own to compare.
isValid(o) ==
  /\ obj[o].at # 0
  /\ obj[o].size > 0
  /\ Len(obj[o].orig) = obj[o].size
  /\ obj[o].kind = "patch" => Len(obj[o].code) = obj[o].size

Target(o) == Span(obj[o].at, obj[o].size)

Init ==
  /\ mem = Image
  /\ readable = TRUE
  /\ obj = [o \in Objects |-> Empty]
  /\ older = {}
  /\ was = [o \in Objects |-> <<>>]
  /\ applied = {}
  /\ base = Image
  /\ doubt = {}
  /\ orderly = TRUE

-----------------------------------------------------------------------------
(* The memory calls                                                        *)

\* The saved bytes: the vector is zeroed first, and the answer of memRead is
\* not looked at.
SavedShort(a, n) == [i \in 1..n |-> IF i < n THEN mem[a + i - 1] ELSE 0]  \* mutated
Saved(a, n) == IF readable THEN Bytes(mem, a, n) ELSE Zeros(n)

\* memWrite either writes and answers KMS_SUCCESS, or writes nothing, or
\* writes and then fails to put the page protection back; the calls below
\* return true for "done" alone.
Outcomes == {"done", "refused", "unrestored"}

Overwritten(m, a, bytes) ==
  [x \in Addr |-> IF x \in Span(a, Len(bytes)) THEN bytes[x - a + 1] ELSE m[x]]

memWrite(a, bytes, out) ==
  mem' = IF out = "refused" THEN mem ELSE Overwritten(mem, a, bytes)

-----------------------------------------------------------------------------
(* History                                                                 *)

Live(o) == obj[o].kind # "empty"
Older(o, p) == <<o, p>> \in older

\* No object made after o shares a byte with it.
Uppermost(o) ==
  \A p \in Objects : Older(o, p) => Target(p) \cap Target(o) = {}

\* A call that failed leaves its span in doubt; one that worked settles it.
Doubt(span, out) == IF out = "done" THEN doubt \ span ELSE doubt \cup span

-----------------------------------------------------------------------------
(* Making and dropping objects                                             *)

\* The static functions return an empty object for the inputs they refuse.
Make(o, kind, a, size, code) ==
  /\ ~Live(o)
  /\ IF a = 0 \/ size < 1
     THEN UNCHANGED <<obj, older, was, orderly>>
     ELSE /\ Span(a, size) \subseteq Addr
          /\ obj' = [obj EXCEPT ![o] = [kind |-> kind, at |-> a, size |-> size,
                                        orig |-> Saved(a, size), code |-> code]]
          /\ older' = older \cup ({p \in Objects : Live(p)} \X {o})
          /\ was' = [was EXCEPT ![o] = Bytes(mem, a, size)]
          /\ orderly' = (orderly /\ readable /\ Span(a, size) \cap doubt = {})
  /\ UNCHANGED <<mem, readable, applied, base, doubt>>

\* A file name and an offset stand for 0 when the image is not loaded.
getAbsoluteAddress(image, offset) == IF image = 0 THEN 0 ELSE image + offset

\* Where the call aims: an absolute address, or an offset in an image; an
\* offset of zero is refused before the image is looked up.
Targets ==
  Addr \cup {0} \cup {getAbsoluteAddress(image, offset) : image \in LoadBases,
                                                          offset \in Addr}

\* createWithBytes, createWithHex and createWithAsm: the bytes are given,
\* parsed from pairs of digits or assembled; <<>> stands for the inputs
\* ValidateHex or the assembler refuses.
createPatch(o, a, bytes) == Make(o, "patch", a, Len(bytes), bytes)

createBackup(o, a, size) == Make(o, "backup", a, size, <<>>)

\* The caller lets go of an object; its bytes stay as they are.
Drop(o) ==
  /\ Live(o)
  /\ obj' = [obj EXCEPT ![o] = Empty]
  /\ older' = {d \in older : o \notin {d[1], d[2]}}
  /\ was' = [was EXCEPT ![o] = <<>>]
  /\ applied' = applied \ {o}
  /\ orderly' = (orderly /\ o \notin applied /\ Target(o) \cap doubt = {})
  /\ UNCHANGED <<mem, readable, base, doubt>>

-----------------------------------------------------------------------------
(* Modify, Restore, writeData                                              *)

\* An invalid object answers false and touches nothing.
Act(o, bytes, out) ==
  /\ IF isValid(o)
     THEN /\ memWrite(obj[o].at, bytes, out)
          /\ doubt' = Doubt(Target(o), out)
          /\ orderly' = (orderly /\ Uppermost(o))
     ELSE UNCHANGED <<mem, doubt, orderly>>
  /\ UNCHANGED <<readable, obj, older, was, base>>

Modify(o, out) ==
  /\ obj[o].kind # "backup"
  /\ Act(o, obj[o].code, out)
  /\ applied' = IF isValid(o) /\ out = "done" THEN applied \cup {o} ELSE applied

Restore(o, out) ==
  /\ Act(o, obj[o].orig, out)
  /\ applied' = IF isValid(o) /\ out = "done" THEN applied \ {o} ELSE applied

\* The integer is byte-swapped and stored lowest byte first.
Worth == <<1, Base>>  \* what the digits of two bytes are worth
Digit(d, i) == (d \div Worth[i]) % Base
Swapped(d, n) == LET Place(i) == Digit(d, i) * Worth[n - i + 1]
                 IN  IF n = 1 THEN Place(1) ELSE Place(1) + Place(2)
Stored(d, n) == [i \in 1..n |-> Digit(Swapped(d, n), i)]

\* writeData8 and writeData16: a patch made, applied and forgotten.
writeData(a, d, n, out) ==
  /\ IF a = 0
     THEN UNCHANGED <<mem, base, doubt>>
     ELSE /\ Span(a, n) \subseteq Addr
          /\ memWrite(a, Stored(d, n), out)
          /\ LET covered == UNION {Target(o) : o \in {p \in Objects : Live(p)}}
                 free == Span(a, n) \ covered
             IN  /\ base' = [x \in Addr |-> IF x \in free /\ out = "done"
                                            THEN mem'[x] ELSE base[x]]
                 /\ doubt' = IF out = "done"
                             THEN (doubt \ free) \cup (Span(a, n) \cap covered)
                             ELSE doubt \cup Span(a, n)
  /\ UNCHANGED <<readable, obj, older, was, applied, orderly>>

\* The owner of the page changes whether it may be read.
Reprotect ==
  /\ readable' = ~readable
  /\ UNCHANGED <<mem, obj, ghosts>>

Next ==
  \/ \E o \in Objects, a \in Targets, bytes \in Codes \cup {<<>>} :
       createPatch(o, a, bytes)
  \/ \E o \in Objects, a \in Targets, n \in 0..MaxSize : createBackup(o, a, n)
  \/ \E o \in Objects : Drop(o)
  \/ \E o \in Objects, out \in Outcomes : Modify(o, out) \/ Restore(o, out)
  \/ \E a \in Targets, n \in 1..2, out \in Outcomes :
       \E d \in 0..(Base * Worth[n] - 1) : writeData(a, d, n, out)
  \/ Reprotect

Spec == Init /\ [][Next]_vars

-----------------------------------------------------------------------------
(* Properties                                                              *)

\* Types; a live object is valid, and no call succeeds on an empty one.
TypeOK ==
  /\ mem \in [Addr -> Byte]
  /\ base \in [Addr -> Byte]
  /\ readable \in BOOLEAN
  /\ older \subseteq Objects \X Objects
  /\ doubt \subseteq Addr
  /\ applied \subseteq {o \in Objects : obj[o].kind = "patch"}
  /\ \A o \in Objects : Live(o) => isValid(o) /\ Target(o) \subseteq Addr

\* The byte the caller's objects account for: that of the youngest applied
\* object on it, or else the one under them all.
AccountsFor(on, a, v) ==
  IF on = {}
  THEN v = base[a]
  ELSE \E o \in on : /\ \A p \in on : ~Older(o, p)
                     /\ v = obj[o].code[a - obj[o].at + 1]

Applied(a) == {o \in applied : a \in Target(o)}
Accounted(a, v) == AccountsFor(Applied(a), a, v)

\* A caller that nests its objects (saves readable bytes, does not touch an
\* object under a younger one, restores what it drops) always finds the
\* memory its objects account for, in particular the first bytes once all
\* are restored; a failed call that did write, and a writeData over a live
\* object, are made good by the next call that succeeds on it.
NestedPatches == orderly => \A a \in Addr \ doubt : Accounted(a, mem[a])

\* A Restore that answers true gives the bytes back that were at the target
\* when the object was made (MemoryPatch.hpp, "Restores the patch to the
\* original value").
RestoresOriginal ==
  [][\A o \in Objects :
       (Restore(o, "done") /\ isValid(o))
         => Bytes(mem', obj[o].at, obj[o].size) = was[o]]_vars

=============================================================================
