-------------------------- MODULE MemoryPatchProofs --------------------------
(***************************************************************************)
(* Proofs about MemoryPatch: types, and that a caller who nests any number *)
(* of objects always finds the bytes they account for.                     *)
(***************************************************************************)
EXTENDS MemoryPatch, TLAPS

-----------------------------------------------------------------------------
(* The inductive invariant                                                 *)

Kinds == {"empty", "patch", "backup"}
Record == [kind : Kinds, at : Nat, size : Nat, orig : Seq(Byte), code : Seq(Byte)]

ObjectTypes ==
  /\ obj \in [Objects -> Record]
  /\ \A o \in Objects : ~Live(o) => obj[o] = Empty

\* Of two objects alive one was made first, and nobody before himself.
AgeInv ==
  /\ \A o, p \in Objects : Older(o, p) => Live(o) /\ Live(p) /\ ~Older(p, o)
  /\ \A o, p \in Objects : Live(o) /\ Live(p) /\ o # p => Older(o, p) \/ Older(p, o)

\* The objects in force at a when o was made: those applied that are older.
Below(o, a) == {p \in Applied(a) : Older(p, o)}

\* What a live object has saved is what the older ones account for.
SavedInv ==
  orderly => \A o \in Objects : Live(o) =>
    \A a \in Target(o) : AccountsFor(Below(o, a), a, obj[o].orig[a - obj[o].at + 1])

IInv == TypeOK /\ ObjectTypes /\ orderly \in BOOLEAN /\ AgeInv /\ SavedInv /\ NestedPatches

-----------------------------------------------------------------------------
(* Lemmas about the operators                                              *)

\* Addresses a caller can name are numbers.
LEMMA TargetNumbers == Targets \subseteq Nat
  BY PatchAssumption DEF Targets, Addr, getAbsoluteAddress

\* Codes are sequences of bytes.
LEMMA CodeSequences == Codes \cup {<<>>} \subseteq Seq(Byte)
<1>1. ASSUME NEW n \in 1..MaxSize, NEW c \in [1..n -> Byte] PROVE c \in Seq(Byte)
  BY <1>1, PatchAssumption
<1>2. ASSUME NEW c \in Codes PROVE c \in Seq(Byte)
  <2>1. PICK n \in 1..MaxSize : c \in [1..n -> Byte]
    BY <1>2 DEF Codes
  <2> QED
    BY <1>1, <2>1
<1>3. <<>> \in Seq(Byte)
  OBVIOUS
<1> QED
  BY <1>2, <1>3

\* What a write leaves: its bytes on its span, and the others as they were.
LEMMA Overwriting ==
  ASSUME NEW m \in [Addr -> Byte], NEW a \in Nat, NEW bytes \in Seq(Byte)
  PROVE  /\ Overwritten(m, a, bytes) \in [Addr -> Byte]
         /\ \A x \in Addr : x \in Span(a, Len(bytes)) =>
              Overwritten(m, a, bytes)[x] = bytes[x - a + 1]
         /\ \A x \in Addr : x \notin Span(a, Len(bytes)) =>
              Overwritten(m, a, bytes)[x] = m[x]
<1>1. ASSUME NEW x \in Addr, x \in Span(a, Len(bytes)) PROVE bytes[x - a + 1] \in Byte
  <2>1. x - a + 1 \in 1..Len(bytes)
    BY <1>1, PatchAssumption DEF Span, Addr
  <2> QED
    BY <2>1
<1> QED
  BY <1>1 DEF Overwritten

\* What an object saves.
LEMMA Saving ==
  ASSUME mem \in [Addr -> Byte], NEW a \in Nat, NEW n \in Nat, Span(a, n) \subseteq Addr
  PROVE  /\ Saved(a, n) \in Seq(Byte)
         /\ Len(Saved(a, n)) = n
         /\ readable => \A x \in Span(a, n) : Saved(a, n)[x - a + 1] = mem[x]
<1>1. \A i \in 1..n : a + i - 1 \in Addr
  BY DEF Span
<1>2. 0 \in Byte
  BY PatchAssumption DEF Byte
<1>3. Saved(a, n) \in [1..n -> Byte]
  BY <1>1, <1>2 DEF Saved, Bytes, Zeros
<1>4. Saved(a, n) \in Seq(Byte) /\ Len(Saved(a, n)) = n
  BY <1>3
<1>5. ASSUME readable, NEW x \in Span(a, n) PROVE Saved(a, n)[x - a + 1] = mem[x]
  <2>1. x - a + 1 \in 1..n /\ a + (x - a + 1) - 1 = x
    BY DEF Span
  <2> QED
    BY <1>5, <2>1 DEF Saved, Bytes
<1> QED
  BY <1>4, <1>5

\* A number is stored in bytes.
LEMMA Storing ==
  ASSUME NEW n \in 1..2, NEW d \in Nat
  PROVE  Stored(d, n) \in Seq(Byte) /\ Len(Stored(d, n)) = n
<1>1. Base \in Nat /\ Base > 0 /\ Worth[1] \in Nat \ {0} /\ Worth[2] \in Nat \ {0}
  BY PatchAssumption DEF Worth
<1>2. \A e \in Nat, i \in 1..2 : Digit(e, i) \in Byte
  <2>1. ASSUME NEW e \in Nat, NEW i \in 1..2 PROVE Digit(e, i) \in Byte
    <3>1. Worth[i] \in Nat \ {0}
      BY <1>1
    <3>2. e \div Worth[i] \in Nat
      BY <3>1
    <3> QED
      BY <1>1, <3>2 DEF Digit, Byte
  <2> QED
    BY <2>1
<1>3. Swapped(d, n) \in Nat
  <2> DEFINE Place(i) == Digit(d, i) * Worth[n - i + 1]
  <2>1. \A i \in 1..n : n - i + 1 \in 1..2 /\ Digit(d, i) \in Nat /\ Worth[n - i + 1] \in Nat
    BY <1>1, <1>2 DEF Byte
  <2>2. \A i \in 1..n : Place(i) \in Nat
    BY <2>1
  <2> HIDE DEF Place
  <2>3. n = 2 => 2 \in 1..n
    OBVIOUS
  <2>4. Swapped(d, n) = IF n = 1 THEN Place(1) ELSE Place(1) + Place(2)
    BY DEF Swapped, Place
  <2> QED
    BY <2>2, <2>3, <2>4
<1>4. Stored(d, n) \in [1..n -> Byte]
  BY <1>2, <1>3 DEF Stored
<1> QED
  BY <1>4

\* A valid object is alive; it lies in memory, as long as what it has saved
\* and, if it is a patch, as its code.
LEMMA ValidObject ==
  ASSUME IInv, NEW o \in Objects
  PROVE  /\ isValid(o) <=> Live(o)
         /\ obj[o] \in Record
         /\ Live(o) => /\ Target(o) \subseteq Addr
                       /\ Len(obj[o].orig) = obj[o].size
                       /\ obj[o].kind = "patch" => Len(obj[o].code) = obj[o].size
<1>1. Live(o) => isValid(o) /\ Target(o) \subseteq Addr
  BY DEF IInv, TypeOK
<1>2. ~Live(o) => obj[o].at = 0
  BY DEF IInv, ObjectTypes, Empty
<1>3. ~Live(o) => ~isValid(o)
  BY <1>2 DEF isValid
<1>4. isValid(o) => /\ Len(obj[o].orig) = obj[o].size
                    /\ obj[o].kind = "patch" => Len(obj[o].code) = obj[o].size
  BY DEF isValid
<1> QED
  BY <1>1, <1>3, <1>4 DEF IInv, ObjectTypes

\* AccountsFor in the next state, for objects named in this one.
AccountsAfter(on, a, v) ==
  IF on = {}
  THEN v = base'[a]
  ELSE \E o \in on : /\ \A p \in on : <<o, p>> \notin older'
                     /\ v = obj'[o].code[a - obj'[o].at + 1]

\* What objects account for depends on them, their order and the base alone.
LEMMA SameAccounts ==
  ASSUME NEW on, NEW x, NEW v,
         base'[x] = base[x],
         \A p \in on : obj'[p] = obj[p],
         \A p, q \in on : Older(p, q)' <=> Older(p, q)
  PROVE  AccountsAfter(on, x, v) <=> AccountsFor(on, x, v)
  BY DEF AccountsFor, AccountsAfter, Older

\* Applied objects are alive.
LEMMA AppliedLive ==
  ASSUME IInv, NEW x, NEW p \in Applied(x)
  PROVE  p \in Objects /\ p \in applied /\ Live(p) /\ x \in Target(p)
  BY DEF IInv, TypeOK, Applied, Live

LEMMA InitInv == Init => IInv
<1> SUFFICES ASSUME Init PROVE IInv
  OBVIOUS
<1>1. Empty \in Record
  BY DEF Empty, Record, Kinds
<1>2. \A o \in Objects : obj[o] = Empty /\ ~Live(o)
  BY DEF Init, Live, Empty
<1>3. TypeOK /\ ObjectTypes /\ orderly \in BOOLEAN
  BY <1>1, <1>2, PatchAssumption DEF Init, TypeOK, ObjectTypes, Addr, Byte
<1>4. AgeInv
  BY <1>2 DEF Init, AgeInv, Older
<1>5. SavedInv
  BY <1>2 DEF SavedInv
<1>6. NestedPatches
  BY DEF Init, NestedPatches, Accounted, AccountsFor, Applied
<1> QED
  BY <1>3, <1>4, <1>5, <1>6 DEF IInv

LEMMA StutterStep ==
  ASSUME IInv, UNCHANGED vars
  PROVE  IInv'
<1>1. \A o \in Objects : (isValid(o)' <=> isValid(o)) /\ Target(o)' = Target(o) /\ (Live(o)' <=> Live(o))
  BY DEF vars, isValid, Target, Live
<1>2. \A o, p : Older(o, p)' <=> Older(o, p)
  BY DEF vars, ghosts, Older
<1>3. \A x : Applied(x)' = Applied(x)
  BY DEF Applied, Target, vars, ghosts
<1>4. \A o, x : Below(o, x)' = Below(o, x)
  BY <1>2, <1>3 DEF Below
<1>5. \A on, x, v : AccountsAfter(on, x, v) <=> AccountsFor(on, x, v)
  BY DEF AccountsFor, AccountsAfter, Older, vars, ghosts
<1>6. TypeOK' /\ ObjectTypes' /\ orderly' \in BOOLEAN /\ AgeInv'
  BY <1>1, <1>2 DEF IInv, TypeOK, ObjectTypes, AgeInv, vars, ghosts
<1>7. SavedInv'
  <2> SUFFICES ASSUME orderly', NEW q \in Objects, Live(q)', NEW x \in Target(q)'
               PROVE  AccountsAfter(Below(q, x)', x, obj'[q].orig[x - obj'[q].at + 1])
    BY DEF SavedInv, AccountsFor, AccountsAfter, Older
  <2>1. AccountsFor(Below(q, x), x, obj[q].orig[x - obj[q].at + 1])
    BY <1>1 DEF IInv, SavedInv, vars, ghosts
  <2> QED
    BY <1>4, <1>5, <2>1 DEF vars
<1>8. NestedPatches'
  <2> SUFFICES ASSUME orderly', NEW x \in Addr \ doubt'
               PROVE  AccountsAfter(Applied(x)', x, mem'[x])
    BY DEF NestedPatches, Accounted, AccountsFor, AccountsAfter, Older
  <2>1. AccountsFor(Applied(x), x, mem[x])
    BY DEF IInv, NestedPatches, Accounted, vars, ghosts
  <2> QED
    BY <1>3, <1>5, <2>1 DEF vars
<1> QED
  BY <1>6, <1>7, <1>8 DEF IInv

-----------------------------------------------------------------------------
(* The steps                                                               *)

\* An object is made over bytes that are accounted for, above all others.
LEMMA MakeStep ==
  ASSUME IInv, NEW o \in Objects, NEW kind \in {"patch", "backup"}, NEW a \in Nat,
         NEW code \in Seq(Byte), NEW size \in Nat,
         kind = "patch" => Len(code) = size,
         Make(o, kind, a, size, code)
  PROVE  IInv'
<1>0. CASE a = 0 \/ size < 1
  <2>1. UNCHANGED vars
    BY <1>0 DEF Make, vars, ghosts
  <2> QED
    BY <2>1, StutterStep
<1>1. CASE ~(a = 0 \/ size < 1)
  <2> DEFINE new == [kind |-> kind, at |-> a, size |-> size,
                     orig |-> Saved(a, size), code |-> code]
  <2>1. /\ ~Live(o)
        /\ Span(a, size) \subseteq Addr
        /\ obj' = [obj EXCEPT ![o] = new]
        /\ older' = older \cup ({p \in Objects : Live(p)} \X {o})
        /\ orderly' = (orderly /\ readable /\ Span(a, size) \cap doubt = {})
        /\ UNCHANGED <<mem, readable, applied, base, doubt>>
    BY <1>1 DEF Make
  <2>2. /\ Saved(a, size) \in Seq(Byte) /\ Len(Saved(a, size)) = size
        /\ readable => \A x \in Span(a, size) : Saved(a, size)[x - a + 1] = mem[x]
    BY <2>1, Saving DEF IInv, TypeOK
  <2>3. new \in Record /\ new.kind # "empty"
    BY <2>2 DEF Record, Kinds
  <2>4. /\ obj \in [Objects -> Record]
        /\ obj' \in [Objects -> Record]
        /\ obj'[o] = new
        /\ \A p \in Objects \ {o} : obj'[p] = obj[p]
    BY <2>1, <2>3 DEF IInv, ObjectTypes
  <2> HIDE DEF new
  <2>5. /\ Live(o)' /\ Target(o)' = Span(a, size)
        /\ \A p \in Objects \ {o} : (Live(p)' <=> Live(p)) /\ Target(p)' = Target(p)
                                    /\ (isValid(p)' <=> isValid(p))
    BY <2>3, <2>4 DEF Live, Target, isValid, new
  <2>6. isValid(o)'
    BY <1>1, <2>2, <2>4 DEF isValid, new
  <2>7. o \notin applied /\ applied \subseteq Objects
    BY <2>1 DEF IInv, TypeOK, Live
  <2>8. \A p, q \in Objects : Older(p, q)' <=> Older(p, q) \/ (Live(p) /\ q = o)
    BY <2>1 DEF Older
  <2>9. \A x : Applied(x)' = Applied(x)
    BY <2>1, <2>5, <2>7 DEF Applied
  <2>10. \A on, x, v : on \subseteq Objects \ {o} =>
           (AccountsAfter(on, x, v) <=> AccountsFor(on, x, v))
    <3>1. ASSUME NEW on, NEW x, NEW v, on \subseteq Objects \ {o}
          PROVE  AccountsAfter(on, x, v) <=> AccountsFor(on, x, v)
      <4>1. base'[x] = base[x] /\ \A p \in on : obj'[p] = obj[p]
        BY <2>1, <2>4, <3>1
      <4>2. \A p, q \in on : Older(p, q)' <=> Older(p, q)
        BY <2>8, <3>1
      <4> QED
        BY <4>1, <4>2, SameAccounts
    <3> QED
      BY <3>1
  <2>11. \A x : Applied(x) \subseteq Objects \ {o}
    BY <2>7 DEF Applied
  <2>12. TypeOK'
    <3>1. older' \subseteq Objects \X Objects
      BY <2>1 DEF IInv, TypeOK
    <3>2. applied' \subseteq {p \in Objects : obj'[p].kind = "patch"}
      BY <2>1, <2>4, <2>7 DEF IInv, TypeOK
    <3>3. \A p \in Objects : Live(p)' => isValid(p)' /\ Target(p)' \subseteq Addr
      BY <2>1, <2>5, <2>6 DEF IInv, TypeOK
    <3> QED
      BY <2>1, <3>1, <3>2, <3>3 DEF IInv, TypeOK
  <2>13. ObjectTypes' /\ orderly' \in BOOLEAN
    BY <2>1, <2>4, <2>5 DEF IInv, ObjectTypes
  <2>14. AgeInv'
    BY <2>1, <2>5, <2>8 DEF IInv, AgeInv
  <2>15. SavedInv'
    <3> SUFFICES ASSUME orderly', NEW q \in Objects, Live(q)', NEW x \in Target(q)'
                 PROVE  AccountsAfter(Below(q, x)', x, obj'[q].orig[x - obj'[q].at + 1])
      BY DEF SavedInv, AccountsFor, AccountsAfter, Older
    <3>1. Below(q, x)' = {p \in Applied(x) : Older(p, q)'}
      BY <2>9 DEF Below
    <3>2. CASE q = o
      <4>1. Below(q, x)' = Applied(x)
        BY <2>8, <2>11, <3>1, <3>2, AppliedLive
      <4>2. x \in Addr \ doubt /\ x \in Span(a, size) /\ readable /\ orderly
        BY <2>1, <2>5, <3>2
      <4>3. obj'[q].orig[x - obj'[q].at + 1] = mem[x]
        BY <2>2, <2>4, <3>2, <4>2 DEF new
      <4>4. AccountsFor(Applied(x), x, mem[x])
        BY <4>2 DEF IInv, NestedPatches, Accounted
      <4> QED
        BY <2>1, <2>10, <2>11, <4>1, <4>3, <4>4
    <3>3. CASE q # o
      <4>1. Below(q, x)' = Below(q, x) /\ Below(q, x) \subseteq Objects \ {o}
        BY <2>8, <2>11, <3>1, <3>3 DEF Below
      <4>2. x \in Target(q) /\ Live(q) /\ obj'[q] = obj[q] /\ orderly
        BY <2>1, <2>4, <2>5, <3>3
      <4>3. AccountsFor(Below(q, x), x, obj[q].orig[x - obj[q].at + 1])
        BY <4>2 DEF IInv, SavedInv
      <4> QED
        BY <2>10, <4>1, <4>2, <4>3
    <3> QED
      BY <3>2, <3>3
  <2>16. NestedPatches'
    <3> SUFFICES ASSUME orderly', NEW x \in Addr \ doubt'
                 PROVE  AccountsAfter(Applied(x)', x, mem'[x])
      BY DEF NestedPatches, Accounted, AccountsFor, AccountsAfter, Older
    <3>1. AccountsFor(Applied(x), x, mem[x])
      BY <2>1 DEF IInv, NestedPatches, Accounted
    <3> QED
      BY <2>1, <2>9, <2>10, <2>11, <3>1
  <2> QED
    BY <2>12, <2>13, <2>14, <2>15, <2>16 DEF IInv
<1> QED
  BY <1>0, <1>1

\* An object goes; the caller nests only if it was not in force.
LEMMA DropStep ==
  ASSUME IInv, NEW o \in Objects, Drop(o)
  PROVE  IInv'
<1>1. /\ Live(o)
      /\ obj' = [obj EXCEPT ![o] = Empty]
      /\ older' = {d \in older : o \notin {d[1], d[2]}}
      /\ applied' = applied \ {o}
      /\ orderly' = (orderly /\ o \notin applied /\ Target(o) \cap doubt = {})
      /\ UNCHANGED <<mem, readable, base, doubt>>
  BY DEF Drop
<1>2. /\ obj \in [Objects -> Record]
      /\ obj' \in [Objects -> Record]
      /\ obj'[o] = Empty
      /\ \A p \in Objects \ {o} : obj'[p] = obj[p]
  <2>1. Empty \in Record
    BY DEF Empty, Record, Kinds
  <2> QED
    BY <1>1, <2>1 DEF IInv, ObjectTypes
<1>3. /\ ~Live(o)'
      /\ \A p \in Objects \ {o} : (Live(p)' <=> Live(p)) /\ Target(p)' = Target(p)
                                  /\ (isValid(p)' <=> isValid(p))
  BY <1>2 DEF Live, Target, isValid, Empty
<1>4. \A p, q \in Objects : Older(p, q)' <=> Older(p, q) /\ p # o /\ q # o
  BY <1>1 DEF Older
<1>5. TypeOK'
  <2>1. older' \subseteq Objects \X Objects
    BY <1>1 DEF IInv, TypeOK
  <2>2. applied' \subseteq {p \in Objects : obj'[p].kind = "patch"}
    BY <1>1, <1>2 DEF IInv, TypeOK
  <2>3. \A p \in Objects : Live(p)' => isValid(p)' /\ Target(p)' \subseteq Addr
    BY <1>3 DEF IInv, TypeOK
  <2> QED
    BY <1>1, <2>1, <2>2, <2>3 DEF IInv, TypeOK
<1>6. ObjectTypes' /\ orderly' \in BOOLEAN
  BY <1>1, <1>2, <1>3 DEF IInv, ObjectTypes
<1>7. AgeInv'
  BY <1>3, <1>4 DEF IInv, AgeInv
<1>8. ASSUME orderly'
      PROVE  /\ orderly
             /\ \A x : Applied(x)' = Applied(x) /\ Applied(x) \subseteq Objects \ {o}
             /\ \A on, x, v : on \subseteq Objects \ {o} =>
                  (AccountsAfter(on, x, v) <=> AccountsFor(on, x, v))
  <2>1. orderly /\ o \notin applied /\ applied' = applied /\ applied \subseteq Objects
    BY <1>1, <1>8 DEF IInv, TypeOK
  <2>2. \A x : Applied(x)' = Applied(x) /\ Applied(x) \subseteq Objects \ {o}
    BY <1>3, <2>1 DEF Applied
  <2>3. ASSUME NEW on, NEW x, NEW v, on \subseteq Objects \ {o}
        PROVE  AccountsAfter(on, x, v) <=> AccountsFor(on, x, v)
    <3>1. base'[x] = base[x] /\ \A p \in on : obj'[p] = obj[p]
      BY <1>1, <1>2, <2>3
    <3>2. \A p, q \in on : Older(p, q)' <=> Older(p, q)
      BY <1>4, <2>3
    <3> QED
      BY <3>1, <3>2, SameAccounts
  <2> QED
    BY <2>1, <2>2, <2>3
<1>9. SavedInv'
  <2> SUFFICES ASSUME orderly', NEW q \in Objects, Live(q)', NEW x \in Target(q)'
               PROVE  AccountsAfter(Below(q, x)', x, obj'[q].orig[x - obj'[q].at + 1])
    BY DEF SavedInv, AccountsFor, AccountsAfter, Older
  <2>1. q # o /\ Live(q) /\ x \in Target(q) /\ obj'[q] = obj[q] /\ orderly
    BY <1>2, <1>3, <1>8
  <2>2. Below(q, x)' = Below(q, x) /\ Below(q, x) \subseteq Objects \ {o}
    BY <1>4, <1>8, <2>1 DEF Below
  <2>3. AccountsFor(Below(q, x), x, obj[q].orig[x - obj[q].at + 1])
    BY <2>1 DEF IInv, SavedInv
  <2> QED
    BY <1>8, <2>1, <2>2, <2>3
<1>10. NestedPatches'
  <2> SUFFICES ASSUME orderly', NEW x \in Addr \ doubt'
               PROVE  AccountsAfter(Applied(x)', x, mem'[x])
    BY DEF NestedPatches, Accounted, AccountsFor, AccountsAfter, Older
  <2>1. AccountsFor(Applied(x), x, mem[x])
    BY <1>1 DEF IInv, NestedPatches, Accounted
  <2> QED
    BY <1>1, <1>8, <2>1
<1> QED
  BY <1>5, <1>6, <1>7, <1>9, <1>10 DEF IInv

\* What a call on a valid object does, but for the objects that are in force
\* afterwards: with nothing above it, it settles its span or leaves it in doubt.
LEMMA Acting ==
  ASSUME IInv, NEW o \in Objects, NEW bytes \in Seq(Byte), NEW out \in Outcomes,
         isValid(o), Len(bytes) = obj[o].size, Act(o, bytes, out)
  PROVE  /\ mem' \in [Addr -> Byte]
         /\ doubt' \subseteq Addr
         /\ orderly' = (orderly /\ Uppermost(o))
         /\ UNCHANGED <<readable, obj, older, was, base>>
         /\ \A x \in Addr \ doubt' : x \notin Target(o) => x \notin doubt /\ mem'[x] = mem[x]
         /\ \A x \in Target(o) : IF out = "done" THEN mem'[x] = bytes[x - obj[o].at + 1]
                                                 ELSE x \in doubt'
<1>1. /\ mem' = IF out = "refused" THEN mem ELSE Overwritten(mem, obj[o].at, bytes)
      /\ doubt' = Doubt(Target(o), out)
      /\ orderly' = (orderly /\ Uppermost(o))
      /\ UNCHANGED <<readable, obj, older, was, base>>
  BY DEF Act, memWrite
<1>2. /\ mem \in [Addr -> Byte] /\ doubt \subseteq Addr
      /\ Target(o) \subseteq Addr /\ obj[o].at \in Nat
      /\ Target(o) = Span(obj[o].at, Len(bytes))
  BY ValidObject DEF IInv, TypeOK, Target, Record
<1>3. /\ Overwritten(mem, obj[o].at, bytes) \in [Addr -> Byte]
      /\ \A x \in Addr : x \in Target(o) =>
           Overwritten(mem, obj[o].at, bytes)[x] = bytes[x - obj[o].at + 1]
      /\ \A x \in Addr : x \notin Target(o) => Overwritten(mem, obj[o].at, bytes)[x] = mem[x]
  BY <1>2, Overwriting
<1>4. /\ out = "done" => doubt' = doubt \ Target(o)
      /\ out # "done" => doubt' = doubt \cup Target(o)
  BY <1>1 DEF Doubt
<1> QED
  BY <1>1, <1>2, <1>3, <1>4

\* Nothing depends on what memory holds but the last of the invariants, and
\* that, with nothing above the object, on its span alone.
LEMMA ActStep ==
  ASSUME IInv, NEW o \in Objects, NEW bytes \in Seq(Byte), NEW out \in Outcomes,
         isValid(o), Len(bytes) = obj[o].size, Act(o, bytes, out),
         applied' \subseteq {p \in Objects : obj[p].kind = "patch"},
         applied' \ {o} = applied \ {o},
         out # "done" => applied' = applied,
         \A x \in Target(o) : orderly' /\ out = "done" =>
           AccountsAfter(Applied(x)', x, bytes[x - obj[o].at + 1])
  PROVE  IInv'
<1>1. /\ mem' \in [Addr -> Byte]
      /\ doubt' \subseteq Addr
      /\ orderly' = (orderly /\ Uppermost(o))
      /\ UNCHANGED <<readable, obj, older, was, base>>
      /\ \A x \in Addr \ doubt' : x \notin Target(o) => x \notin doubt /\ mem'[x] = mem[x]
      /\ \A x \in Target(o) : IF out = "done" THEN mem'[x] = bytes[x - obj[o].at + 1]
                                              ELSE x \in doubt'
  BY Acting
<1>2. \A p \in Objects : (Live(p)' <=> Live(p)) /\ Target(p)' = Target(p) /\ (isValid(p)' <=> isValid(p))
  BY <1>1 DEF Live, Target, isValid
<1>3. \A p, q : Older(p, q)' <=> Older(p, q)
  BY <1>1 DEF Older
<1>4. \A on, x, v : AccountsAfter(on, x, v) <=> AccountsFor(on, x, v)
  BY <1>1 DEF AccountsFor, AccountsAfter, Older
<1>5. applied \subseteq Objects /\ applied' \subseteq Objects
  BY DEF IInv, TypeOK
<1>6. \A x : x \notin Target(o) => Applied(x)' = Applied(x)
  BY <1>2, <1>5 DEF Applied
<1>7. TypeOK'
  BY <1>1, <1>2 DEF IInv, TypeOK
<1>8. ObjectTypes' /\ orderly' \in BOOLEAN /\ AgeInv'
  BY <1>1, <1>2, <1>3 DEF IInv, ObjectTypes, AgeInv
<1>9. SavedInv'
  <2> SUFFICES ASSUME orderly', NEW q \in Objects, Live(q)', NEW x \in Target(q)'
               PROVE  AccountsAfter(Below(q, x)', x, obj'[q].orig[x - obj'[q].at + 1])
    BY DEF SavedInv, AccountsFor, AccountsAfter, Older
  <2>1. Live(q) /\ x \in Target(q) /\ obj'[q] = obj[q] /\ orderly /\ Uppermost(o)
    BY <1>1, <1>2
  <2>2. x \in Target(o) => ~Older(o, q)
    BY <2>1 DEF Uppermost
  <2>3. Below(q, x)' = Below(q, x)
    BY <1>2, <1>3, <1>5, <1>6, <2>2 DEF Below, Applied
  <2>4. AccountsFor(Below(q, x), x, obj[q].orig[x - obj[q].at + 1])
    BY <2>1 DEF IInv, SavedInv
  <2> QED
    BY <1>4, <2>1, <2>3, <2>4
<1>10. NestedPatches'
  <2> SUFFICES ASSUME orderly', NEW x \in Addr \ doubt'
               PROVE  AccountsAfter(Applied(x)', x, mem'[x])
    BY <1>1 DEF NestedPatches, Accounted, AccountsFor, AccountsAfter, Older
  <2>1. CASE x \in Target(o)
    <3>1. out = "done" /\ mem'[x] = bytes[x - obj[o].at + 1]
      BY <1>1, <2>1
    <3> QED
      BY <2>1, <3>1
  <2>2. CASE x \notin Target(o)
    <3>1. x \notin doubt /\ mem'[x] = mem[x] /\ orderly
      BY <1>1, <2>2
    <3>2. AccountsFor(Applied(x), x, mem[x])
      BY <3>1 DEF IInv, NestedPatches, Accounted
    <3> QED
      BY <1>4, <1>6, <2>2, <3>1, <3>2
  <2> QED
    BY <2>1, <2>2
<1> QED
  BY <1>7, <1>8, <1>9, <1>10 DEF IInv

\* A call on an object that is not valid does nothing.
LEMMA ActEmpty ==
  ASSUME IInv, NEW o, NEW bytes, NEW out, ~isValid(o), Act(o, bytes, out), applied' = applied
  PROVE  IInv'
<1>1. UNCHANGED vars
  BY DEF Act, vars, ghosts
<1> QED
  BY <1>1, StutterStep

LEMMA ModifyStep ==
  ASSUME IInv, NEW o \in Objects, NEW out \in Outcomes, Modify(o, out)
  PROVE  IInv'
<1>1. Act(o, obj[o].code, out) /\ obj[o].kind # "backup"
      /\ applied' = IF isValid(o) /\ out = "done" THEN applied \cup {o} ELSE applied
  BY DEF Modify
<1>2. CASE ~isValid(o)
  BY <1>1, <1>2, ActEmpty
<1>3. CASE isValid(o)
  <2>1. /\ obj[o] \in Record /\ Live(o)
        /\ obj[o].kind = "patch"
        /\ Len(obj[o].code) = obj[o].size /\ obj[o].code \in Seq(Byte)
    BY <1>1, <1>3, ValidObject DEF Record, Kinds, Live
  <2>2. /\ orderly' = (orderly /\ Uppermost(o))
        /\ UNCHANGED <<obj, older, base>>
    BY <1>1, <1>3, <2>1, Acting
  <2>3. ASSUME NEW x \in Target(o), orderly', out = "done"
        PROVE  AccountsAfter(Applied(x)', x, obj[o].code[x - obj[o].at + 1])
    <3>1. applied' = applied \cup {o} /\ Uppermost(o)
      BY <1>1, <1>3, <2>2, <2>3
    <3>2. o \in Applied(x)' /\ Applied(x)' \subseteq Objects
      BY <2>2, <2>3, <3>1 DEF Applied, Target, IInv, TypeOK
    <3>3. \A p \in Applied(x)' : x \in Target(p)
      BY <2>2 DEF Applied, Target
    <3>4. \A p \in Applied(x)' : ~Older(o, p)
      BY <2>3, <3>1, <3>2, <3>3 DEF Uppermost
    <3> QED
      BY <2>2, <3>2, <3>4 DEF AccountsAfter, Older
  <2> QED
    BY <1>1, <1>3, <2>1, <2>3, ActStep DEF IInv, TypeOK
<1> QED
  BY <1>2, <1>3

LEMMA RestoreStep ==
  ASSUME IInv, NEW o \in Objects, NEW out \in Outcomes, Restore(o, out)
  PROVE  IInv'
<1>1. Act(o, obj[o].orig, out)
      /\ applied' = IF isValid(o) /\ out = "done" THEN applied \ {o} ELSE applied
  BY DEF Restore
<1>2. CASE ~isValid(o)
  BY <1>1, <1>2, ActEmpty
<1>3. CASE isValid(o)
  <2>1. /\ obj[o] \in Record /\ Live(o)
        /\ Len(obj[o].orig) = obj[o].size /\ obj[o].orig \in Seq(Byte)
    BY <1>1, <1>3, ValidObject DEF Record
  <2>2. /\ orderly' = (orderly /\ Uppermost(o))
        /\ UNCHANGED <<obj, older, base>>
    BY <1>1, <1>3, <2>1, Acting
  <2>3. ASSUME NEW x \in Target(o), orderly', out = "done"
        PROVE  AccountsAfter(Applied(x)', x, obj[o].orig[x - obj[o].at + 1])
    <3>1. applied' = applied \ {o} /\ Uppermost(o) /\ orderly
      BY <1>1, <1>3, <2>2, <2>3
    <3>2. Applied(x)' = Applied(x) \ {o}
      BY <2>2, <3>1 DEF Applied, Target
    <3>3. \A p \in Applied(x) \ {o} : Older(p, o)
      <4> SUFFICES ASSUME NEW p \in Applied(x), p # o PROVE Older(p, o)
        OBVIOUS
      <4>1. p \in Objects /\ Live(p) /\ x \in Target(p)
        BY AppliedLive
      <4>2. ~Older(o, p)
        BY <2>3, <3>1, <4>1 DEF Uppermost
      <4> QED
        BY <2>1, <4>1, <4>2 DEF IInv, AgeInv
    <3>4. ~Older(o, o)
      BY DEF IInv, AgeInv
    <3>5. Applied(x)' = Below(o, x)
      BY <3>2, <3>3, <3>4 DEF Below
    <3>6. AccountsFor(Below(o, x), x, obj[o].orig[x - obj[o].at + 1])
      BY <2>1, <2>3, <3>1 DEF IInv, SavedInv
    <3> QED
      BY <2>2, <3>5, <3>6 DEF AccountsFor, AccountsAfter, Older
  <2> QED
    BY <1>1, <1>3, <2>1, <2>3, ActStep DEF IInv, TypeOK
<1> QED
  BY <1>2, <1>3

\* A patch made, applied and forgotten: it is part of what lies under all
\* objects where none is, and leaves what lies under one in doubt.
LEMMA WriteStep ==
  ASSUME IInv, NEW a \in Nat, NEW n \in 1..2, NEW d \in Nat, NEW out \in Outcomes,
         writeData(a, d, n, out)
  PROVE  IInv'
<1>0. CASE a = 0
  <2>1. UNCHANGED vars
    BY <1>0 DEF writeData, vars, ghosts
  <2> QED
    BY <2>1, StutterStep
<1>1. CASE a # 0
  <2> DEFINE covered == UNION {Target(o) : o \in {p \in Objects : Live(p)}}
             free == Span(a, n) \ covered
  <2>1. /\ Span(a, n) \subseteq Addr
        /\ mem' = IF out = "refused" THEN mem ELSE Overwritten(mem, a, Stored(d, n))
        /\ base' = [x \in Addr |-> IF x \in free /\ out = "done" THEN mem'[x] ELSE base[x]]
        /\ doubt' = IF out = "done" THEN (doubt \ free) \cup (Span(a, n) \cap covered)
                                    ELSE doubt \cup Span(a, n)
        /\ UNCHANGED <<readable, obj, older, was, applied, orderly>>
    BY <1>1 DEF writeData, memWrite
  <2>2. \A x : x \in covered <=> \E o \in Objects : Live(o) /\ x \in Target(o)
    OBVIOUS
  <2> HIDE DEF covered
  <2>3. Stored(d, n) \in Seq(Byte) /\ Len(Stored(d, n)) = n
    BY Storing
  <2>4. mem \in [Addr -> Byte] /\ base \in [Addr -> Byte] /\ doubt \subseteq Addr
    BY DEF IInv, TypeOK
  <2>5. /\ Overwritten(mem, a, Stored(d, n)) \in [Addr -> Byte]
        /\ \A x \in Addr : x \notin Span(a, n) => Overwritten(mem, a, Stored(d, n))[x] = mem[x]
    BY <2>3, <2>4, Overwriting
  <2>6. mem' \in [Addr -> Byte] /\ \A x \in Addr : x \notin Span(a, n) => mem'[x] = mem[x]
    BY <2>1, <2>4, <2>5
  <2>7. base' \in [Addr -> Byte] /\ doubt' \subseteq Addr
    BY <2>1, <2>4, <2>6
  <2>8. \A o \in Objects : (Live(o)' <=> Live(o)) /\ Target(o)' = Target(o)
                           /\ (isValid(o)' <=> isValid(o))
    BY <2>1 DEF Live, Target, isValid
  <2>9. \A o, p : Older(o, p)' <=> Older(o, p)
    BY <2>1 DEF Older
  <2>10. applied \subseteq Objects
    BY DEF IInv, TypeOK
  <2>11. \A x : Applied(x)' = Applied(x)
    BY <2>1, <2>8, <2>10 DEF Applied
  <2>12. \A on, x, v : base'[x] = base[x] => (AccountsAfter(on, x, v) <=> AccountsFor(on, x, v))
    BY <2>1 DEF AccountsFor, AccountsAfter, Older
  <2>13. TypeOK'
    BY <2>1, <2>6, <2>7, <2>8 DEF IInv, TypeOK
  <2>14. ObjectTypes' /\ orderly' \in BOOLEAN /\ AgeInv'
    BY <2>1, <2>8, <2>9 DEF IInv, ObjectTypes, AgeInv
  <2>15. SavedInv'
    <3> SUFFICES ASSUME orderly', NEW q \in Objects, Live(q)', NEW x \in Target(q)'
                 PROVE  AccountsAfter(Below(q, x)', x, obj'[q].orig[x - obj'[q].at + 1])
      BY DEF SavedInv, AccountsFor, AccountsAfter, Older
    <3>1. Live(q) /\ x \in Target(q) /\ x \in Addr
      BY <2>8 DEF IInv, TypeOK
    <3>2. base'[x] = base[x]
      BY <2>1, <2>2, <3>1
    <3>3. Below(q, x)' = Below(q, x)
      BY <2>9, <2>11 DEF Below
    <3>4. AccountsFor(Below(q, x), x, obj[q].orig[x - obj[q].at + 1])
      BY <2>1, <3>1 DEF IInv, SavedInv
    <3> QED
      BY <2>1, <2>12, <3>2, <3>3, <3>4
  <2>16. NestedPatches'
    <3> SUFFICES ASSUME orderly', NEW x \in Addr \ doubt'
                 PROVE  AccountsAfter(Applied(x)', x, mem'[x])
      BY DEF NestedPatches, Accounted, AccountsFor, AccountsAfter, Older
    <3>1. CASE x \in Span(a, n)
      <4>1. out = "done" /\ x \in free
        BY <2>1, <3>1
      <4>2. Applied(x) = {}
        BY <2>2, <4>1, AppliedLive
      <4>3. base'[x] = mem'[x]
        BY <2>1, <4>1
      <4> QED
        BY <2>11, <4>2, <4>3 DEF AccountsAfter
    <3>2. CASE x \notin Span(a, n)
      <4>1. x \notin doubt /\ mem'[x] = mem[x] /\ base'[x] = base[x] /\ orderly
        BY <2>1, <2>6, <3>2
      <4>2. AccountsFor(Applied(x), x, mem[x])
        BY <4>1 DEF IInv, NestedPatches, Accounted
      <4> QED
        BY <2>11, <2>12, <4>1, <4>2
    <3> QED
      BY <3>1, <3>2
  <2> QED
    BY <2>13, <2>14, <2>15, <2>16 DEF IInv
<1> QED
  BY <1>0, <1>1

\* Whether the page may be read matters to the next save alone.
LEMMA ReprotectStep ==
  ASSUME IInv, Reprotect
  PROVE  IInv'
<1>1. readable' = ~readable /\ UNCHANGED <<mem, obj, ghosts>>
  BY DEF Reprotect
<1>2. TypeOK'
  BY <1>1 DEF IInv, TypeOK, ghosts, Live, isValid, Target
<1>3. ObjectTypes' /\ orderly' \in BOOLEAN /\ AgeInv'
  BY <1>1 DEF IInv, ObjectTypes, AgeInv, Live, Older, ghosts
<1>4. SavedInv'
  BY <1>1 DEF IInv, SavedInv, Live, Target, Below, Applied, Older, AccountsFor, ghosts
<1>5. NestedPatches'
  BY <1>1 DEF IInv, NestedPatches, Accounted, Applied, Target, Older, AccountsFor, ghosts
<1> QED
  BY <1>2, <1>3, <1>4, <1>5 DEF IInv

LEMMA StepInv ==
  ASSUME IInv, [Next]_vars
  PROVE  IInv'
<1>1. ASSUME NEW o \in Objects, NEW a \in Targets, NEW bytes \in Codes \cup {<<>>},
             createPatch(o, a, bytes)
      PROVE  IInv'
  <2>1. a \in Nat /\ bytes \in Seq(Byte) /\ Len(bytes) \in Nat
    BY <1>1, TargetNumbers, CodeSequences
  <2> QED
    BY <1>1, <2>1, MakeStep DEF createPatch
<1>2. ASSUME NEW o \in Objects, NEW a \in Targets, NEW n \in 0..MaxSize, createBackup(o, a, n)
      PROVE  IInv'
  <2>1. a \in Nat /\ <<>> \in Seq(Byte) /\ n \in Nat
    BY <1>2, TargetNumbers, PatchAssumption
  <2> QED
    BY <1>2, <2>1, MakeStep DEF createBackup
<1>3. ASSUME NEW o \in Objects, Drop(o) PROVE IInv'
  BY <1>3, DropStep
<1>4. ASSUME NEW o \in Objects, NEW out \in Outcomes, Modify(o, out) \/ Restore(o, out)
      PROVE  IInv'
  BY <1>4, ModifyStep, RestoreStep
<1>5. ASSUME NEW a \in Targets, NEW n \in 1..2, NEW out \in Outcomes,
             NEW d \in 0..(Base * Worth[n] - 1), writeData(a, d, n, out)
      PROVE  IInv'
  <2>1. a \in Nat /\ d \in Nat
    BY <1>5, TargetNumbers, PatchAssumption DEF Worth
  <2> QED
    BY <1>5, <2>1, WriteStep
<1>6. CASE Reprotect
  BY <1>6, ReprotectStep
<1>7. CASE UNCHANGED vars
  BY <1>7, StutterStep
<1> QED
  BY <1>1, <1>2, <1>3, <1>4, <1>5, <1>6, <1>7 DEF Next

\* The invariant holds throughout.
LEMMA Invariance == Spec => []IInv
<1> QED
  BY InitInv, StepInv, PTL DEF Spec

-----------------------------------------------------------------------------
\* Every state of memory and of the objects has the types: in particular an
\* object that is not empty is valid and lies in memory, so that Modify and
\* Restore never write bytes they do not have.
THEOREM TypeCorrect == Spec => []TypeOK
<1>1. IInv => TypeOK
  BY DEF IInv
<1> QED
  BY <1>1, Invariance, PTL

\* For any number of objects over any memory: as long as the caller nests them,
\* what no call has left in doubt is what the objects account for, and with none
\* applied the bytes that were there before.
THEOREM ObjectsNest == Spec => []NestedPatches
<1>1. IInv => NestedPatches
  BY DEF IInv
<1> QED
  BY <1>1, Invariance, PTL
=============================================================================
