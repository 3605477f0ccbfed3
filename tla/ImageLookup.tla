----------------------------- MODULE ImageLookup -----------------------------
(***************************************************************************)
(* Finding a loaded image through dyld: getBaseInfo and getMemoryFileInfo  *)
(* of KittyMemory.cpp, and the functions of the same names in Mem.h, on    *)
(* which every address the program computes is based.                      *)
(*                                                                         *)
(* dyld numbers the images and answers one question per call: how many     *)
(* there are, and the header, the name or the slide of number i.  Other    *)
(* threads load images (at the end of the list) and unload them (later     *)
(* ones move down) between any two of these calls.                         *)
(***************************************************************************)
EXTENDS Integers, FiniteSets, SequencesExt

CONSTANTS
  Images,     \* images that may be loaded
  Main,       \* the program's own image, never unloaded
  MaxChanges  \* bound: loads and unloads in a behaviour

NoImage == "none"

\* getBaseInfo and getMemoryFileInfo of KittyMemory, and those of Mem.h.
LookupOps == {"base", "file", "mem_base", "mem_file"}

ASSUME LookupAssumption ==
  /\ IsFiniteSet(Images)
  /\ Main \in Images
  /\ NoImage \notin Images
  /\ MaxChanges \in Nat

VARIABLES
  images,     \* the list of dyld
  exec,       \* images of type MH_EXECUTE
  named,      \* images whose name is the one looked for
  op,         \* the lookup under way, a member of LookupOps
  pc,
  count,      \* imageCount
  i,          \* the index asked about
  exeIdx,
  info,       \* the fields of _info: the image each was read from
  changes,
  standing,   \* history: loaded since the call began
  disturbed   \* history: an image at i or before it has been unloaded

dyld == <<images, exec, named, changes>>
vars == <<dyld, op, pc, count, i, exeIdx, info, standing, disturbed>>

\* Fields of a structure nothing has been written to: a value that happens to
\* be NULL or 0, or any other.
Unset == {NoImage, "garbage"}

Empty == [header |-> NoImage, name |-> NoImage, address |-> NoImage]

Init ==
  /\ images \in {s \in UNION {[1..n -> Images] : n \in 1..Cardinality(Images)} :
                   IsInjective(s) /\ Main \in Range(s)}
  /\ exec \in {e \in SUBSET Images : Main \in e}
  /\ named \in SUBSET Images
  /\ op = "none"
  /\ pc = "idle"
  /\ count = 0
  /\ i = 0
  /\ exeIdx = -1
  /\ info = Empty
  /\ changes = 0
  /\ standing = {}
  /\ disturbed = FALSE

\* What dyld answers for index k, NULL past the end of the list.
ImageAt(k) == IF k < Len(images) THEN images[k + 1] ELSE NoImage

-----------------------------------------------------------------------------
(* The search                                                              *)

\* getBaseInfo looks for the executable's path, getMemoryFileInfo for an
\* ending of the name; getBaseInfo of Mem.h for a prefix, and counts anew at
\* every turn.
Begin(o) ==
  /\ pc = "idle"
  /\ op' = o
  /\ pc' = "scan"
  /\ count' = Len(images)
  /\ standing' = Range(images)
  /\ UNCHANGED <<dyld, i, exeIdx, info, disturbed>>

LimitIncluded == IF op = "mem_base" THEN Len(images) ELSE count + 1  \* mutated
Limit == IF op = "mem_base" THEN Len(images) ELSE count

\* Only getBaseInfo asks for the type of the image first, and remembers the
\* first executable in case no path matches.
LastExec(k) == k  \* mutated: the last executable
FirstExec(k) == IF exeIdx = -1 THEN k ELSE exeIdx

SameIndex == i    \* mutated: an image that does not match is tried again
NextIndex == i + 1

ScanHeader ==
  /\ pc = "scan"
  /\ op = "base"
  /\ i < Limit
  /\ IF ImageAt(i) \in exec
     THEN exeIdx' = FirstExec(i) /\ pc' = "name" /\ UNCHANGED i
     ELSE i' = NextIndex /\ UNCHANGED <<exeIdx, pc>>
  /\ UNCHANGED <<dyld, op, count, info, standing, disturbed>>

ScanName ==
  /\ \/ pc = "name"
     \/ pc = "scan" /\ op # "base" /\ i < Limit
  /\ IF ImageAt(i) \in named
     THEN exeIdx' = i /\ pc' = "header" /\ UNCHANGED i
     ELSE i' = NextIndex /\ pc' = "scan" /\ UNCHANGED exeIdx
  /\ UNCHANGED <<dyld, op, count, info, standing, disturbed>>

\* No name matched.  The structure of Mem.h has not been initialised, that of
\* KittyMemory is zero.
ScanEnd ==
  /\ pc = "scan"
  /\ i >= Limit
  /\ IF op = "base" /\ exeIdx >= 0
     THEN i' = exeIdx /\ pc' = "header" /\ UNCHANGED info
     ELSE /\ pc' = "done"
          /\ info' \in IF op \in {"mem_base", "mem_file"}
                     THEN [header : Unset, name : Unset, address : Unset]
                     ELSE {Empty}
          /\ UNCHANGED i
  /\ UNCHANGED <<dyld, op, count, exeIdx, standing, disturbed>>

-----------------------------------------------------------------------------
(* The answer: one call of dyld for each field                             *)

ReadHeader ==
  /\ pc = "header"
  /\ info' = [info EXCEPT !.header = ImageAt(i)]
  /\ pc' = "fullname"
  /\ UNCHANGED <<dyld, op, count, i, exeIdx, standing, disturbed>>

ReadName ==
  /\ pc = "fullname"
  /\ info' = [info EXCEPT !.name = ImageAt(i)]
  /\ pc' = "slide"
  /\ UNCHANGED <<dyld, op, count, i, exeIdx, standing, disturbed>>

ReadSlide ==
  /\ pc = "slide"
  /\ info' = [info EXCEPT !.address = ImageAt(i)]
  /\ pc' = "done"
  /\ UNCHANGED <<dyld, op, count, i, exeIdx, standing, disturbed>>

-----------------------------------------------------------------------------
(* Other threads, until the call is back                                   *)

Load(m) ==
  /\ pc # "done"
  /\ changes < MaxChanges
  /\ m \notin Range(images)
  /\ images' = Append(images, m)
  /\ changes' = changes + 1
  /\ UNCHANGED <<exec, named, op, pc, count, i, exeIdx, info, standing, disturbed>>

Unload(k) ==
  /\ pc # "done"
  /\ changes < MaxChanges
  /\ images[k] # Main
  /\ images' = RemoveAt(images, k)
  /\ standing' = standing \ {images[k]}
  /\ disturbed' = (disturbed \/ (pc # "idle" /\ k - 1 <= i))
  /\ changes' = changes + 1
  /\ UNCHANGED <<exec, named, op, pc, count, i, exeIdx, info>>

Step == ScanHeader \/ ScanName \/ ScanEnd \/ ReadHeader \/ ReadName \/ ReadSlide

Next ==
  \/ \E o \in LookupOps : Begin(o)
  \/ Step
  \/ \E m \in Images : Load(m)
  \/ \E k \in 1..Len(images) : Unload(k)

Spec == Init /\ [][Next]_vars
FairSpec == Spec /\ WF_vars(Step)

-----------------------------------------------------------------------------
(* Properties                                                              *)

Fields == Images \cup Unset

Uniform == info.header = info.name /\ info.name = info.address

\* Types; the indices stay within what was counted.
TypeOK ==
  /\ images \in Seq(Images)
  /\ Main \in exec
  /\ {exec, named, standing} \subseteq SUBSET Images
  /\ op \in {"none"} \cup LookupOps
  /\ pc \in {"idle", "scan", "name", "header", "fullname", "slide", "done"}
  /\ count \in 0..Cardinality(Images)
  /\ i \in 0..Cardinality(Images)
  /\ op # "mem_base" => i <= count
  /\ exeIdx \in -1..(Cardinality(Images) - 1)
  /\ info \in [header : Fields, name : Fields, address : Fields]
  /\ changes \in 0..MaxChanges
  /\ disturbed \in BOOLEAN

\* What the call looks for: its executable under the program's path, or an
\* image so named.
Wanted == IF op = "base" THEN exec \cap named ELSE named

\* m is in the set s, and no image before it that was there all along is.
First(m, s) ==
  /\ m \in s
  /\ \A j, k \in 1..Len(images) :
       (j < k /\ images[k] = m) => images[j] \notin s \cap standing

\* The fields answered are all of one image, and it is the first one wanted,
\* however many images were loaded, or unloaded behind the search: only an
\* unload at the index looked at, or before it, can mix images up.  Another
\* answer is given only when no image was wanted that was there all along.
\* Then getBaseInfo of KittyMemory answers the first executable, and
\* getMemoryFileInfo an empty structure; of the structure that those of Mem.h
\* return uninitialised nothing can be said.
FindsFirst ==
  (pc = "done" /\ ~disturbed) =>
    \/ Uniform /\ First(info.header, Wanted)
    \/ /\ standing \cap Wanted = {}
       /\ op = "base" => Uniform /\ First(info.header, exec)
       /\ op = "file" => info = Empty

\* A call returns, whatever is loaded meanwhile.
CallReturns == (pc \notin {"idle", "done"}) ~> (pc = "done")

=============================================================================
