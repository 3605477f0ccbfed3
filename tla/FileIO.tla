------------------------------- MODULE FileIO -------------------------------
(***************************************************************************)
(* Copying and reading files with KittyIOFile.cpp: copy, writeToFile,      *)
(* readToString / readToBuffer and writeToFd, one system call at a time.   *)
(*                                                                         *)
(* The size of the source is asked for once, by name; the bytes are read   *)
(* later, through the descriptor.  In between, another process may append  *)
(* to the source, truncate it or remove its name.  Reads and writes may be *)
(* short or fail.  Sizes are words of Word values, as the code subtracts   *)
(* from a size_t and compares an ssize_t.                                  *)
(***************************************************************************)
EXTENDS Integers, SequencesExt

CONSTANTS
  InitLens,  \* lengths the source may start with
  MaxLen,    \* bound: the source never grows past this
  BufSize,   \* KT_IO_BUFFER_MAX_SIZE
  Word       \* 2^64 in the source

ASSUME FileAssumption ==
  /\ MaxLen \in Nat
  /\ InitLens \subseteq 0..MaxLen
  /\ BufSize \in Nat \ {0}
  /\ Word \in Nat
  /\ Word % 2 = 0
  /\ MaxLen < Word \div 2

VARIABLES
  file,     \* bytes of the open source
  named,    \* its path still names it
  op,       \* the call: "copy", "range", "string" or "fd"
  mode,     \* "whole" read, or a loop that counts ("sized") or not ("loop")
  pc,
  size,     \* st_size, or the length given to writeToFile
  from,     \* first offset of the source wanted
  off,      \* offset of the next Read
  len,      \* bytes the sized loop still wants
  data,     \* bytes of the buffer filled so far
  put,      \* how many of them are written
  out,      \* the destination, or the string
  result,
  statOk,   \* history: stat answered
  altered,  \* history: the source was truncated
  readErr,  \* history: a read failed
  seenEnd   \* history: length of the source when a read last met its end

source == <<file, named, altered>>
vars == <<source, op, mode, pc, size, from, off, len, data, put, out, result,
          statOk, readErr, seenEnd>>

Negative(w) == w >= Word \div 2  \* ssize_t(w) < 0
Least(a, b) == IF a < b THEN a ELSE b

Init ==
  /\ \E n \in InitLens : file = [i \in 1..n |-> i]
  /\ named = TRUE
  /\ op = "none"
  /\ mode = "none"
  /\ pc = "idle"
  /\ size = 0
  /\ from = 0
  /\ off = 0
  /\ len = 0
  /\ data = <<>>
  /\ put = 0
  /\ out = <<>>
  /\ result = FALSE
  /\ statOk = FALSE
  /\ altered = FALSE
  /\ readErr = FALSE
  /\ seenEnd = 0

Finish(r) == pc' = "done" /\ result' = r

-----------------------------------------------------------------------------
(* Opening, and the size                                                   *)

Start(o) ==
  /\ pc = "idle"
  /\ op' = o
  /\ \/ /\ pc' = "stat"
        /\ UNCHANGED result
     \/ Finish(FALSE)
  /\ UNCHANGED <<source, mode, size, from, off, len, data, put, out, statOk, readErr, seenEnd>>

\* The destination is deleted, then opened; on success the loop m starts.
Destination(m, n) ==
  /\ \/ /\ mode' = m
        /\ len' = n
        /\ pc' = "read"
        /\ UNCHANGED result
     \/ /\ Finish(FALSE)
        /\ UNCHANGED <<mode, len>>

\* writeToFile with an offset and a length asks for no size.
CopyRange(a, n) ==
  /\ pc = "idle"
  /\ op' = "range"
  /\ from' = a
  /\ off' = a
  /\ size' = n
  /\ statOk' = TRUE
  /\ IF n = 0
     THEN Finish(TRUE) /\ mode' = "sized" /\ UNCHANGED len
     ELSE Destination("sized", n)
  /\ UNCHANGED <<source, data, put, out, readErr, seenEnd>>

\* When stat fails the structure it was to fill is returned as it is.
Stat ==
  /\ pc = "stat"
  /\ IF named
     THEN size' = Len(file) /\ statOk' = TRUE
     ELSE size' \in 0..(Word - 1) /\ statOk' = FALSE
  /\ IF op = "copy"
     THEN Destination(IF size' # 0 THEN "sized" ELSE "loop", size')
     ELSE /\ mode' = IF size' # 0 /\ ~Negative(size') THEN "whole" ELSE "loop"
          /\ pc' = "read"
          /\ UNCHANGED <<len, result>>
  /\ UNCHANGED <<source, op, from, off, data, put, out, readErr, seenEnd>>

-----------------------------------------------------------------------------
(* KittyIOFile::Read at an offset: preads until full, end or error         *)

Wanted == IF mode = "whole" THEN size ELSE BufSize
Available == Len(file) - (off + Len(data))
RoomWhole == Wanted                     \* mutated: forgets the bytes it has
Room == Wanted - Len(data)

Pread(k) ==
  /\ pc = "read"
  /\ k \in 1..Least(Room, Available)
  /\ data' = data \o SubSeq(file, off + Len(data) + 1, off + Len(data) + k)
  /\ pc' = IF Len(data') = Wanted THEN "use" ELSE "read"
  /\ UNCHANGED <<source, op, mode, size, from, off, len, put, out, result, statOk, readErr, seenEnd>>

PreadEnd ==
  /\ pc = "read"
  /\ pc' = "use"
  /\ \/ /\ Available <= 0
        /\ seenEnd' = Len(file)
        /\ UNCHANGED readErr
     \/ /\ readErr' = TRUE
        /\ UNCHANGED seenEnd
  /\ UNCHANGED <<source, op, mode, size, from, off, len, data, put, out, result, statOk>>

-----------------------------------------------------------------------------
(* What each call does with what Read returned                             *)

EndNever(n) == n < 0  \* mutated: Read counts bytes, it is never negative
End(n) == n <= 0
Enough == len = 0 \/ Negative(len)

\* A string that is complete is the answer, or is now written to the fd.
Complete(s) ==
  IF op = "string"
  THEN out' = s /\ Finish(TRUE) /\ UNCHANGED <<data, put>>
  ELSE /\ out' = <<>>
       /\ data' = s
       /\ put' = 0
       /\ IF s = <<>> THEN Finish(FALSE) ELSE pc' = "fd" /\ UNCHANGED result

UseWhole ==
  /\ pc = "use"
  /\ mode = "whole"
  /\ IF Len(data) = size
     THEN Complete(data)
     ELSE Finish(FALSE) /\ UNCHANGED <<data, put, out>>
  /\ UNCHANGED <<source, op, mode, size, from, off, len, statOk, readErr, seenEnd>>

\* The loops of readToString and readToBuffer end on a read of nothing, and
\* the answer is true: Read never returns -1.
UseString ==
  /\ pc = "use"
  /\ mode = "loop"
  /\ op \in {"string", "fd"}
  /\ IF End(Len(data))
     THEN Complete(out) /\ UNCHANGED off
     ELSE /\ out' = out \o data
          /\ off' = off + Len(data)
          /\ data' = <<>>
          /\ pc' = "read"
          /\ UNCHANGED <<put, result>>
  /\ UNCHANGED <<source, op, mode, size, from, len, statOk, readErr, seenEnd>>

UseCopy ==
  /\ pc = "use"
  /\ op \in {"copy", "range"}
  /\ put' = 0
  /\ IF End(Len(data))
     THEN Finish(mode = "loop" \/ Enough)
     ELSE pc' = "write" /\ UNCHANGED result
  /\ UNCHANGED <<source, op, mode, size, from, off, len, data, out, statOk, readErr, seenEnd>>

\* What is left to copy, in size_t arithmetic.
LeftByBuffers(n) == (len - BufSize) % Word  \* mutated: counts whole buffers
Left(n) == (len - n) % Word

Written(k) == out \o SubSeq(data, put + 1, put + k)

\* One pwrite of KittyIOFile::Write.
Pwrite(k) ==
  /\ pc = "write"
  /\ k \in 1..(Len(data) - put)
  /\ out' = Written(k)
  /\ put' = put + k
  /\ IF k < Len(data) - put
     THEN UNCHANGED <<pc, off, len, data, result>>
     ELSE /\ off' = off + Len(data)
          /\ data' = <<>>
          /\ len' = IF mode = "sized" THEN Left(Len(data)) ELSE len
          /\ IF mode = "sized" /\ len' = 0
             THEN Finish(TRUE)
             ELSE pc' = "read" /\ UNCHANGED result
  /\ UNCHANGED <<source, op, mode, size, from, statOk, readErr, seenEnd>>

\* A write that fails ends the copy; the sized loop still judges by len.
PwriteFails ==
  /\ pc = "write"
  /\ Finish(mode = "sized" /\ Enough)
  /\ UNCHANGED <<source, op, mode, size, from, off, len, data, put, out, statOk, readErr, seenEnd>>

\* writeToFd: writes until the buffer is out.
WriteFd(k) ==
  /\ pc = "fd"
  /\ k \in 1..(Len(data) - put)
  /\ out' = Written(k)
  /\ put' = put + k
  /\ IF put' = Len(data) THEN Finish(TRUE) ELSE UNCHANGED <<pc, result>>
  /\ UNCHANGED <<source, op, mode, size, from, off, len, data, statOk, readErr, seenEnd>>

WriteFdFails ==
  /\ pc = "fd"
  /\ Finish(FALSE)
  /\ UNCHANGED <<source, op, mode, size, from, off, len, data, put, out, statOk, readErr, seenEnd>>

-----------------------------------------------------------------------------
(* Other processes                                                         *)

caller == <<op, mode, pc, size, from, off, len, data, put, out, result, statOk, readErr, seenEnd>>

Append1 ==
  /\ Len(file) < MaxLen
  /\ file' = Append(file, Len(file) + 1)
  /\ UNCHANGED <<named, altered, caller>>

\* What is written after a truncation differs from what was there.
Truncate(n) ==
  /\ ~altered
  /\ n < Len(file)
  /\ file' = [i \in 1..n |-> -i]
  /\ altered' = TRUE
  /\ UNCHANGED <<named, caller>>

Unlink ==
  /\ named
  /\ named' = FALSE
  /\ UNCHANGED <<file, altered, caller>>

Step ==
  \/ Stat \/ PreadEnd \/ UseWhole \/ UseString \/ UseCopy
  \/ PwriteFails \/ WriteFdFails
  \/ \E k \in 1..(MaxLen + 1) : Pread(k) \/ Pwrite(k) \/ WriteFd(k)

Next ==
  \/ \E o \in {"copy", "string", "fd"} : Start(o)
  \/ \E a \in 0..1, n \in 0..MaxLen : CopyRange(a, n)
  \/ Step
  \/ Append1
  \/ \E n \in 0..MaxLen : Truncate(n)
  \/ Unlink

Spec == Init /\ [][Next]_vars
FairSpec == Spec /\ WF_vars(Step)

-----------------------------------------------------------------------------
(* Properties                                                              *)

\* Types; the buffer is never overrun.
TypeOK ==
  /\ file \in Seq(Int)
  /\ op \in {"none", "copy", "range", "string", "fd"}
  /\ mode \in {"none", "whole", "sized", "loop"}
  /\ pc \in {"idle", "stat", "read", "use", "write", "fd", "done"}
  /\ {size, len} \subseteq 0..(Word - 1)
  /\ {from, off, put, seenEnd} \subseteq Nat
  /\ data \in Seq(Int)
  /\ pc \in {"read", "use", "write"} => Len(data) <= Wanted
  /\ pc \in {"write", "fd"} => put <= Len(data)
  /\ out \in Seq(Int)
  /\ {named, result, statOk, altered, readErr} \subseteq BOOLEAN

\* A call that answers true has delivered at least what it measured (the
\* size stat gave, or where it met the end), byte for byte from the source:
\* whatever reads and writes came short or failed, and also when the source
\* shrank or grew between stat and the reads.  Left out are a stat that
\* failed and, in the loops that do not count, a read that failed.
TrueMeansDelivered ==
  ( /\ pc = "done"
    /\ result
    /\ mode = "loop" => ~readErr
    /\ mode # "loop" => statOk )
  => /\ Len(out) >= IF mode = "loop" THEN seenEnd ELSE size
     /\ ~altered => IsPrefix(out, SubSeq(file, from + 1, Len(file)))

\* A call returns, once the source no longer grows.
CallReturns == (pc \notin {"idle", "done"}) ~> (pc = "done")

\* "incase stat fails to get file size" (KittyIOFile.cpp): a file that opens,
\* and whose reads all work, is read to its end although stat failed.
StatFailureCovered ==
  ( /\ pc = "done"
    /\ op = "string"
    /\ mode # "none"
    /\ ~statOk
    /\ ~altered
    /\ ~readErr )
  => result /\ Len(out) >= seenEnd

=============================================================================
