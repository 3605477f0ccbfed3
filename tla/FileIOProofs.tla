---------------------------- MODULE FileIOProofs ----------------------------
(***************************************************************************)
(* Proofs about FileIO: types, and that a call that answers true has       *)
(* delivered what it measured, for every length of files and of buffers    *)
(* and every width of size_t, however reads and writes come short.         *)
(***************************************************************************)
EXTENDS FileIO, TLAPS

Going == pc \in {"read", "use", "write"}

\* The source holds what it held, as long as nobody truncated it.
FileOK ==
  /\ file \in Seq(Int) /\ Len(file) \in 0..MaxLen
  /\ ~altered => \A j \in 1..Len(file) : file[j] = j

\* Which calls run which loops.
CallOK ==
  /\ op # "range" => from = 0
  /\ mode = "sized" => op \in {"copy", "range"}
  /\ mode = "whole" => op \in {"string", "fd"} /\ size >= 1
  /\ mode = "loop" => op \in {"copy", "string", "fd"}
  /\ Going => mode # "none"
  /\ pc = "write" => op \in {"copy", "range"}
  /\ pc = "fd" => op = "fd" /\ mode \in {"whole", "loop"}
  /\ pc = "stat" => op \in {"copy", "string", "fd"}
  /\ pc \in {"idle", "stat"} =>
       /\ mode = "none" /\ from = 0 /\ off = 0 /\ put = 0 /\ seenEnd = 0
       /\ data = <<>> /\ out = <<>> /\ ~result
  /\ statOk => size <= MaxLen

\* What is left to copy once done bytes are, with the wrap of size_t.
LeftOf(done) == IF done <= size THEN size - done ELSE size - done + Word

\* How far the loops have come.
LengthOK ==
  /\ Going =>
       /\ off >= from /\ off - from + Len(data) <= MaxLen
       /\ seenEnd <= off + Len(data)
       /\ mode = "whole" => off = 0 /\ out = <<>>
       /\ mode # "whole" => Len(out) = off - from + (IF pc = "write" THEN put ELSE 0)
       /\ mode = "sized" /\ statOk => len = LeftOf(off - from)
  /\ pc = "fd" =>
       /\ Len(out) = put
       /\ mode = "whole" => Len(data) = size
       /\ mode = "loop" => seenEnd <= Len(data)
  /\ (pc = "done" /\ result /\ (mode # "loop" => statOk)) =>
       Len(out) >= IF mode = "loop" THEN seenEnd ELSE size

\* What the buffer and the destination hold.
ContentOK == ~altered =>
  /\ Going => /\ \A j \in 1..Len(data) : data[j] = off + j
              /\ off + Len(data) = from \/ off + Len(data) <= Len(file)
  /\ pc = "fd" => Len(data) <= Len(file) /\ \A j \in 1..Len(data) : data[j] = j
  /\ \A j \in 1..Len(out) : out[j] = from + j
  /\ Len(out) = 0 \/ from + Len(out) <= Len(file)

IInv == TypeOK /\ FileOK /\ CallOK /\ LengthOK /\ ContentOK

-----------------------------------------------------------------------------
LEMMA Constants ==
  /\ MaxLen \in Nat /\ BufSize \in Nat /\ BufSize >= 1 /\ Word \in Nat
  /\ MaxLen < Word
  /\ \A w \in 0..(Word - 1) : Negative(w) <=> 2 * w >= Word
  /\ 2 * MaxLen < Word
  BY FileAssumption DEF Negative

\* What remains of a size_t, less a little.
LEMMA ModSmall ==
  ASSUME NEW x \in Int, -Word <= x, x < Word
  PROVE  x % Word = IF x >= 0 THEN x ELSE x + Word
  BY FileAssumption

LEMMA LeftRange ==
  ASSUME NEW x \in Int
  PROVE  x % Word \in 0..(Word - 1)
  BY FileAssumption

\* One sequence behind another.
LEMMA JoinedWhole ==
  ASSUME NEW s \in Seq(Int), NEW t \in Seq(Int)
  PROVE  /\ s \o t \in Seq(Int) /\ Len(s \o t) = Len(s) + Len(t)
         /\ \A j \in 1..Len(s \o t) : (s \o t)[j] = IF j <= Len(s) THEN s[j] ELSE t[j - Len(s)]
  OBVIOUS

LEMMA Part ==
  ASSUME NEW t \in Seq(Int), NEW a \in Nat, NEW k \in Nat, a + k <= Len(t)
  PROVE  LET u == SubSeq(t, a + 1, a + k) IN
         u \in Seq(Int) /\ Len(u) = k /\ \A j \in 1..k : u[j] = t[a + j]
  OBVIOUS

\* r is s with k elements of t behind it, those after the a-th.
IsJoin(r, s, t, a, k) ==
  /\ r \in Seq(Int) /\ Len(r) = Len(s) + k
  /\ \A j \in 1..Len(r) : r[j] = IF j <= Len(s) THEN s[j] ELSE t[a + (j - Len(s))]

LEMMA Joined ==
  ASSUME NEW s \in Seq(Int), NEW t \in Seq(Int), NEW a \in Nat, NEW k \in Nat, a + k <= Len(t),
         NEW r, r = s \o SubSeq(t, a + 1, a + k)
  PROVE  IsJoin(r, s, t, a, k)
<1> DEFINE u == SubSeq(t, a + 1, a + k)
<1>1. u \in Seq(Int) /\ Len(u) = k /\ \A j \in 1..k : u[j] = t[a + j]
  BY Part
<1>11. r = s \o u
  OBVIOUS
<1> HIDE DEF u
<1>2. /\ r \in Seq(Int) /\ Len(r) = Len(s) + k
      /\ \A j \in 1..Len(r) : r[j] = IF j <= Len(s) THEN s[j] ELSE u[j - Len(s)]
  <2> DEFINE w == s \o u
  <2>1. /\ w \in Seq(Int) /\ Len(w) = Len(s) + Len(u)
        /\ \A j \in 1..Len(w) : w[j] = IF j <= Len(s) THEN s[j] ELSE u[j - Len(s)]
    BY <1>1, JoinedWhole
  <2>2. r = w
    BY <1>11
  <2> HIDE DEF w
  <2>3. Len(r) = Len(s) + k
    BY <1>1, <2>1, <2>2
  <2>4. QED
    BY <2>1, <2>2, <2>3
<1>3. ASSUME NEW j \in 1..Len(r), j > Len(s)
      PROVE  j - Len(s) \in 1..k /\ u[j - Len(s)] = t[a + (j - Len(s))]
  <2>1. Len(s) \in Nat /\ Len(r) = Len(s) + k
    BY <1>2
  <2>2. j - Len(s) \in 1..k
    BY <1>3, <2>1
  <2>3. QED
    BY <1>1, <2>2
<1>4. \A j \in 1..Len(r) : r[j] = IF j <= Len(s) THEN s[j] ELSE t[a + (j - Len(s))]
  <2> TAKE j \in 1..Len(r)
  <2>1. CASE j <= Len(s)
    BY <1>2, <2>1
  <2>2. CASE j > Len(s)
    <3>0. ~(j <= Len(s))
      BY <1>2, <2>2
    <3>1. r[j] = u[j - Len(s)]
      BY <1>2, <3>0
    <3>2. QED
      BY <1>3, <2>2, <3>1
  <2>3. QED
    BY <1>2, <2>1, <2>2
<1>5. QED
  BY <1>2, <1>4 DEF IsJoin

\* The types of the numbers, one by one.
LEMMA Numbers ==
  TypeOK /\ FileOK =>
    /\ size \in Nat /\ size < Word /\ len \in Nat /\ len < Word
    /\ from \in Nat /\ off \in Nat /\ put \in Nat /\ seenEnd \in Nat
    /\ file \in Seq(Int) /\ data \in Seq(Int) /\ out \in Seq(Int)
    /\ Len(file) \in Nat /\ Len(file) <= MaxLen /\ Len(data) \in Nat /\ Len(out) \in Nat
    /\ Wanted \in Nat
<1> SUFFICES ASSUME TypeOK, FileOK
             PROVE  /\ size \in Nat /\ size < Word /\ len \in Nat /\ len < Word
                    /\ from \in Nat /\ off \in Nat /\ put \in Nat /\ seenEnd \in Nat
                    /\ file \in Seq(Int) /\ data \in Seq(Int) /\ out \in Seq(Int)
                    /\ Len(file) \in Nat /\ Len(file) <= MaxLen
                    /\ Len(data) \in Nat /\ Len(out) \in Nat
                    /\ Wanted \in Nat
  OBVIOUS
<1>0. MaxLen \in Nat /\ Word \in Nat /\ BufSize \in Nat
  BY Constants
<1>1. size \in 0..(Word - 1) /\ len \in 0..(Word - 1)
  BY DEF TypeOK
<1>2. from \in Nat /\ off \in Nat /\ put \in Nat /\ seenEnd \in Nat
  BY DEF TypeOK
<1>3. file \in Seq(Int) /\ data \in Seq(Int) /\ out \in Seq(Int) /\ Len(file) \in 0..MaxLen
  BY DEF TypeOK, FileOK
<1>4. QED
  BY <1>0, <1>1, <1>2, <1>3 DEF Wanted

-----------------------------------------------------------------------------
LEMMA InitInv == Init => IInv
<1> SUFFICES ASSUME Init PROVE IInv
  OBVIOUS
<1>1. PICK n \in InitLens : file = [i \in 1..n |-> i]
  BY DEF Init
<1>2. n \in 0..MaxLen
  BY FileAssumption
<1>3. file \in Seq(Int) /\ Len(file) = n /\ \A j \in 1..n : file[j] = j
  BY <1>1, <1>2, FileAssumption
<1>4. TypeOK
  <2>1. Word \in Nat /\ Word >= 1
    BY Constants
  <2>2. <<>> \in Seq(Int)
    OBVIOUS
  <2>3. 0 \in 0..(Word - 1)
    BY <2>1
  <2>4. /\ file \in Seq(Int) /\ data \in Seq(Int) /\ out \in Seq(Int)
        /\ {size, len} \subseteq 0..(Word - 1)
        /\ {from, off, put, seenEnd} \subseteq Nat
    BY <1>3, <2>2, <2>3 DEF Init
  <2>5. {named, result, statOk, altered, readErr} \subseteq BOOLEAN
    BY DEF Init
  <2>6. QED
    BY <2>4, <2>5 DEF Init, TypeOK
<1>5. FileOK
  BY <1>2, <1>3 DEF Init, FileOK
<1>6. CallOK /\ LengthOK
  BY DEF Init, CallOK, LengthOK, Going
<1>7. ContentOK
  BY DEF Init, ContentOK, Going
<1>8. QED
  BY <1>4, <1>5, <1>6, <1>7 DEF IInv

-----------------------------------------------------------------------------
(* Opening, and the size                                                   *)

LEMMA StartKeeps ==
  ASSUME IInv, NEW o \in {"copy", "string", "fd"}, Start(o)
  PROVE  IInv'
<1> USE DEF IInv, Start, Finish, source
<1>1. TypeOK'
  BY DEF TypeOK, Wanted
<1>2. FileOK'
  BY DEF FileOK
<1>3. CallOK'
  BY DEF CallOK, Going
<1>4. LengthOK'
  BY DEF LengthOK, Going, CallOK
<1>5. ContentOK'
  BY DEF ContentOK, Going, CallOK
<1>6. QED
  BY <1>1, <1>2, <1>3, <1>4, <1>5

LEMMA CopyRangeKeeps ==
  ASSUME IInv, NEW a \in 0..1, NEW n \in 0..MaxLen, CopyRange(a, n)
  PROVE  IInv'
<1> USE DEF IInv, CopyRange, Destination, Finish, source
<1>0. MaxLen \in Nat /\ Word \in Nat /\ MaxLen < Word /\ BufSize \in Nat
  BY Constants
<1>1. TypeOK'
  <2>1. n \in 0..(Word - 1) /\ a \in Nat
    BY <1>0
  <2>2. data = <<>> /\ put = 0
    BY DEF CallOK
  <2>3. size' \in 0..(Word - 1) /\ len' \in 0..(Word - 1) /\ from' \in Nat /\ off' \in Nat
    BY <2>1 DEF TypeOK
  <2>4. Len(data') = 0 /\ Wanted' \in Nat
    BY <1>0, <2>2, <2>3 DEF Wanted
  <2>5. /\ op' \in {"none", "copy", "range", "string", "fd"}
        /\ mode' \in {"none", "whole", "sized", "loop"}
        /\ pc' \in {"read", "done"}
        /\ result' \in BOOLEAN /\ statOk' \in BOOLEAN
    BY DEF TypeOK
  <2>6. QED
    BY <2>3, <2>4, <2>5 DEF TypeOK
<1>2. FileOK'
  BY DEF FileOK
<1>3. CallOK'
  BY <1>0 DEF CallOK, Going
<1>4. LengthOK'
  BY <1>0 DEF LengthOK, Going, CallOK, LeftOf, TypeOK
<1>5. ContentOK'
  BY DEF ContentOK, Going, CallOK
<1>6. QED
  BY <1>1, <1>2, <1>3, <1>4, <1>5

LEMMA StatKeeps ==
  ASSUME IInv, Stat
  PROVE  IInv'
<1> USE DEF IInv, Stat, Destination, Finish, source
<1>0. MaxLen \in Nat /\ Word \in Nat /\ MaxLen < Word /\ BufSize \in Nat
  BY Constants
<1>1. size' \in 0..(Word - 1) /\ (statOk' => size' <= MaxLen) /\ statOk' \in BOOLEAN
  <2>1. CASE named
    BY <1>0, <2>1, Numbers
  <2>2. CASE ~named
    BY <2>2
  <2>3. QED
    BY <2>1, <2>2
<1>2. TypeOK'
  <2>1. data' = <<>> /\ put' = 0
    BY DEF CallOK
  <2>2. Wanted' \in Nat /\ Len(data') = 0
    BY <1>0, <1>1, <2>1 DEF Wanted
  <2>3. len' \in 0..(Word - 1)
    BY <1>1 DEF TypeOK
  <2>4. /\ mode' \in {"none", "whole", "sized", "loop"}
        /\ pc' \in {"read", "done"}
        /\ result' \in BOOLEAN
    BY DEF TypeOK
  <2>5. QED
    BY <1>1, <2>1, <2>2, <2>3, <2>4 DEF TypeOK
<1>3. FileOK'
  BY DEF FileOK
<1>4. CallOK'
  BY <1>0, <1>1 DEF CallOK, Going
<1>5. LengthOK'
  BY <1>0, <1>1 DEF LengthOK, Going, CallOK, LeftOf, TypeOK
<1>6. ContentOK'
  BY DEF ContentOK, Going, CallOK
<1>7. QED
  BY <1>2, <1>3, <1>4, <1>5, <1>6

-----------------------------------------------------------------------------
(* Reading                                                                 *)

LEMMA PreadKeeps ==
  ASSUME IInv, NEW k \in 1..(MaxLen + 1), Pread(k)
  PROVE  IInv'
<1> USE DEF IInv, source
<1>0. MaxLen \in Nat /\ Word \in Nat /\ MaxLen < Word /\ BufSize \in Nat
  BY Constants
<1>10. /\ file \in Seq(Int) /\ data \in Seq(Int)
      /\ Len(file) \in Nat /\ Len(file) <= MaxLen /\ Len(data) \in Nat
      /\ off \in Nat /\ from \in Nat /\ size \in Nat /\ seenEnd \in Nat /\ Wanted \in Nat
      /\ k \in Nat /\ k >= 1
  BY <1>0, Numbers
<1>1. k <= Wanted - Len(data) /\ k <= Len(file) - (off + Len(data))
  <2>1. k \in 1..Least(Room, Available)
    BY DEF Pread
  <2>2. QED
    BY <1>10, <2>1 DEF Least, Room, Available
<1>2. off + Len(data) + k <= Len(file) /\ Len(data) + k <= Wanted
  BY <1>10, <1>1
<1>3. /\ data' \in Seq(Int) /\ Len(data') = Len(data) + k
      /\ \A j \in 1..Len(data') :
           data'[j] = IF j <= Len(data) THEN data[j] ELSE file[off + Len(data) + (j - Len(data))]
  <2>1. data' = data \o SubSeq(file, (off + Len(data)) + 1, (off + Len(data)) + k)
    BY DEF Pread
  <2>2. off + Len(data) \in Nat /\ (off + Len(data)) + k <= Len(file)
    BY <1>10, <1>2
  <2> DEFINE a == off + Len(data)
  <2> HIDE DEF a
  <2>3. a \in Nat /\ a + k <= Len(file) /\ data' = data \o SubSeq(file, a + 1, a + k)
    BY <2>1, <2>2 DEF a
  <2>4. IsJoin(data', data, file, a, k)
    <3>1. data \in Seq(Int) /\ file \in Seq(Int) /\ k \in Nat
      BY <1>10
    <3>2. QED
      BY <3>1, <2>3, Joined
  <2>5. QED
    BY <2>4 DEF a, IsJoin
<1>4. TypeOK'
  BY <1>10, <1>2, <1>3 DEF TypeOK, Wanted, Pread
<1>5. FileOK'
  BY DEF FileOK, Pread
<1>6. CallOK'
  BY DEF CallOK, Going, Pread
<1>7. LengthOK'
  BY <1>0, <1>10, <1>2, <1>3 DEF LengthOK, Going, LeftOf, Pread
<1>8. ContentOK'
  <2> SUFFICES ASSUME ~altered PROVE ContentOK'
    BY DEF ContentOK, Pread
  <2>1. /\ \A j \in 1..Len(data) : data[j] = off + j
        /\ \A j \in 1..Len(file) : file[j] = j
    BY DEF ContentOK, Going, FileOK, Pread
  <2>2. \A j \in 1..Len(data') : data'[j] = off + j
    <3> TAKE j \in 1..Len(data')
    <3>1. CASE j <= Len(data)
      <4>1. j \in 1..Len(data)
        BY <1>10, <1>3, <3>1
      <4>2. data'[j] = data[j]
        BY <1>3, <3>1
      <4>3. QED
        BY <2>1, <4>1, <4>2
    <3>2. CASE j > Len(data)
      <4>1. off + Len(data) + (j - Len(data)) = off + j
        BY <1>10, <1>3
      <4>2. off + j \in 1..Len(file)
        BY <1>10, <1>2, <1>3
      <4>3. data'[j] = file[off + j]
        BY <1>10, <1>3, <3>2, <4>1
      <4>4. QED
        BY <2>1, <4>2, <4>3
    <3>3. QED
      BY <1>10, <1>3, <3>1, <3>2
  <2>3. off + Len(data') <= Len(file)
    BY <1>10, <1>2, <1>3
  <2>4. /\ off' = off /\ from' = from /\ file' = file /\ altered' = altered /\ out' = out
        /\ pc' \in {"read", "use"}
    BY DEF Pread
  <2>5. /\ \A j \in 1..Len(out) : out[j] = from + j
        /\ Len(out) = 0 \/ from + Len(out) <= Len(file)
    BY DEF ContentOK
  <2>6. QED
    BY <2>2, <2>3, <2>4, <2>5 DEF ContentOK, Going
<1>9. QED
  BY <1>4, <1>5, <1>6, <1>7, <1>8

LEMMA PreadEndKeeps ==
  ASSUME IInv, PreadEnd
  PROVE  IInv'
<1> USE DEF IInv, source
<1>0. MaxLen \in Nat /\ Word \in Nat /\ MaxLen < Word /\ BufSize \in Nat
  BY Constants
<1>1. seenEnd' \in Nat /\ seenEnd' <= off + Len(data)
  <2>1. CASE Available <= 0 /\ seenEnd' = Len(file)
    BY <2>1, Numbers DEF Available
  <2>2. CASE seenEnd' = seenEnd
    BY <2>2, Numbers DEF LengthOK, Going, PreadEnd
  <2>3. QED
    BY <2>1, <2>2 DEF PreadEnd
<1>2. TypeOK'
  BY <1>1 DEF TypeOK, Wanted, PreadEnd
<1>3. FileOK'
  BY DEF FileOK, PreadEnd
<1>4. CallOK'
  BY DEF CallOK, Going, PreadEnd
<1>5. LengthOK'
  BY <1>1 DEF LengthOK, Going, LeftOf, PreadEnd
<1>6. ContentOK'
  BY DEF ContentOK, Going, PreadEnd
<1>7. QED
  BY <1>2, <1>3, <1>4, <1>5, <1>6

-----------------------------------------------------------------------------
(* What the calls do with what was read                                    *)

\* The answer, or what goes to the descriptor, is the beginning of the source.
LEMMA CompleteKeeps ==
  ASSUME IInv, NEW s \in Seq(Int), Complete(s), pc = "use", op \in {"string", "fd"},
         mode \in {"whole", "loop"},
         UNCHANGED <<source, op, mode, size, from, len, statOk, readErr, seenEnd>>,
         off' = off,
         mode = "whole" => Len(s) = size,
         mode = "loop" => seenEnd <= Len(s),
         ~altered => Len(s) <= Len(file) /\ \A j \in 1..Len(s) : s[j] = j
  PROVE  IInv'
<1> USE DEF IInv, source
<1>1. from = 0
  BY DEF CallOK
<1>2. CASE op = "string"
  <2>1. /\ out' = s /\ pc' = "done" /\ result' = TRUE /\ data' = data /\ put' = put
    BY <1>2 DEF Complete, Finish
  <2>2. TypeOK'
    BY <2>1 DEF TypeOK
  <2>3. FileOK'
    BY DEF FileOK
  <2>4. CallOK'
    BY <2>1 DEF CallOK, Going
  <2>5. LengthOK'
    BY <2>1 DEF LengthOK, Going
  <2>6. ContentOK'
    BY <2>1, <1>1, Numbers DEF ContentOK, Going
  <2>7. QED
    BY <2>2, <2>3, <2>4, <2>5, <2>6
<1>3. CASE op = "fd"
  <2>1. /\ out' = <<>> /\ data' = s /\ put' = 0
        /\ \/ pc' = "done" /\ result' = FALSE
           \/ pc' = "fd" /\ result' = result
    BY <1>3 DEF Complete, Finish
  <2>0. <<>> \in Seq(Int) /\ Len(s) \in Nat
    OBVIOUS
  <2>2. TypeOK'
    <3>1. data' \in Seq(Int) /\ out' \in Seq(Int) /\ put' \in Nat /\ put' <= Len(data')
      BY <2>0, <2>1
    <3>2. QED
      BY <2>1, <3>1 DEF TypeOK
  <2>3. FileOK'
    BY DEF FileOK
  <2>4. CallOK'
    BY <2>1, <1>3 DEF CallOK, Going
  <2>5. LengthOK'
    BY <2>1 DEF LengthOK, Going
  <2>6. ContentOK'
    BY <2>1 DEF ContentOK, Going
  <2>7. QED
    BY <2>2, <2>3, <2>4, <2>5, <2>6
<1>4. QED
  BY <1>2, <1>3

LEMMA UseWholeKeeps ==
  ASSUME IInv, UseWhole
  PROVE  IInv'
<1> USE DEF IInv, source
<1>1. /\ pc = "use" /\ mode = "whole" /\ op \in {"string", "fd"}
      /\ off = 0 /\ from = 0 /\ data \in Seq(Int) /\ size >= 1
  BY Numbers DEF UseWhole, CallOK, LengthOK, Going
<1>2. CASE Len(data) = size
  <2>1. Complete(data)
    BY <1>2 DEF UseWhole
  <2>2. UNCHANGED <<source, op, mode, size, from, len, statOk, readErr, seenEnd>> /\ off' = off
    BY DEF UseWhole
  <2>3. ~altered => Len(data) <= Len(file) /\ \A j \in 1..Len(data) : data[j] = j
    <3> SUFFICES ASSUME ~altered
                 PROVE  Len(data) <= Len(file) /\ \A j \in 1..Len(data) : data[j] = j
      OBVIOUS
    <3>1. /\ \A j \in 1..Len(data) : data[j] = 0 + j
          /\ 0 + Len(data) = 0 \/ 0 + Len(data) <= Len(file)
      BY <1>1 DEF ContentOK, Going
    <3>2. QED
      BY <3>1, <1>1, Numbers
  <2>4. QED
    BY <1>1, <1>2, <2>1, <2>2, <2>3, CompleteKeeps
<1>3. CASE Len(data) # size
  <2>1. /\ pc' = "done" /\ result' = FALSE /\ data' = data /\ put' = put /\ out' = out
        /\ UNCHANGED <<source, op, mode, size, from, off, len, statOk, readErr, seenEnd>>
    BY <1>3 DEF UseWhole, Finish
  <2>2. TypeOK'
    BY <2>1 DEF TypeOK
  <2>3. FileOK'
    BY <2>1 DEF FileOK
  <2>4. CallOK'
    BY <2>1 DEF CallOK, Going
  <2>5. LengthOK'
    BY <2>1 DEF LengthOK, Going
  <2>6. ContentOK'
    BY <2>1 DEF ContentOK, Going
  <2>7. QED
    BY <2>2, <2>3, <2>4, <2>5, <2>6
<1>4. QED
  BY <1>2, <1>3

LEMMA UseStringKeeps ==
  ASSUME IInv, UseString
  PROVE  IInv'
<1> USE DEF IInv, source
<1>0. MaxLen \in Nat /\ Word \in Nat /\ MaxLen < Word /\ BufSize \in Nat
  BY Constants
<1>1. /\ pc = "use" /\ mode = "loop" /\ op \in {"string", "fd"} /\ from = 0
      /\ Len(out) = off /\ seenEnd <= off + Len(data) /\ off + Len(data) <= MaxLen
  BY Numbers DEF UseString, CallOK, LengthOK, Going
<1>2. ~altered => /\ \A j \in 1..Len(data) : data[j] = off + j
                  /\ off + Len(data) = 0 \/ off + Len(data) <= Len(file)
                  /\ \A j \in 1..Len(out) : out[j] = 0 + j
                  /\ Len(out) = 0 \/ 0 + Len(out) <= Len(file)
  BY <1>1 DEF ContentOK, Going
<1>3. CASE Len(data) = 0
  <2>1. Complete(out) /\ off' = off
    BY <1>3 DEF UseString, End
  <2>2. UNCHANGED <<source, op, mode, size, from, len, statOk, readErr, seenEnd>>
    BY DEF UseString
  <2>3. ~altered => Len(out) <= Len(file) /\ \A j \in 1..Len(out) : out[j] = j
    BY <1>2, Numbers
  <2>4. out \in Seq(Int) /\ seenEnd <= Len(out)
    BY <1>1, <1>3, Numbers
  <2>5. QED
    BY <1>1, <2>1, <2>2, <2>3, <2>4, CompleteKeeps
<1>4. CASE Len(data) # 0
  <2>1. /\ out' = out \o data /\ off' = off + Len(data) /\ data' = <<>> /\ pc' = "read"
        /\ UNCHANGED <<source, op, mode, size, from, len, put, result, statOk, readErr, seenEnd>>
    BY <1>4, Numbers DEF UseString, End
  <2>2. /\ out' \in Seq(Int) /\ Len(out') = Len(out) + Len(data)
        /\ \A j \in 1..Len(out') : out'[j] = IF j <= Len(out) THEN out[j] ELSE data[j - Len(out)]
    BY <2>1, Numbers, JoinedWhole
  <2>0. <<>> \in Seq(Int)
    OBVIOUS
  <2>3. TypeOK'
    <3>1. off' \in Nat /\ Wanted' = Wanted
      BY <2>1, Numbers DEF Wanted
    <3>2. QED
      BY <2>0, <2>1, <2>2, <3>1, Numbers DEF TypeOK
  <2>4. FileOK'
    BY <2>1 DEF FileOK
  <2>5. CallOK'
    BY <2>1, <1>1 DEF CallOK, Going
  <2>6. LengthOK'
    BY <1>0, <1>1, <2>1, <2>2, Numbers DEF LengthOK, Going, LeftOf
  <2>7. ContentOK'
    <3> SUFFICES ASSUME ~altered PROVE ContentOK'
      BY <2>1 DEF ContentOK
    <3>1. \A j \in 1..Len(out') : out'[j] = 0 + j
      <4> TAKE j \in 1..Len(out')
      <4>0. Len(out) \in Nat /\ Len(data) \in Nat
        BY Numbers
      <4>1. CASE j <= Len(out)
        <5>1. j \in 1..Len(out) /\ out'[j] = out[j]
          BY <2>2, <4>0, <4>1
        <5>2. QED
          BY <1>2, <5>1
      <4>2. CASE ~(j <= Len(out))
        <5>1. j - Len(out) \in 1..Len(data) /\ out'[j] = data[j - Len(out)]
          BY <2>2, <4>0, <4>2
        <5>2. data[j - Len(out)] = off + (j - Len(out))
          BY <1>2, <5>1
        <5>3. QED
          BY <1>1, <4>0, <5>1, <5>2
      <4>3. QED
        BY <4>1, <4>2
    <3>2. Len(out') = 0 \/ 0 + Len(out') <= Len(file)
      BY <1>1, <1>2, <2>2, Numbers
    <3>3. Len(data') = 0 /\ off' + Len(data') = Len(out')
      BY <1>1, <2>1, <2>2, Numbers
    <3>4. QED
      BY <1>1, <2>1, <3>1, <3>2, <3>3, Numbers DEF ContentOK, Going
  <2>8. QED
    BY <2>3, <2>4, <2>5, <2>6, <2>7
<1>5. QED
  BY <1>3, <1>4

\* The sized loop that judges len enough has everything it measured.
LEMMA EnoughMeansAll ==
  ASSUME IInv, Going, mode = "sized", statOk, Enough
  PROVE  size <= off - from
<1> USE DEF IInv
<1>1. len = LeftOf(off - from) /\ off >= from /\ size <= MaxLen
  BY DEF LengthOK, CallOK
<1>2. len = 0 \/ 2 * len >= Word
  BY Constants, Numbers DEF Enough
<1>3. 2 * MaxLen < Word /\ MaxLen \in Nat /\ Word \in Nat
  BY Constants
<1>4. ASSUME size > off - from PROVE FALSE
  <2>1. off \in Nat /\ from \in Nat /\ size \in Nat /\ len \in Nat
    BY Numbers
  <2>2. len = size - (off - from)
    BY <1>1, <1>4, <2>1 DEF LeftOf
  <2>3. QED
    BY <1>1, <1>2, <1>3, <1>4, <2>1, <2>2
<1>5. QED
  BY <1>4, Numbers

LEMMA UseCopyKeeps ==
  ASSUME IInv, UseCopy
  PROVE  IInv'
<1> USE DEF IInv, source
<1>1. /\ pc = "use" /\ op \in {"copy", "range"} /\ mode \in {"sized", "loop"}
      /\ put' = 0
      /\ UNCHANGED <<source, op, mode, size, from, off, len, data, out, statOk, readErr, seenEnd>>
  BY DEF UseCopy, CallOK, Going, TypeOK
<1>2. \/ /\ pc' = "done" /\ Len(data) = 0
         /\ result' = (mode = "loop" \/ Enough)
      \/ pc' = "write" /\ result' = result /\ Len(data) # 0
  BY Numbers DEF UseCopy, Finish, End
<1>3. TypeOK'
  <2>1. Wanted' = Wanted /\ result' \in BOOLEAN
    BY <1>1, <1>2 DEF TypeOK, Wanted
  <2>2. QED
    BY <1>1, <1>2, <2>1, Numbers DEF TypeOK
<1>4. FileOK'
  BY <1>1 DEF FileOK
<1>5. CallOK'
  BY <1>1, <1>2 DEF CallOK, Going
<1>6. LengthOK'
  <2>1. CASE pc' = "write"
    BY <1>1, <2>1, Numbers DEF LengthOK, Going, LeftOf
  <2>2. CASE pc' = "done"
    <3>1. /\ Len(data) = 0 /\ Len(out) = off - from /\ seenEnd <= off + Len(data)
          /\ mode = "loop" => from = 0
      BY <1>1, <1>2, <2>2, Numbers DEF LengthOK, CallOK, Going
    <3>2. mode = "sized" /\ statOk /\ result' => size <= off - from
      BY <1>1, <1>2, <2>2, EnoughMeansAll DEF Going
    <3>3. QED
      BY <1>1, <2>2, <3>1, <3>2, Numbers DEF LengthOK, Going
  <2>3. QED
    BY <1>2, <2>1, <2>2
<1>7. ContentOK'
  BY <1>1, <1>2 DEF ContentOK, Going
<1>8. QED
  BY <1>3, <1>4, <1>5, <1>6, <1>7

-----------------------------------------------------------------------------
(* Writing                                                                 *)

\* What a write adds to the destination, to a file or to a descriptor.
LEMMA WrittenGrows ==
  ASSUME IInv, pc \in {"write", "fd"}, NEW k \in 1..(Len(data) - put), out' = Written(k)
  PROVE  /\ out' \in Seq(Int) /\ Len(out') = Len(out) + k
         /\ \A j \in 1..Len(out') : out'[j] = IF j <= Len(out) THEN out[j] ELSE data[put + (j - Len(out))]
<1> USE DEF IInv
<1>1. /\ put \in Nat /\ k \in Nat /\ put + k <= Len(data)
      /\ data \in Seq(Int) /\ out \in Seq(Int)
  BY Numbers
<1>2. out' = out \o SubSeq(data, put + 1, put + k)
  BY DEF Written
<1>3. IsJoin(out', out, data, put, k)
  BY <1>1, <1>2, Joined
<1>4. QED
  BY <1>3 DEF IsJoin

LEMMA PwriteKeeps ==
  ASSUME IInv, NEW k \in 1..(MaxLen + 1), Pwrite(k)
  PROVE  IInv'
<1> USE DEF IInv, source
<1>0. MaxLen \in Nat /\ Word \in Nat /\ MaxLen < Word /\ BufSize \in Nat
  BY Constants
<1>13. /\ size \in Nat /\ size < Word /\ len \in Nat /\ len < Word
      /\ from \in Nat /\ off \in Nat /\ put \in Nat /\ seenEnd \in Nat
      /\ Len(file) \in Nat /\ Len(data) \in Nat /\ Len(out) \in Nat /\ Wanted \in Nat
  BY Numbers
<1>1. /\ pc = "write" /\ op \in {"copy", "range"} /\ mode \in {"sized", "loop"}
      /\ off >= from /\ off - from + Len(data) <= MaxLen /\ seenEnd <= off + Len(data)
      /\ Len(out) = (off - from) + put
      /\ mode = "loop" => from = 0
  BY Numbers DEF Pwrite, CallOK, LengthOK, Going, TypeOK
<1>2. /\ k \in Nat /\ k >= 1 /\ put + k <= Len(data) /\ k \in 1..(Len(data) - put)
      /\ out' = Written(k) /\ put' = put + k
      /\ UNCHANGED <<source, op, mode, size, from, statOk, readErr, seenEnd>>
  BY <1>0, Numbers DEF Pwrite
<1>3. /\ out' \in Seq(Int) /\ Len(out') = Len(out) + k
      /\ \A j \in 1..Len(out') : out'[j] = IF j <= Len(out) THEN out[j] ELSE data[put + (j - Len(out))]
  BY <1>1, <1>2, WrittenGrows
<1>4. \/ k < Len(data) - put /\ UNCHANGED <<pc, off, len, data, result>>
      \/ /\ k = Len(data) - put
         /\ off' = off + Len(data) /\ data' = <<>>
         /\ len' = IF mode = "sized" THEN Left(Len(data)) ELSE len
         /\ \/ mode = "sized" /\ len' = 0 /\ pc' = "done" /\ result' = TRUE
            \/ pc' = "read" /\ result' = result
  <2>1. CASE k < Len(data) - put
    BY <2>1 DEF Pwrite
  <2>2. CASE ~(k < Len(data) - put)
    <3>1. k = Len(data) - put
      BY <1>13, <1>2, <2>2
    <3>2. /\ off' = off + Len(data) /\ data' = <<>>
          /\ len' = IF mode = "sized" THEN Left(Len(data)) ELSE len
          /\ IF mode = "sized" /\ len' = 0
             THEN pc' = "done" /\ result' = TRUE
             ELSE pc' = "read" /\ result' = result
      BY <2>2 DEF Pwrite, Finish
    <3>3. QED
      BY <3>1, <3>2
  <2>3. QED
    BY <2>1, <2>2
<1>5. len' \in 0..(Word - 1)
  <2>1. Left(Len(data)) \in 0..(Word - 1)
    <3>1. len - Len(data) \in Int
      BY <1>13
    <3>2. QED
      BY <3>1, LeftRange DEF Left
  <2>2. len \in 0..(Word - 1)
    BY <1>0, <1>13
  <2>3. QED
    BY <1>4, <2>1, <2>2
<1>6. off' \in Nat /\ data' \in Seq(Int) /\ Wanted' = Wanted /\ put' \in Nat
  <2>1. off' \in Nat
    BY <1>13, <1>4
  <2>2. data' \in Seq(Int)
    <3>1. data \in Seq(Int) /\ <<>> \in Seq(Int)
      BY Numbers
    <3>2. QED
      BY <1>4, <3>1
  <2>3. Wanted' = Wanted /\ put' \in Nat
    BY <1>13, <1>2 DEF Wanted
  <2>4. QED
    BY <2>1, <2>2, <2>3
<1>7. TypeOK'
  <2>1. pc' \in {"read", "write", "done"} /\ result' \in BOOLEAN
    BY <1>1, <1>4 DEF TypeOK
  <2>2. pc' \in {"read", "use", "write"} => Len(data') <= Wanted
    BY <1>1, <1>4, Numbers DEF TypeOK
  <2>3. pc' \in {"write", "fd"} => put' <= Len(data')
    BY <1>1, <1>2, <1>4, <2>1
  <2>4. QED
    BY <1>2, <1>3, <1>5, <1>6, <2>1, <2>2, <2>3 DEF TypeOK
<1>8. FileOK'
  BY <1>2 DEF FileOK
<1>9. CallOK'
  BY <1>1, <1>2, <1>4 DEF CallOK, Going
<1>10. LengthOK'
  <2>1. CASE k < Len(data) - put /\ UNCHANGED <<pc, off, len, data, result>>
    <3>0. /\ off' = off /\ from' = from /\ put' = put + k /\ pc' = "write"
          /\ mode' = mode /\ size' = size /\ statOk' = statOk /\ len' = len
      BY <1>1, <1>2, <2>1
    <3>1. Len(out') = (off' - from') + put' /\ pc' = "write"
      <4>1. Len(out') = (off - from) + put + k
        BY <1>1, <1>3
      <4>2. QED
        BY <1>13, <1>2, <3>0, <4>1
    <3>2. /\ off' >= from' /\ off' - from' + Len(data') <= MaxLen
          /\ seenEnd' <= off' + Len(data')
          /\ mode' \in {"sized", "loop"}
      BY <1>1, <1>2, <2>1
    <3>3. mode' = "sized" /\ statOk' => len' = LeftOf(off - from)'
      BY <1>1, <3>0 DEF LengthOK, Going, LeftOf
    <3>4. QED
      BY <3>1, <3>2, <3>3 DEF LengthOK, Going, LeftOf
  <2>2. CASE /\ k = Len(data) - put
             /\ off' = off + Len(data) /\ data' = <<>>
             /\ len' = IF mode = "sized" THEN Left(Len(data)) ELSE len
             /\ \/ mode = "sized" /\ len' = 0 /\ pc' = "done" /\ result' = TRUE
                \/ pc' = "read" /\ result' = result
    <3>1. Len(out') = off' - from /\ Len(data') = 0 /\ off' - from <= MaxLen /\ off' \in Nat
      <4>1. Len(data') = 0
        BY <2>2
      <4>2. Len(out') = (off - from) + put + k /\ off' = off + Len(data) /\ k = Len(data) - put
        BY <1>1, <1>3, <2>2
      <4>3. QED
        BY <1>0, <1>13, <1>1, <4>1, <4>2
    <3>2. mode = "sized" /\ statOk => len' = LeftOf(off' - from)
      <4> SUFFICES ASSUME mode = "sized", statOk PROVE len' = LeftOf(off' - from)
        OBVIOUS
      <4>1. len = LeftOf(off - from) /\ size <= MaxLen
        BY <1>1 DEF LengthOK, CallOK, Going
      <4>2. len' = (len - Len(data)) % Word
        BY <2>2 DEF Left
      <4>3. len - Len(data) \in Int /\ -Word <= len - Len(data) /\ len - Len(data) < Word
        <5>1. len - Len(data) < Word
          BY <1>0, <1>13
        <5>2. Len(data) <= MaxLen
          BY <1>0, <1>13, <1>1
        <5>3. QED
          BY <1>0, <1>13, <5>1, <5>2
      <4>4. len' = IF len - Len(data) >= 0 THEN len - Len(data) ELSE len - Len(data) + Word
        BY <4>2, <4>3, ModSmall
      <4>5. QED
        <5> DEFINE d == off - from
        <5>1. d \in Nat /\ off' - from = d + Len(data) /\ d + Len(data) <= MaxLen
          BY <1>13, <1>1, <2>2
        <5>2. len = IF d <= size THEN size - d ELSE size - d + Word
          BY <4>1 DEF LeftOf
        <5> HIDE DEF d
        <5>3. CASE d <= size
          BY <1>0, <1>13, <4>4, <5>1, <5>2, <5>3 DEF LeftOf
        <5>4. CASE ~(d <= size)
          BY <1>0, <1>13, <4>4, <5>1, <5>2, <5>4 DEF LeftOf
        <5>5. QED
          BY <5>3, <5>4
    <3>3. mode = "sized" /\ statOk /\ len' = 0 => size <= off' - from
      <4> SUFFICES ASSUME mode = "sized", statOk, len' = 0 PROVE size <= off' - from
        OBVIOUS
      <4>1. LeftOf(off' - from) = 0
        BY <3>2
      <4>2. QED
        <5>1. off' - from \in Int /\ off' - from <= MaxLen
          BY <1>13, <3>1
        <5>2. QED
          BY <1>0, <1>13, <4>1, <5>1 DEF LeftOf
    <3>4. CASE pc' = "read"
      <4>1. off' >= from' /\ off' - from' + Len(data') <= MaxLen /\ seenEnd' <= off' + Len(data')
        BY <1>0, <1>13, <1>1, <1>2, <2>2, <3>1
      <4>2. Len(out') = off' - from' /\ mode' \in {"sized", "loop"}
        BY <1>1, <1>2, <3>1
      <4>3. mode' = "sized" /\ statOk' => len' = LeftOf(off - from)'
        BY <1>2, <3>2 DEF LeftOf
      <4>4. Len(out') = (off' - from') + 0
        BY <1>13, <1>2, <4>2, <1>6
      <4>5. QED
        BY <3>4, <4>1, <4>2, <4>3, <4>4 DEF LengthOK, Going, LeftOf
    <3>5. CASE pc' = "done" /\ mode = "sized" /\ len' = 0
      BY <1>2, <3>1, <3>3, <3>5, Numbers DEF LengthOK, Going
    <3>6. CASE pc' = "read" \/ (pc' = "done" /\ mode = "sized" /\ len' = 0)
      BY <3>4, <3>5, <3>6
    <3>7. QED
      BY <2>2, <3>6
  <2>3. QED
    BY <1>4, <2>1, <2>2
<1>11. ContentOK'
  <2> SUFFICES ASSUME ~altered PROVE ContentOK'
    BY <1>2 DEF ContentOK
  <2>1. /\ \A j \in 1..Len(data) : data[j] = off + j
        /\ off + Len(data) = from \/ off + Len(data) <= Len(file)
        /\ \A j \in 1..Len(out) : out[j] = from + j
    BY <1>1 DEF ContentOK, Going
  <2>2. \A j \in 1..Len(out') : out'[j] = from + j
    <3> TAKE j \in 1..Len(out')
    <3>0. Len(out) \in Nat /\ Len(data) \in Nat /\ put \in Nat /\ off \in Nat /\ from \in Nat
      BY Numbers
    <3>1. CASE j <= Len(out)
      <4>1. j \in 1..Len(out) /\ out'[j] = out[j]
        BY <1>3, <3>0, <3>1
      <4>2. QED
        BY <2>1, <4>1
    <3>2. CASE ~(j <= Len(out))
      <4>1. put + (j - Len(out)) \in 1..Len(data)
        BY <1>2, <1>3, <3>0, <3>2
      <4>2. out'[j] = data[put + (j - Len(out))]
        BY <1>3, <3>2
      <4>3. data[put + (j - Len(out))] = off + (put + (j - Len(out)))
        BY <2>1, <4>1
      <4>4. QED
        BY <1>1, <3>0, <4>2, <4>3
    <3>3. QED
      BY <3>1, <3>2
  <2>3. from + Len(out') <= Len(file)
    <3>1. Len(out') = (off - from) + put + k
      BY <1>1, <1>3
    <3>2. from + Len(out') <= off + Len(data) /\ off + Len(data) # from
      BY <1>13, <1>1, <1>2, <3>1
    <3>3. QED
      BY <1>13, <1>1, <1>2, <2>1, <3>1, <3>2
  <2>4. /\ \A j \in 1..Len(data') : data'[j] = off' + j
        /\ off' + Len(data') = from \/ off' + Len(data') <= Len(file)
    <3>1. CASE off' = off /\ data' = data
      BY <2>1, <3>1
    <3>2. CASE off' = off + Len(data) /\ data' = <<>>
      BY <2>1, <3>2, Numbers
    <3>3. QED
      BY <1>4, <3>1, <3>2
  <2>5. pc' # "fd"
    BY <1>1, <1>4
  <2>6. QED
    BY <1>2, <2>2, <2>3, <2>4, <2>5 DEF ContentOK
<1>12. QED
  BY <1>7, <1>8, <1>9, <1>10, <1>11

LEMMA PwriteFailsKeeps ==
  ASSUME IInv, PwriteFails
  PROVE  IInv'
<1> USE DEF IInv, source
<1>1. /\ pc = "write" /\ mode \in {"sized", "loop"} /\ pc' = "done"
      /\ result' = (mode = "sized" /\ Enough)
      /\ UNCHANGED <<source, op, mode, size, from, off, len, data, put, out, statOk, readErr, seenEnd>>
  BY DEF PwriteFails, Finish, CallOK, Going, TypeOK
<1>2. TypeOK'
  BY <1>1 DEF TypeOK
<1>3. FileOK'
  BY <1>1 DEF FileOK
<1>4. CallOK'
  BY <1>1 DEF CallOK, Going
<1>5. LengthOK'
  <2>1. Len(out) = (off - from) + put
    BY <1>1, Numbers DEF LengthOK, Going
  <2>2. result' /\ statOk => mode = "sized" /\ size <= off - from
    BY <1>1, EnoughMeansAll DEF Going
  <2>3. mode = "loop" => ~result'
    BY <1>1
  <2>4. QED
    BY <1>1, <2>1, <2>2, <2>3, Numbers DEF LengthOK, Going
<1>6. ContentOK'
  BY <1>1 DEF ContentOK, Going
<1>7. QED
  BY <1>2, <1>3, <1>4, <1>5, <1>6

LEMMA WriteFdKeeps ==
  ASSUME IInv, NEW k \in 1..(MaxLen + 1), WriteFd(k)
  PROVE  IInv'
<1> USE DEF IInv, source
<1>0. MaxLen \in Nat
  BY Constants
<1>1. /\ pc = "fd" /\ op = "fd" /\ mode \in {"whole", "loop"} /\ from = 0
      /\ Len(out) = put
      /\ mode = "whole" => Len(data) = size
      /\ mode = "loop" => seenEnd <= Len(data)
  BY DEF WriteFd, CallOK, LengthOK
<1>2. /\ k \in Nat /\ k >= 1 /\ put + k <= Len(data) /\ k \in 1..(Len(data) - put)
      /\ out' = Written(k) /\ put' = put + k
      /\ UNCHANGED <<source, op, mode, size, from, off, len, data, statOk, readErr, seenEnd>>
  BY <1>0, Numbers DEF WriteFd
<1>3. /\ out' \in Seq(Int) /\ Len(out') = Len(out) + k
      /\ \A j \in 1..Len(out') : out'[j] = IF j <= Len(out) THEN out[j] ELSE data[put + (j - Len(out))]
  BY <1>1, <1>2, WrittenGrows
<1>4. \/ pc' = "done" /\ result' = TRUE /\ put' = Len(data)
      \/ pc' = "fd" /\ result' = result
  BY <1>1 DEF WriteFd, Finish
<1>5. TypeOK'
  <2>1. put' \in Nat /\ put' <= Len(data')
    BY <1>2, Numbers
  <2>2. QED
    BY <1>2, <1>3, <1>4, <2>1 DEF TypeOK
<1>6. FileOK'
  BY <1>2 DEF FileOK
<1>7. CallOK'
  BY <1>1, <1>2, <1>4 DEF CallOK, Going
<1>8. LengthOK'
  BY <1>1, <1>2, <1>3, <1>4, Numbers DEF LengthOK, Going
<1>9. ContentOK'
  <2> SUFFICES ASSUME ~altered PROVE ContentOK'
    BY <1>2 DEF ContentOK
  <2>1. /\ Len(data) <= Len(file) /\ \A j \in 1..Len(data) : data[j] = j
        /\ \A j \in 1..Len(out) : out[j] = 0 + j
    BY <1>1 DEF ContentOK
  <2>2. \A j \in 1..Len(out') : out'[j] = 0 + j
    <3> TAKE j \in 1..Len(out')
    <3>0. Len(out) \in Nat /\ Len(data) \in Nat /\ put \in Nat
      BY Numbers
    <3>1. CASE j <= Len(out)
      <4>1. j \in 1..Len(out) /\ out'[j] = out[j]
        BY <1>3, <3>0, <3>1
      <4>2. QED
        BY <2>1, <4>1
    <3>2. CASE ~(j <= Len(out))
      <4>1. put + (j - Len(out)) = j /\ j \in 1..Len(data)
        BY <1>1, <1>2, <1>3, <3>0, <3>2
      <4>2. out'[j] = data[j]
        BY <1>3, <3>2, <4>1
      <4>3. QED
        BY <2>1, <4>1, <4>2
    <3>3. QED
      BY <3>1, <3>2
  <2>3. 0 + Len(out') <= Len(file)
    BY <1>1, <1>2, <1>3, <2>1, Numbers
  <2>4. QED
    BY <1>1, <1>2, <1>4, <2>1, <2>2, <2>3 DEF ContentOK, Going
<1>10. QED
  BY <1>5, <1>6, <1>7, <1>8, <1>9

LEMMA WriteFdFailsKeeps ==
  ASSUME IInv, WriteFdFails
  PROVE  IInv'
<1> USE DEF IInv, source, WriteFdFails, Finish
<1>1. TypeOK'
  BY DEF TypeOK
<1>2. FileOK'
  BY DEF FileOK
<1>3. CallOK'
  BY DEF CallOK, Going
<1>4. LengthOK'
  BY DEF LengthOK, Going
<1>5. ContentOK'
  BY DEF ContentOK, Going
<1>6. QED
  BY <1>1, <1>2, <1>3, <1>4, <1>5

-----------------------------------------------------------------------------
(* Other processes                                                         *)

LEMMA Append1Keeps ==
  ASSUME IInv, Append1
  PROVE  IInv'
<1> USE DEF IInv, Append1, caller
<1>0. MaxLen \in Nat
  BY Constants
<1>1. file \in Seq(Int) /\ Len(file) \in Nat
  BY Numbers
<1>2. /\ file' \in Seq(Int) /\ Len(file') = Len(file) + 1
      /\ \A j \in 1..Len(file') : file'[j] = IF j <= Len(file) THEN file[j] ELSE Len(file) + 1
  BY <1>1
<1>3. TypeOK'
  BY <1>2 DEF TypeOK, Wanted
<1>4. FileOK'
  <2>1. Len(file') \in 0..MaxLen
    BY <1>0, <1>1, <1>2
  <2>2. ASSUME ~altered, NEW j \in 1..Len(file') PROVE file'[j] = j
    <3>1. \A i \in 1..Len(file) : file[i] = i
      BY <2>2 DEF FileOK
    <3>2. CASE j <= Len(file)
      BY <1>1, <1>2, <3>1, <3>2
    <3>3. CASE ~(j <= Len(file))
      BY <1>1, <1>2, <3>3
    <3>4. QED
      BY <3>2, <3>3
  <2>3. QED
    BY <1>2, <2>1, <2>2 DEF FileOK
<1>5. CallOK'
  BY DEF CallOK, Going
<1>6. LengthOK'
  BY DEF LengthOK, Going, LeftOf
<1>7. ContentOK'
  BY <1>1, <1>2, Numbers DEF ContentOK, Going
<1>8. QED
  BY <1>3, <1>4, <1>5, <1>6, <1>7

LEMMA TruncateKeeps ==
  ASSUME IInv, NEW n \in 0..MaxLen, Truncate(n)
  PROVE  IInv'
<1> USE DEF IInv, Truncate, caller
<1>0. MaxLen \in Nat
  BY Constants
<1>1. file' \in Seq(Int) /\ Len(file') = n
  BY <1>0
<1>2. TypeOK'
  BY <1>1 DEF TypeOK, Wanted
<1>3. FileOK'
  BY <1>1 DEF FileOK
<1>4. CallOK'
  BY DEF CallOK, Going
<1>5. LengthOK'
  BY DEF LengthOK, Going, LeftOf
<1>6. ContentOK'
  BY DEF ContentOK
<1>7. QED
  BY <1>2, <1>3, <1>4, <1>5, <1>6

LEMMA UnlinkKeeps ==
  ASSUME IInv, Unlink
  PROVE  IInv'
<1> USE DEF IInv, Unlink, caller
<1>1. TypeOK'
  BY DEF TypeOK, Wanted
<1>2. FileOK'
  BY DEF FileOK
<1>3. CallOK' /\ LengthOK' /\ ContentOK'
  BY DEF CallOK, LengthOK, ContentOK, Going, LeftOf
<1>4. QED
  BY <1>1, <1>2, <1>3

LEMMA StutterKeeps ==
  ASSUME IInv, UNCHANGED vars
  PROVE  IInv'
<1> USE DEF IInv, vars, source
<1>1. TypeOK' /\ FileOK'
  BY DEF TypeOK, FileOK, Wanted
<1>2. CallOK' /\ LengthOK' /\ ContentOK'
  BY DEF CallOK, LengthOK, ContentOK, Going, LeftOf
<1>3. QED
  BY <1>1, <1>2

-----------------------------------------------------------------------------
LEMMA NextKeeps == IInv /\ [Next]_vars => IInv'
<1> SUFFICES ASSUME IInv, [Next]_vars PROVE IInv'
  OBVIOUS
<1>1. ASSUME NEW o \in {"copy", "string", "fd"}, Start(o) PROVE IInv'
  BY <1>1, StartKeeps
<1>2. ASSUME NEW a \in 0..1, NEW n \in 0..MaxLen, CopyRange(a, n) PROVE IInv'
  BY <1>2, CopyRangeKeeps
<1>3. CASE Step
  <2>1. ASSUME NEW k \in 1..(MaxLen + 1), Pread(k) \/ Pwrite(k) \/ WriteFd(k) PROVE IInv'
    BY <2>1, PreadKeeps, PwriteKeeps, WriteFdKeeps
  <2>2. QED
    BY <1>3, <2>1, StatKeeps, PreadEndKeeps, UseWholeKeeps, UseStringKeeps, UseCopyKeeps,
       PwriteFailsKeeps, WriteFdFailsKeeps DEF Step
<1>4. CASE Append1
  BY <1>4, Append1Keeps
<1>5. ASSUME NEW n \in 0..MaxLen, Truncate(n) PROVE IInv'
  BY <1>5, TruncateKeeps
<1>6. CASE Unlink
  BY <1>6, UnlinkKeeps
<1>7. CASE UNCHANGED vars
  BY <1>7, StutterKeeps
<1>8. QED
  BY <1>1, <1>2, <1>3, <1>4, <1>5, <1>6, <1>7 DEF Next

LEMMA Inductive == Spec => []IInv
<1>1. QED
  BY InitInv, NextKeeps, PTL DEF Spec

\* Every reachable state is well typed, and no read overruns its buffer, for
\* every length of the source, of the buffer and of the words.
THEOREM TypeCorrect == Spec => []TypeOK
<1>1. IInv => TypeOK
  BY DEF IInv
<1>2. QED
  BY <1>1, Inductive, PTL

\* What IInv says of the bytes is what TrueMeansDelivered says of prefixes.
LEMMA DeliveredFromInv == IInv => TrueMeansDelivered
<1> SUFFICES ASSUME IInv, pc = "done", result, mode = "loop" => ~readErr, mode # "loop" => statOk
             PROVE  /\ Len(out) >= IF mode = "loop" THEN seenEnd ELSE size
                    /\ ~altered => IsPrefix(out, SubSeq(file, from + 1, Len(file)))
  BY DEF TrueMeansDelivered
<1>1. Len(out) >= IF mode = "loop" THEN seenEnd ELSE size
  BY DEF IInv, LengthOK
<1>2. ASSUME ~altered PROVE IsPrefix(out, SubSeq(file, from + 1, Len(file)))
  <2> DEFINE rest == SubSeq(file, from + 1, Len(file))
  <2>0. /\ from \in Nat /\ file \in Seq(Int) /\ out \in Seq(Int)
        /\ Len(file) \in Nat /\ Len(out) \in Nat
    BY Numbers DEF IInv
  <2>1. /\ \A j \in 1..Len(out) : out[j] = from + j
        /\ Len(out) = 0 \/ from + Len(out) <= Len(file)
        /\ \A j \in 1..Len(file) : file[j] = j
    BY <1>2 DEF IInv, ContentOK, FileOK
  <2>2. /\ rest \in Seq(Int)
        /\ Len(rest) = IF from <= Len(file) THEN Len(file) - from ELSE 0
        /\ \A j \in 1..Len(rest) : rest[j] = file[from + j]
    BY <2>0
  <2> HIDE DEF rest
  <2>3. Len(out) <= Len(rest)
    BY <2>0, <2>1, <2>2
  <2>4. ASSUME NEW j \in 1..Len(out) PROVE out[j] = rest[j]
    <3>1. j \in 1..Len(rest)
      BY <2>0, <2>2, <2>3
    <3>3. from + j \in 1..Len(file)
      BY <2>0, <2>1
    <3>2. QED
      BY <2>1, <2>2, <3>1, <3>3
  <2>5. out = SubSeq(rest, 1, Len(out))
    BY <2>0, <2>2, <2>3, <2>4
  <2>6. IsPrefix(out, rest)
    BY <2>0, <2>2, <2>3, <2>5 DEF IsPrefix
  <2>7. QED
    BY <2>6 DEF rest
<1>3. QED
  BY <1>1, <1>2

\* A call that answers true has delivered at least what it measured, byte for
\* byte from the source, whatever reads and writes came short or failed and
\* whatever other processes did to the source meanwhile.
THEOREM TrueDelivers == Spec => []TrueMeansDelivered
<1>1. QED
  BY Inductive, DeliveredFromInv, PTL
=============================================================================
