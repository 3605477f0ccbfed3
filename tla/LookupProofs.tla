----------------------------- MODULE LookupProofs -----------------------------
(***************************************************************************)
(* Proofs about the lookups: of images (types, and that what is found is   *)
(* the first image there was all along), of symbols, and of the regions    *)
(* that pointers are checked against (types, that no permission is made    *)
(* up, that a fresh cache misses none), for any number of images, symbols, *)
(* pages and of changes other threads make.                                *)
(***************************************************************************)
EXTENDS MCLookup, FiniteSetTheorems, WellFoundedInduction, TLAPS

-----------------------------------------------------------------------------
(* Images                                                                  *)

\* The list of dyld: no image twice, and not more than there are.
ListOK ==
  /\ images \in Seq(Images)
  /\ IsInjective(images)
  /\ Len(images) \in 0..Cardinality(Images)
  /\ Main \in Range(images)

\* What has stood since the call began is in the list, and none of it has
\* moved past the number of images counted then.
StandingOK ==
  /\ standing \subseteq Range(images)
  /\ \A k \in DOMAIN images : images[k] \in standing => k <= count
  /\ pc # "idle" => Main \in standing

\* Where the indices are.
IndexOK ==
  /\ exeIdx <= i
  /\ pc = "name" => op = "base" /\ i < count
  /\ pc # "idle" => op \in LookupOps
  /\ pc = "idle" => op = "none" /\ i = 0 /\ exeIdx = -1 /\ info = Empty /\ standing = {}

ImageTypeInv == TypeOK /\ ListOK /\ StandingOK /\ IndexOK

\* None of s that was there all along is among the first n images of a list.
PassedIn(list, stood, n, s) == \A k \in DOMAIN list : k <= n => list[k] \notin s \cap stood
Passed(n, s) == PassedIn(images, standing, n, s)

\* The image at index n is the first of s.
Pointed(n, s) == n + 1 \in DOMAIN images /\ images[n + 1] \in s /\ Passed(n, s)

Answered == Pointed(i, Wanted) \/ (op = "base" /\ standing \cap Wanted = {} /\ Pointed(i, exec))

\* The search, as long as nothing at its index or before it was unloaded.
SearchOK ==
  /\ pc \in {"scan", "name"} =>
       /\ Passed(i, Wanted)
       /\ op = "base" => IF exeIdx = -1 THEN Passed(i, exec) ELSE Pointed(exeIdx, exec)
       /\ info = Empty
  /\ pc = "name" => i + 1 \in DOMAIN images /\ images[i + 1] \in exec /\ exeIdx # -1
  /\ pc \in {"header", "fullname", "slide"} => Answered
  /\ pc \in {"fullname", "slide"} => info.header = images[i + 1]
  /\ pc = "slide" => info.name = images[i + 1]
  /\ FindsFirst

ImageIInv == ImageTypeInv /\ (pc # "idle" /\ ~disturbed => SearchOK)

\* A list without repetitions is no longer than the set it is drawn from.
LEMMA InjectiveLength ==
  ASSUME NEW S, IsFiniteSet(S), NEW s \in Seq(S), IsInjective(s)
  PROVE  Len(s) \in 0..Cardinality(S)
<1>1. s \in Injection(1..Len(s), S)
  BY DEF Injection, IsInjective
<1>2. Cardinality(1..Len(s)) <= Cardinality(S)
  BY <1>1, FS_Injection
<1>3. Len(s) \in Nat /\ Cardinality(1..Len(s)) = Len(s)
  <2>1. Len(s) \in Nat /\ 1 \in Int /\ Len(s) \in Int
    OBVIOUS
  <2>2. Cardinality(1..Len(s)) = IF 1 > Len(s) THEN 0 ELSE Len(s) - 1 + 1
    BY <2>1, FS_Interval
  <2>3. QED
    BY <2>1, <2>2
<1>4. Cardinality(S) \in Nat
  BY FS_CardinalityType
<1>5. QED
  BY <1>2, <1>3, <1>4

\* What is left when the image at k goes.
LEMMA Removed ==
  ASSUME NEW S, NEW s \in Seq(S), NEW k \in 1..Len(s), IsInjective(s)
  PROVE  LET t == RemoveAt(s, k) IN
         /\ t \in Seq(S) /\ Len(t) = Len(s) - 1 /\ IsInjective(t)
         /\ \A n \in 1..Len(t) : t[n] = IF n < k THEN s[n] ELSE s[n + 1]
         /\ Range(t) = Range(s) \ {s[k]}
<1> DEFINE t == RemoveAt(s, k)
           a == SubSeq(s, 1, k - 1)
           b == SubSeq(s, k + 1, Len(s))
<1>1. /\ a \in Seq(S) /\ Len(a) = k - 1 /\ \A n \in 1..(k - 1) : a[n] = s[n]
      /\ b \in Seq(S) /\ Len(b) = Len(s) - k /\ \A n \in 1..(Len(s) - k) : b[n] = s[k + n]
  OBVIOUS
<1>2. t = a \o b
  BY DEF RemoveAt
<1> HIDE DEF t, a, b
<1>3. t \in Seq(S) /\ Len(t) = Len(s) - 1
  BY <1>1, <1>2
<1>4. ASSUME NEW n \in 1..Len(t) PROVE t[n] = IF n < k THEN s[n] ELSE s[n + 1]
  <2>1. t[n] = IF n <= Len(a) THEN a[n] ELSE b[n - Len(a)]
    BY <1>1, <1>2, <1>3
  <2>2. CASE n < k
    <3>1. n \in 1..(k - 1) /\ n <= Len(a)
      BY <1>1, <1>3, <2>2
    <3>2. a[n] = s[n]
      BY <1>1, <3>1
    <3>3. QED
      BY <2>1, <2>2, <3>1, <3>2
  <2>3. CASE ~(n < k)
    <3> DEFINE j == n - (k - 1)
    <3>1. j \in 1..(Len(s) - k) /\ ~(n <= Len(a)) /\ n - Len(a) = j /\ k + j = n + 1
      BY <1>1, <1>3, <2>3
    <3> HIDE DEF j
    <3>2. b[j] = s[k + j]
      BY <1>1, <3>1
    <3>3. QED
      BY <2>1, <2>3, <3>1, <3>2
  <2>4. QED
    BY <2>2, <2>3
<1>5. IsInjective(t)
  <2>1. SUFFICES ASSUME NEW m \in 1..Len(t), NEW n \in 1..Len(t), t[m] = t[n]
                 PROVE  m = n
    BY <1>3 DEF IsInjective
  <2> DEFINE old(j) == IF j < k THEN j ELSE j + 1
  <2>2. /\ old(m) \in 1..Len(s) /\ old(n) \in 1..Len(s)
        /\ s[old(m)] = t[m] /\ s[old(n)] = t[n]
    BY <1>3, <1>4
  <2>3. old(m) = old(n)
    BY <2>1, <2>2 DEF IsInjective
  <2>4. QED
    BY <1>3, <2>3
<1>6. Range(t) = Range(s) \ {s[k]}
  <2>1. ASSUME NEW n \in 1..Len(t) PROVE t[n] \in Range(s) \ {s[k]}
    <3> DEFINE j == IF n < k THEN n ELSE n + 1
    <3>1. t[n] = s[j] /\ j \in 1..Len(s) /\ j # k
      BY <1>3, <1>4
    <3> HIDE DEF j
    <3>2. s[j] # s[k] /\ k \in 1..Len(s)
      BY <3>1 DEF IsInjective
    <3>3. QED
      BY <3>1, <3>2 DEF Range
  <2>2. ASSUME NEW m \in 1..Len(s), m # k PROVE s[m] \in Range(t)
    <3>1. CASE m < k
      BY <1>3, <1>4, <3>1 DEF Range
    <3>2. CASE m > k
      <4>1. m - 1 \in 1..Len(t) /\ t[m - 1] = s[m]
        BY <1>3, <1>4, <3>2
      <4>2. QED
        BY <4>1, <1>3 DEF Range
    <3>3. QED
      BY <2>2, <3>1, <3>2
  <2>3. DOMAIN t = 1..Len(t) /\ DOMAIN s = 1..Len(s)
    BY <1>3
  <2>4. Range(t) \subseteq Range(s) \ {s[k]}
    BY <2>1, <2>3 DEF Range
  <2>5. Range(s) \ {s[k]} \subseteq Range(t)
    BY <2>2, <2>3 DEF Range
  <2>6. QED
    BY <2>4, <2>5
<1>7. QED
  BY <1>3, <1>4, <1>5, <1>6 DEF t

\* A list to which an image is added.
LEMMA Added ==
  ASSUME NEW S, NEW s \in Seq(S), NEW m \in S, IsInjective(s), m \notin Range(s)
  PROVE  LET t == Append(s, m) IN
         /\ t \in Seq(S) /\ Len(t) = Len(s) + 1 /\ IsInjective(t)
         /\ \A n \in 1..Len(s) : t[n] = s[n]
         /\ t[Len(s) + 1] = m
         /\ Range(t) = Range(s) \cup {m}
<1> DEFINE t == Append(s, m)
<1>1. /\ t \in Seq(S) /\ Len(t) = Len(s) + 1 /\ DOMAIN t = 1..(Len(s) + 1)
      /\ DOMAIN s = 1..Len(s) /\ Len(s) \in Nat
      /\ \A n \in 1..Len(s) : t[n] = s[n]
      /\ t[Len(s) + 1] = m
  OBVIOUS
<1> HIDE DEF t
<1>2. IsInjective(t)
  BY <1>1 DEF IsInjective, Range
<1>3. Range(t) = Range(s) \cup {m}
  BY <1>1 DEF Range
<1>4. QED
  BY <1>1, <1>2, <1>3 DEF t

(* Types                                                                   *)

LEMMA StartTypes ==
  ASSUME Init PROVE ImageTypeInv
<1>1. /\ IsInjective(images) /\ Main \in Range(images)
      /\ \E n \in 1..Cardinality(Images) : images \in [1..n -> Images]
  BY DEF Init
<1>2. images \in Seq(Images)
  BY <1>1
<1>3. ListOK
  BY <1>1, <1>2, LookupAssumption, InjectiveLength DEF ListOK
<1>4. Cardinality(Images) \in Nat \ {0}
  <2>1. Cardinality(Images) \in Nat
    BY LookupAssumption, FS_CardinalityType
  <2>2. Cardinality(Images) # 0
    BY LookupAssumption, FS_EmptySet
  <2>3. QED
    BY <2>1, <2>2
<1>5. TypeOK
  <2>1. count \in 0..Cardinality(Images) /\ i \in 0..Cardinality(Images)
        /\ exeIdx \in -1..(Cardinality(Images) - 1) /\ (op # "mem_base" => i <= count)
    BY <1>4 DEF Init
  <2>2. changes \in 0..MaxChanges /\ {exec, named, standing} \subseteq SUBSET Images /\ Main \in exec
    BY LookupAssumption DEF Init
  <2>3. info \in [header : Fields, name : Fields, address : Fields]
    BY DEF Init, Empty, Unset, Fields
  <2>4. QED
    BY <1>2, <2>1, <2>2, <2>3 DEF Init, TypeOK
<1>6. StandingOK /\ IndexOK
  BY DEF Init, StandingOK, IndexOK
<1>7. QED
  BY <1>3, <1>5, <1>6 DEF ImageTypeInv

\* The changes of the list.
LEMMA LoadTypes ==
  ASSUME ImageTypeInv, NEW m \in Images, Load(m)
  PROVE  /\ ImageTypeInv'
         /\ Len(images') = Len(images) + 1
         /\ \A n \in 1..Len(images) : images'[n] = images[n]
         /\ images'[Len(images) + 1] = m /\ m \notin standing
<1>1. /\ images' = Append(images, m) /\ m \notin Range(images)
      /\ changes < MaxChanges /\ changes' = changes + 1 /\ pc # "done"
      /\ UNCHANGED <<exec, named, op, pc, count, i, exeIdx, info, standing, disturbed>>
  BY DEF Load
<1>2. images \in Seq(Images) /\ IsInjective(images) /\ Main \in Range(images)
  BY DEF ImageTypeInv, ListOK
<1>3. /\ images' \in Seq(Images) /\ Len(images') = Len(images) + 1 /\ IsInjective(images')
      /\ \A n \in 1..Len(images) : images'[n] = images[n]
      /\ images'[Len(images) + 1] = m
      /\ Range(images') = Range(images) \cup {m}
  BY <1>1, <1>2, Added
<1>4. ListOK'
  BY <1>2, <1>3, LookupAssumption, InjectiveLength DEF ListOK
<1>5. m \notin standing
  BY <1>1 DEF ImageTypeInv, StandingOK
<1>6. StandingOK'
  <2>1. ASSUME NEW k \in DOMAIN images', images'[k] \in standing PROVE k <= count
    <3>1. k \in 1..Len(images) /\ images'[k] = images[k]
      BY <1>2, <1>3, <1>5, <2>1
    <3>2. QED
      BY <1>2, <2>1, <3>1 DEF ImageTypeInv, StandingOK
  <2>2. QED
    BY <1>1, <1>3, <2>1 DEF ImageTypeInv, StandingOK
<1>7. TypeOK' /\ IndexOK'
  BY <1>1, <1>3, LookupAssumption DEF ImageTypeInv, TypeOK, IndexOK
<1>8. QED
  BY <1>3, <1>4, <1>5, <1>6, <1>7 DEF ImageTypeInv

LEMMA UnloadTypes ==
  ASSUME ImageTypeInv, NEW k \in 1..Len(images), Unload(k)
  PROVE  /\ ImageTypeInv'
         /\ Len(images') = Len(images) - 1
         /\ \A n \in 1..Len(images') : images'[n] = IF n < k THEN images[n] ELSE images[n + 1]
<1>1. /\ images' = RemoveAt(images, k) /\ images[k] # Main
      /\ standing' = standing \ {images[k]}
      /\ disturbed' = (disturbed \/ (pc # "idle" /\ k - 1 <= i))
      /\ changes < MaxChanges /\ changes' = changes + 1 /\ pc # "done"
      /\ UNCHANGED <<exec, named, op, pc, count, i, exeIdx, info>>
  BY DEF Unload
<1>2. images \in Seq(Images) /\ IsInjective(images) /\ Main \in Range(images)
  BY DEF ImageTypeInv, ListOK
<1>3. /\ images' \in Seq(Images) /\ Len(images') = Len(images) - 1 /\ IsInjective(images')
      /\ \A n \in 1..Len(images') : images'[n] = IF n < k THEN images[n] ELSE images[n + 1]
      /\ Range(images') = Range(images) \ {images[k]}
  BY <1>1, <1>2, Removed
<1>4. ListOK'
  BY <1>1, <1>2, <1>3, LookupAssumption, InjectiveLength DEF ListOK
<1>5. StandingOK'
  <2>1. ASSUME NEW n \in DOMAIN images', images'[n] \in standing' PROVE n <= count
    <3>1. n \in 1..Len(images')
      BY <1>3, <2>1
    <3>2. CASE n < k
      BY <1>1, <1>2, <1>3, <2>1, <3>1, <3>2 DEF ImageTypeInv, StandingOK
    <3>3. CASE n >= k
      <4>1. n + 1 \in DOMAIN images /\ images[n + 1] \in standing
        BY <1>1, <1>2, <1>3, <2>1, <3>1, <3>3
      <4>2. n + 1 <= count /\ count \in Nat
        BY <4>1 DEF ImageTypeInv, StandingOK, TypeOK
      <4>3. QED
        BY <3>1, <4>2
    <3>4. QED
      BY <3>1, <3>2, <3>3
  <2>2. standing' \subseteq Range(images') /\ (pc' # "idle" => Main \in standing')
    BY <1>1, <1>3 DEF ImageTypeInv, StandingOK
  <2>3. QED
    BY <1>1, <2>1, <2>2 DEF StandingOK
<1>6. IndexOK'
  BY <1>1 DEF ImageTypeInv, IndexOK
<1>7. disturbed' \in BOOLEAN /\ changes' \in 0..MaxChanges /\ standing' \subseteq Images
  BY <1>1, LookupAssumption DEF ImageTypeInv, TypeOK
<1>8. TypeOK'
  BY <1>1, <1>3, <1>7 DEF ImageTypeInv, TypeOK
<1>9. QED
  BY <1>3, <1>4, <1>5, <1>6, <1>8 DEF ImageTypeInv

\* The steps of the call.
LEMMA BeginTypes ==
  ASSUME ImageTypeInv, NEW o \in LookupOps, Begin(o)
  PROVE  ImageTypeInv'
<1>1. /\ pc = "idle" /\ op' = o /\ pc' = "scan" /\ count' = Len(images)
      /\ standing' = Range(images)
      /\ UNCHANGED <<images, exec, named, changes, i, exeIdx, info, disturbed>>
  BY DEF Begin, dyld
<1>2. ListOK'
  BY <1>1 DEF ImageTypeInv, ListOK
<1>3. images \in Seq(Images) /\ Main \in Range(images) /\ i = 0 /\ exeIdx = -1
      /\ Len(images) \in 0..Cardinality(Images) /\ Range(images) \subseteq Images
  <2>1. images \in Seq(Images)
    BY DEF ImageTypeInv, ListOK
  <2>2. Range(images) \subseteq Images
    BY <2>1 DEF Range
  <2>3. QED
    BY <1>1, <2>2 DEF ImageTypeInv, ListOK, IndexOK
<1>4. StandingOK'
  <2>1. \A k \in DOMAIN images' : images'[k] \in standing' => k <= count'
    BY <1>1, <1>3
  <2>2. QED
    BY <1>1, <1>3, <2>1 DEF StandingOK
<1>5. IndexOK'
  BY <1>1, <1>3 DEF IndexOK
<1>6. TypeOK'
  BY <1>1, <1>3 DEF ImageTypeInv, TypeOK
<1>7. QED
  BY <1>2, <1>4, <1>5, <1>6 DEF ImageTypeInv

\* A step of the search leaves dyld and the history alone.
Searching == UNCHANGED <<images, exec, named, changes, standing, disturbed, op, count>>

LEMMA SearchTypes ==
  ASSUME ImageTypeInv, Searching, pc \notin {"idle", "done"}, pc' # "idle",
         pc' \in {"scan", "name", "header", "fullname", "slide", "done"},
         i' \in 0..Cardinality(Images), exeIdx' \in -1..(Cardinality(Images) - 1),
         exeIdx' <= i', op # "mem_base" => i' <= count,
         pc' = "name" => op = "base" /\ i' < count,
         info' \in [header : Fields, name : Fields, address : Fields]
  PROVE  ImageTypeInv'
<1>1. ListOK'
  BY DEF Searching, ImageTypeInv, ListOK
<1>2. StandingOK'
  BY DEF Searching, ImageTypeInv, StandingOK
<1>3. IndexOK'
  BY DEF Searching, ImageTypeInv, IndexOK
<1>4. TypeOK'
  BY DEF Searching, ImageTypeInv, TypeOK
<1>5. QED
  BY <1>1, <1>2, <1>3, <1>4 DEF ImageTypeInv

LEMMA ImageAtType ==
  ASSUME ImageTypeInv, NEW k \in Nat
  PROVE  /\ ImageAt(k) \in Fields
         /\ ImageAt(k) \in Images => k + 1 \in DOMAIN images /\ ImageAt(k) = images[k + 1]
<1>1. images \in Seq(Images)
  BY DEF ImageTypeInv, ListOK
<1>2. CASE k < Len(images)
  BY <1>1, <1>2 DEF ImageAt, Fields
<1>3. CASE ~(k < Len(images))
  BY <1>3, LookupAssumption DEF ImageAt, Unset, Fields
<1>4. QED
  BY <1>2, <1>3

LEMMA StepTypes ==
  ASSUME ImageTypeInv, Step
  PROVE  ImageTypeInv' /\ Searching
<1>0. /\ i \in 0..Cardinality(Images) /\ exeIdx \in -1..(Cardinality(Images) - 1) /\ exeIdx <= i
      /\ count \in 0..Cardinality(Images) /\ (op # "mem_base" => i <= count)
      /\ Cardinality(Images) \in Nat /\ Len(images) \in 0..Cardinality(Images)
      /\ info \in [header : Fields, name : Fields, address : Fields]
      /\ NoImage \in Fields
  BY LookupAssumption, FS_CardinalityType
  DEF ImageTypeInv, TypeOK, IndexOK, ListOK, Unset, Fields
<1>l. i < Limit => i + 1 \in 0..Cardinality(Images) /\ i <= Cardinality(Images) - 1
                   /\ (op # "mem_base" => i < count)
  BY <1>0 DEF Limit
<1>1. CASE ScanHeader
  BY <1>0, <1>l, <1>1, SearchTypes DEF ScanHeader, dyld, Searching, FirstExec, NextIndex
<1>2. CASE ScanName
  BY <1>0, <1>l, <1>2, SearchTypes DEF ScanName, dyld, Searching, NextIndex, ImageTypeInv, IndexOK
<1>3. CASE ScanEnd
  <2>1. info' \in [header : Fields, name : Fields, address : Fields]
    BY <1>0, <1>3 DEF ScanEnd, Empty, Unset, Fields
  <2>2. QED
    BY <1>0, <1>3, <2>1, SearchTypes DEF ScanEnd, dyld, Searching
<1>4. CASE ReadHeader
  BY <1>0, <1>4, ImageAtType, SearchTypes DEF ReadHeader, dyld, Searching
<1>5. CASE ReadName
  BY <1>0, <1>5, ImageAtType, SearchTypes DEF ReadName, dyld, Searching
<1>6. CASE ReadSlide
  BY <1>0, <1>6, ImageAtType, SearchTypes DEF ReadSlide, dyld, Searching
<1>7. QED
  BY <1>1, <1>2, <1>3, <1>4, <1>5, <1>6 DEF Step

\* Every step keeps the types.
LEMMA TypeStep ==
  ASSUME ImageTypeInv, [Next]_vars
  PROVE  ImageTypeInv'
<1>1. CASE UNCHANGED vars
  BY <1>1 DEF vars, dyld, ImageTypeInv, TypeOK, ListOK, StandingOK, IndexOK
<1>2. CASE Next
  BY <1>2, BeginTypes, StepTypes, LoadTypes, UnloadTypes DEF Next
<1>3. QED
  BY <1>1, <1>2

(* The search                                                              *)

\* An unload behind the index leaves what the search has passed and found.
LEMMA UnloadKeeps ==
  ASSUME ImageTypeInv, NEW k \in 1..Len(images), Unload(k), pc # "idle", ~disturbed',
         NEW n \in Int, n <= i
  PROVE  /\ ~disturbed
         /\ \A s : PassedIn(images, standing, n, s) => PassedIn(images', standing', n, s)
         /\ n + 1 \in DOMAIN images => n + 1 \in DOMAIN images' /\ images'[n + 1] = images[n + 1]
<1>1. /\ ~disturbed /\ ~(k - 1 <= i) /\ standing' \subseteq standing
  BY DEF Unload
<1>2. /\ images \in Seq(Images) /\ images' \in Seq(Images) /\ i \in Nat
      /\ Len(images') = Len(images) - 1
      /\ \A j \in 1..Len(images') : images'[j] = IF j < k THEN images[j] ELSE images[j + 1]
  BY UnloadTypes DEF ImageTypeInv, ListOK, TypeOK
<1>3. \A j \in 1..Len(images') : j <= i + 1 => j \in 1..Len(images) /\ images'[j] = images[j]
  BY <1>1, <1>2
<1>4. n + 1 \in DOMAIN images => n + 1 \in DOMAIN images' /\ images'[n + 1] = images[n + 1]
  BY <1>1, <1>2, <1>3
<1>5. ASSUME NEW s, PassedIn(images, standing, n, s), NEW j \in DOMAIN images', j <= n
      PROVE  images'[j] \notin s \cap standing'
  <2>1. j \in DOMAIN images /\ images'[j] = images[j]
    BY <1>2, <1>3, <1>5
  <2>2. QED
    BY <1>1, <1>5, <2>1 DEF PassedIn
<1>6. QED
  BY <1>1, <1>4, <1>5 DEF PassedIn

\* So does a load.
LEMMA LoadKeeps ==
  ASSUME ImageTypeInv, NEW m \in Images, Load(m), NEW n \in Int
  PROVE  /\ standing' = standing
         /\ \A s : PassedIn(images, standing, n, s) => PassedIn(images', standing', n, s)
         /\ n + 1 \in DOMAIN images => n + 1 \in DOMAIN images' /\ images'[n + 1] = images[n + 1]
<1>1. standing' = standing
  BY DEF Load
<1>2. /\ images \in Seq(Images) /\ images' \in Seq(Images)
      /\ Len(images') = Len(images) + 1
      /\ \A j \in 1..Len(images) : images'[j] = images[j]
      /\ images'[Len(images) + 1] \notin standing
  BY LoadTypes DEF ImageTypeInv, ListOK
<1>3. n + 1 \in DOMAIN images => n + 1 \in DOMAIN images' /\ images'[n + 1] = images[n + 1]
  BY <1>2
<1>4. ASSUME NEW s, PassedIn(images, standing, n, s), NEW j \in DOMAIN images', j <= n
      PROVE  images'[j] \notin s \cap standing'
  <2>1. CASE j = Len(images) + 1
    BY <1>1, <1>2, <2>1
  <2>2. CASE j # Len(images) + 1
    <3>1. j \in DOMAIN images /\ images'[j] = images[j]
      BY <1>2, <2>2
    <3>2. QED
      BY <1>1, <1>4, <3>1 DEF PassedIn
  <2>3. QED
    BY <2>1, <2>2
<1>5. QED
  BY <1>1, <1>3, <1>4 DEF PassedIn

\* A change of the list that keeps what was passed and found keeps the search.
LEMMA ChangeKeeps ==
  ASSUME ImageTypeInv, SearchOK, pc # "done",
         UNCHANGED <<exec, named, op, pc, i, exeIdx, info>>,
         standing' \subseteq standing,
         \A s : PassedIn(images, standing, i, s) => PassedIn(images', standing', i, s),
         \A s : PassedIn(images, standing, exeIdx, s) => PassedIn(images', standing', exeIdx, s),
         i + 1 \in DOMAIN images => i + 1 \in DOMAIN images' /\ images'[i + 1] = images[i + 1],
         exeIdx + 1 \in DOMAIN images =>
           exeIdx + 1 \in DOMAIN images' /\ images'[exeIdx + 1] = images[exeIdx + 1]
  PROVE  SearchOK'
<1>1. Wanted' = Wanted
  BY DEF Wanted
<1>2. /\ Passed(i, Wanted) => Passed(i, Wanted)'
      /\ Passed(i, exec) => Passed(i, exec)'
  BY <1>1 DEF Passed
<1>3. /\ Pointed(exeIdx, exec) => Pointed(exeIdx, exec)'
      /\ Pointed(i, exec) => Pointed(i, exec)'
      /\ Pointed(i, Wanted) => Pointed(i, Wanted)'
  BY <1>1 DEF Passed, Pointed
<1>4. Answered => Answered' /\ i + 1 \in DOMAIN images /\ images'[i + 1] = images[i + 1]
  BY <1>1, <1>3 DEF Answered, Pointed
<1>5. FindsFirst'
  BY DEF FindsFirst
<1>6. QED
  BY <1>2, <1>3, <1>4, <1>5 DEF SearchOK

\* All that was there all along is before the limit.
LEMMA AllPassed ==
  ASSUME ImageTypeInv, NEW s, Passed(i, s), i >= Limit
  PROVE  standing \cap s = {}
<1>1. /\ images \in Seq(Images) /\ standing \subseteq Range(images)
      /\ \A k \in DOMAIN images : images[k] \in standing => k <= count
      /\ i \in Nat /\ count \in Nat
  BY DEF ImageTypeInv, ListOK, StandingOK, TypeOK
<1>2. ASSUME NEW m \in standing PROVE m \notin s
  <2>1. PICK k \in DOMAIN images : images[k] = m
    BY <1>1 DEF Range
  <2>2. k <= i
    BY <1>1, <2>1 DEF Limit
  <2>3. QED
    BY <2>1, <2>2 DEF Passed, PassedIn
<1>3. QED
  BY <1>2

\* An image that is not wanted is passed.
LEMMA PassOne ==
  ASSUME ImageTypeInv, NEW s, NoImage \notin s, s \subseteq Images, Passed(i, s), ImageAt(i) \notin s
  PROVE  PassedIn(images, standing, i + 1, s)
<1>1. images \in Seq(Images) /\ i \in Nat
  BY DEF ImageTypeInv, ListOK, TypeOK
<1>2. SUFFICES ASSUME NEW k \in DOMAIN images, k <= i + 1
               PROVE  images[k] \notin s \cap standing
  BY DEF PassedIn
<1>3. CASE k <= i
  BY <1>3 DEF Passed, PassedIn
<1>4. CASE k = i + 1
  <2>1. ImageAt(i) = images[k]
    BY <1>1, <1>2, <1>4 DEF ImageAt
  <2>2. QED
    BY <2>1
<1>5. QED
  BY <1>1, <1>2, <1>3, <1>4

LEMMA Sets ==
  ASSUME ImageTypeInv
  PROVE  /\ exec \subseteq Images /\ named \subseteq Images /\ Wanted \subseteq Images
         /\ NoImage \notin exec /\ NoImage \notin named /\ NoImage \notin Wanted
         /\ (op = "base" => Wanted = exec \cap named) /\ (op # "base" => Wanted = named)
<1>1. exec \subseteq Images /\ named \subseteq Images
  BY DEF ImageTypeInv, TypeOK
<1>2. QED
  BY <1>1, LookupAssumption DEF Wanted

LEMMA ScanHeaderKeeps ==
  ASSUME ImageTypeInv, SearchOK, ScanHeader
  PROVE  SearchOK'
<1>1. /\ pc = "scan" /\ op = "base"
      /\ UNCHANGED <<images, exec, named, standing, op, info>>
      /\ Passed(i, Wanted) /\ info = Empty
      /\ IF exeIdx = -1 THEN Passed(i, exec) ELSE Pointed(exeIdx, exec)
  BY DEF ScanHeader, dyld, SearchOK
<1>2. Wanted' = Wanted /\ i \in Nat
  BY <1>1 DEF Wanted, ImageTypeInv, TypeOK
<1>3. CASE ImageAt(i) \in exec
  <2>1. exeIdx' = FirstExec(i) /\ pc' = "name" /\ i' = i
    BY <1>3 DEF ScanHeader
  <2>2. i + 1 \in DOMAIN images /\ images[i + 1] \in exec
    BY <1>2, <1>3, Sets, ImageAtType
  <2>3. exeIdx' # -1 /\ Pointed(exeIdx', exec)
    BY <1>1, <1>2, <2>1, <2>2 DEF FirstExec, Pointed
  <2>4. Pointed(exeIdx, exec)'
    BY <1>1, <2>3 DEF Pointed, Passed
  <2>5. Passed(i, Wanted)'
    BY <1>1, <1>2, <2>1 DEF Passed
  <2>6. QED
    BY <1>1, <2>1, <2>2, <2>3, <2>4, <2>5 DEF SearchOK, FindsFirst
<1>4. CASE ImageAt(i) \notin exec
  <2>1. i' = i + 1 /\ exeIdx' = exeIdx /\ pc' = "scan"
    BY <1>1, <1>4 DEF ScanHeader, NextIndex
  <2>2. Passed(i, Wanted)'
    <3>1. PassedIn(images, standing, i + 1, Wanted)
      BY <1>1, <1>4, Sets, PassOne
    <3>2. QED
      BY <1>1, <1>2, <2>1, <3>1 DEF Passed
  <2>3. CASE exeIdx = -1
    <3>1. PassedIn(images, standing, i + 1, exec)
      BY <1>1, <1>4, <2>3, Sets, PassOne
    <3>2. Passed(i, exec)'
      BY <1>1, <2>1, <3>1 DEF Passed
    <3>3. QED
      BY <1>1, <2>1, <2>2, <2>3, <3>2 DEF SearchOK, FindsFirst
  <2>4. CASE exeIdx # -1
    <3>1. Pointed(exeIdx, exec)'
      BY <1>1, <2>1, <2>4 DEF Pointed, Passed
    <3>2. QED
      BY <1>1, <2>1, <2>2, <2>4, <3>1 DEF SearchOK, FindsFirst
  <2>5. QED
    BY <2>3, <2>4
<1>5. QED
  BY <1>3, <1>4

LEMMA ScanNameKeeps ==
  ASSUME ImageTypeInv, SearchOK, ScanName
  PROVE  SearchOK'
<1>1. /\ pc \in {"scan", "name"} /\ (pc = "name" <=> op = "base")
      /\ UNCHANGED <<images, exec, named, standing, op, info>>
      /\ Passed(i, Wanted) /\ info = Empty
  BY DEF ScanName, dyld, SearchOK, ImageTypeInv, IndexOK
<1>2. Wanted' = Wanted /\ i \in Nat
  BY <1>1 DEF Wanted, ImageTypeInv, TypeOK
<1>3. pc = "name" => i + 1 \in DOMAIN images /\ images[i + 1] \in exec /\ exeIdx # -1
                     /\ Pointed(exeIdx, exec)
  BY <1>1 DEF SearchOK
<1>4. CASE ImageAt(i) \in named
  <2>1. exeIdx' = i /\ pc' = "header" /\ i' = i
    BY <1>4 DEF ScanName
  <2>2. i + 1 \in DOMAIN images /\ images[i + 1] \in named
    BY <1>2, <1>4, Sets, ImageAtType
  <2>3. images[i + 1] \in Wanted
    BY <1>1, <1>3, <2>2, Sets
  <2>4. Pointed(i, Wanted)'
    BY <1>1, <1>2, <2>1, <2>2, <2>3 DEF Pointed, Passed
  <2>5. QED
    BY <2>1, <2>4 DEF SearchOK, Answered, FindsFirst
<1>5. CASE ImageAt(i) \notin named
  <2>1. i' = i + 1 /\ exeIdx' = exeIdx /\ pc' = "scan"
    BY <1>5 DEF ScanName, NextIndex
  <2>2. Passed(i, Wanted)'
    <3>1. PassedIn(images, standing, i + 1, Wanted)
      BY <1>1, <1>5, Sets, PassOne
    <3>2. QED
      BY <1>1, <1>2, <2>1, <3>1 DEF Passed
  <2>3. op = "base" => exeIdx # -1 /\ Pointed(exeIdx, exec)'
    BY <1>1, <1>3, <2>1 DEF Pointed, Passed
  <2>4. QED
    BY <1>1, <2>1, <2>2, <2>3 DEF SearchOK, FindsFirst
<1>6. QED
  BY <1>4, <1>5

LEMMA ScanEndKeeps ==
  ASSUME ImageTypeInv, SearchOK, ScanEnd
  PROVE  SearchOK'
<1>1. /\ pc = "scan" /\ i >= Limit
      /\ UNCHANGED <<images, exec, named, standing, op, exeIdx>>
      /\ Passed(i, Wanted)
      /\ op = "base" => IF exeIdx = -1 THEN Passed(i, exec) ELSE Pointed(exeIdx, exec)
  BY DEF ScanEnd, dyld, SearchOK
<1>2. Wanted' = Wanted /\ exeIdx \in Int /\ exeIdx >= -1
  BY <1>1, LookupAssumption, FS_CardinalityType DEF Wanted, ImageTypeInv, TypeOK
<1>3. standing \cap Wanted = {}
  BY <1>1, AllPassed
<1>4. op = "base" => exeIdx >= 0
  <2>1. Main \in standing /\ Main \in exec
    BY <1>1 DEF ImageTypeInv, TypeOK, StandingOK
  <2>2. QED
    BY <1>1, <1>2, <2>1, AllPassed
<1>5. CASE op = "base"
  <2>1. i' = exeIdx /\ pc' = "header" /\ info' = info
    BY <1>4, <1>5 DEF ScanEnd
  <2>2. Pointed(i, exec)'
    BY <1>1, <1>2, <1>4, <1>5, <2>1 DEF Pointed, Passed
  <2>3. QED
    BY <1>1, <1>2, <1>3, <1>5, <2>1, <2>2 DEF SearchOK, Answered, FindsFirst
<1>6. CASE op # "base"
  <2>1. pc' = "done" /\ (op = "file" => info' = Empty)
    BY <1>6 DEF ScanEnd
  <2>2. FindsFirst'
    BY <1>1, <1>2, <1>3, <1>6, <2>1 DEF FindsFirst
  <2>3. QED
    BY <2>1, <2>2 DEF SearchOK
<1>7. QED
  BY <1>5, <1>6

\* The image that is asked about, when it is the one answered for.
LEMMA Asked ==
  ASSUME ImageTypeInv, Answered
  PROVE  ImageAt(i) = images[i + 1] /\ i + 1 \in DOMAIN images
<1>1. i + 1 \in DOMAIN images /\ images \in Seq(Images) /\ i \in Nat
  BY DEF Answered, Pointed, ImageTypeInv, TypeOK
<1>2. QED
  BY <1>1 DEF ImageAt

LEMMA AnsweredStays ==
  ASSUME Answered, UNCHANGED <<images, exec, named, standing, op, i>>
  PROVE  Answered'
<1>1. Wanted' = Wanted
  BY DEF Wanted
<1>2. QED
  BY <1>1 DEF Answered, Pointed, Passed

\* The image found is the first one.
LEMMA PointedFirst ==
  ASSUME ImageTypeInv, NEW s, Pointed(i, s)
  PROVE  First(images[i + 1], s)
<1>1. images \in Seq(Images) /\ IsInjective(images) /\ i \in Nat
  BY DEF ImageTypeInv, ListOK, TypeOK
<1>2. ASSUME NEW j \in 1..Len(images), NEW k \in 1..Len(images), j < k,
             images[k] = images[i + 1]
      PROVE  images[j] \notin s \cap standing
  <2>1. k = i + 1
    BY <1>1, <1>2 DEF IsInjective, Pointed
  <2>2. j \in DOMAIN images /\ j <= i
    BY <1>1, <1>2, <2>1
  <2>3. QED
    BY <2>2 DEF Pointed, Passed, PassedIn
<1>3. QED
  BY <1>2 DEF First, Pointed

LEMMA ReadKeeps ==
  ASSUME ImageTypeInv, SearchOK, ReadHeader \/ ReadName \/ ReadSlide
  PROVE  SearchOK'
<1>1. Answered /\ UNCHANGED <<images, exec, named, standing, op, i>>
  BY DEF SearchOK, ReadHeader, ReadName, ReadSlide, dyld
<1>2. Answered' /\ ImageAt(i) = images[i + 1]
  BY <1>1, Asked, AnsweredStays
<1>3. info \in [header : Fields, name : Fields, address : Fields]
  BY DEF ImageTypeInv, TypeOK
<1>4. CASE ReadHeader
  <2>1. pc' = "fullname" /\ info'.header = images[i + 1]
    BY <1>2, <1>3, <1>4 DEF ReadHeader
  <2>2. QED
    BY <1>1, <1>2, <2>1 DEF SearchOK, FindsFirst
<1>5. CASE ReadName
  <2>1. pc = "fullname" /\ pc' = "slide" /\ info'.header = info.header /\ info'.name = images[i + 1]
    BY <1>2, <1>3, <1>5 DEF ReadName
  <2>2. QED
    BY <1>1, <1>2, <2>1 DEF SearchOK, FindsFirst
<1>6. CASE ReadSlide
  <2>1. /\ pc = "slide" /\ pc' = "done"
        /\ info'.header = info.header /\ info'.name = info.name /\ info'.address = images[i + 1]
    BY <1>2, <1>3, <1>6 DEF ReadSlide
  <2>2. info'.header = images[i + 1] /\ Uniform'
    BY <2>1 DEF SearchOK, Uniform
  <2>3. FindsFirst'
    <3>1. Wanted' = Wanted
      BY <1>1 DEF Wanted
    <3>2. CASE Pointed(i, Wanted)
      <4>1. First(images[i + 1], Wanted)
        BY <3>2, PointedFirst
      <4>2. First(info.header, Wanted)'
        BY <1>1, <2>2, <3>1, <4>1 DEF First
      <4>3. QED
        BY <2>2, <4>2 DEF FindsFirst
    <3>3. CASE op = "base" /\ standing \cap Wanted = {} /\ Pointed(i, exec)
      <4>1. First(images[i + 1], exec)
        BY <3>3, PointedFirst
      <4>2. First(info.header, exec)'
        BY <1>1, <2>2, <4>1 DEF First
      <4>3. QED
        BY <1>1, <2>2, <3>1, <3>3, <4>2 DEF FindsFirst
    <3>4. QED
      BY <1>1, <3>2, <3>3 DEF Answered
  <2>4. QED
    BY <2>1, <2>3 DEF SearchOK
<1>7. QED
  BY <1>4, <1>5, <1>6

LEMMA ImageStepInv ==
  ASSUME ImageIInv, [Next]_vars
  PROVE  ImageIInv'
<1>t. ImageTypeInv /\ ImageTypeInv'
  BY TypeStep DEF ImageIInv
<1>1. ASSUME NEW o \in LookupOps, Begin(o) PROVE ImageIInv'
  <2>1. /\ pc' = "scan" /\ i' = 0 /\ exeIdx' = -1 /\ info' = Empty /\ images' = images
    BY <1>1, <1>t DEF Begin, dyld, ImageTypeInv, IndexOK
  <2>2. \A k \in DOMAIN images : ~(k <= 0)
    BY <1>t DEF ImageTypeInv, ListOK
  <2>3. Passed(i, Wanted)' /\ Passed(i, exec)'
    BY <2>1, <2>2 DEF Passed, PassedIn
  <2>4. SearchOK'
    BY <2>1, <2>3 DEF SearchOK, FindsFirst
  <2>5. QED
    BY <1>t, <2>4 DEF ImageIInv
<1>2. CASE Step
  <2>1. Searching /\ pc # "idle"
    BY <1>t, <1>2, StepTypes
    DEF Step, ScanHeader, ScanName, ScanEnd, ReadHeader, ReadName, ReadSlide
  <2>2. ASSUME SearchOK PROVE SearchOK'
    BY <1>t, <1>2, <2>2, ScanHeaderKeeps, ScanNameKeeps, ScanEndKeeps, ReadKeeps DEF Step
  <2>3. QED
    BY <1>t, <2>1, <2>2 DEF ImageIInv, Searching
<1>3. ASSUME NEW m \in Images, Load(m) PROVE ImageIInv'
  <2>1. /\ pc # "done" /\ UNCHANGED <<exec, named, op, pc, i, exeIdx, info, disturbed>>
        /\ i \in Int /\ exeIdx \in Int
    BY <1>3, <1>t, FS_CardinalityType, LookupAssumption DEF Load, ImageTypeInv, TypeOK
  <2>2. ASSUME pc # "idle", ~disturbed PROVE SearchOK'
    BY <1>t, <1>3, <2>1, <2>2, LoadKeeps, ChangeKeeps DEF ImageIInv
  <2>3. QED
    BY <1>t, <2>1, <2>2 DEF ImageIInv
<1>4. ASSUME NEW k \in 1..Len(images), Unload(k) PROVE ImageIInv'
  <2>1. /\ pc # "done" /\ UNCHANGED <<exec, named, op, pc, i, exeIdx, info>>
        /\ standing' \subseteq standing
        /\ i \in Int /\ exeIdx \in Int /\ exeIdx <= i
    BY <1>4, <1>t, FS_CardinalityType, LookupAssumption DEF Unload, ImageTypeInv, TypeOK, IndexOK
  <2>2. ASSUME pc # "idle", ~disturbed' PROVE SearchOK'
    <3>1. ~disturbed
      BY <1>4, <2>2 DEF Unload
    <3>2. /\ \A s : PassedIn(images, standing, i, s) => PassedIn(images', standing', i, s)
          /\ i + 1 \in DOMAIN images => i + 1 \in DOMAIN images' /\ images'[i + 1] = images[i + 1]
      BY <1>t, <1>4, <2>1, <2>2, UnloadKeeps
    <3>3. /\ \A s : PassedIn(images, standing, exeIdx, s) => PassedIn(images', standing', exeIdx, s)
          /\ exeIdx + 1 \in DOMAIN images =>
               exeIdx + 1 \in DOMAIN images' /\ images'[exeIdx + 1] = images[exeIdx + 1]
      BY <1>t, <1>4, <2>1, <2>2, UnloadKeeps
    <3>4. QED
      BY <1>t, <2>1, <2>2, <3>1, <3>2, <3>3, ChangeKeeps DEF ImageIInv
  <2>3. QED
    BY <1>t, <2>1, <2>2 DEF ImageIInv
<1>5. CASE UNCHANGED vars
  BY <1>t, <1>5
  DEF ImageIInv, vars, dyld, SearchOK, Answered, Pointed, Passed, Wanted, FindsFirst, First, Uniform
<1>6. QED
  BY <1>1, <1>2, <1>3, <1>4, <1>5 DEF Next

LEMMA ImageInvariance == Spec => []ImageIInv
<1>1. Init => ImageIInv
  BY StartTypes DEF ImageIInv, Init
<1>2. ImageIInv /\ [Next]_vars => ImageIInv'
  BY ImageStepInv
<1>3. QED
  BY <1>1, <1>2, PTL DEF Spec

\* Every state of a lookup is well typed, and its indices stay within what was
\* counted, whatever is loaded and unloaded meanwhile.
THEOREM ImageTypeCorrect == Spec => []TypeOK
<1>1. ImageIInv => TypeOK
  BY DEF ImageIInv, ImageTypeInv
<1>2. QED
  BY <1>1, ImageInvariance, PTL

\* For any number of images and of changes: what is answered is all of one
\* image, the first one wanted, unless an image at the index or before it was
\* unloaded; and an image that is wanted and stays is not missed.
THEOREM FirstImageFound == Spec => []FindsFirst
<1>1. ImageIInv => FindsFirst
  BY DEF ImageIInv, SearchOK, FindsFirst
<1>2. QED
  BY <1>1, ImageInvariance, PTL

-----------------------------------------------------------------------------
(* Numbers                                                                 *)

\* The least number of a set, and the greatest of one that is bounded.
LEMMA LeastOf ==
  ASSUME NEW T \in SUBSET Nat, T # {}
  PROVE  \E x \in T : \A y \in T : x <= y
<1> DEFINE R == OpToRel(<, Nat)
<1>1. IsWellFoundedOn(R, Nat)
  BY NatLessThanWellFounded
<1>2. \A x, y \in Nat : x < y => <<x, y>> \in R
  BY DEF OpToRel
<1> HIDE DEF R
<1>3. PICK x \in T : \A y \in T : ~(<<y, x>> \in R)
  BY <1>1, WFMin
<1>4. \A y \in T : ~(y < x)
  BY <1>2, <1>3
<1> QED
  BY <1>4

LEMMA LeastMin ==
  ASSUME NEW T \in SUBSET Nat, T # {}
  PROVE  Min(T) \in T /\ \A y \in T : Min(T) <= y
  BY LeastOf DEF Min

LEMMA GreatestMax ==
  ASSUME NEW n \in Nat, NEW T \in SUBSET (0..n), T # {}
  PROVE  Max(T) \in T /\ \A y \in T : y <= Max(T)
<1> DEFINE U == {n - x : x \in T}
<1>1. U \in SUBSET Nat /\ U # {}
  <2>1. \A x \in T : n - x \in Nat
    OBVIOUS
  <2> QED
    BY <2>1
<1> HIDE DEF U
<1>2. PICK x \in U : \A y \in U : x <= y
  BY <1>1, LeastOf
<1>3. PICK m \in T : x = n - m
  BY DEF U
<1>4. ASSUME NEW y \in T PROVE y <= m
  <2>1. n - y \in U
    BY DEF U
  <2>2. n - m <= n - y /\ m \in 0..n /\ y \in 0..n
    BY <1>2, <1>3, <2>1
  <2> QED
    BY <2>2
<1> QED
  BY <1>4 DEF Max

-----------------------------------------------------------------------------
(* Symbols                                                                 *)

\* What an image has, once it is loaded.
LibraryOK ==
  /\ \E n \in 0..MaxSymbols : symbols \in [1..n -> [name : Names, defined : BOOLEAN]]
  /\ hash \in [Names -> Hashes]
  /\ \/ format = "macho" /\ tables \in SUBSET {"linkedit", "symtab"}
     \/ /\ format = "elf"
        /\ tables \in SUBSET {"gnu", "sysv"}
        /\ "gnu" \in tables => GnuOrdered
  /\ slide \in Nat

LEMMA LibraryTypes ==
  ASSUME LibraryOK
  PROVE  /\ Count \in 0..MaxSymbols /\ DOMAIN symbols = 1..Count /\ MaxSymbols \in Nat
         /\ \A k \in 1..Count : /\ symbols[k].name \in Names /\ symbols[k].defined \in BOOLEAN
                                /\ k # 0 /\ NameOf(k) = symbols[k].name /\ NameOf(k) # NoName
                                /\ Value(k) \in {0, k}
                                /\ Bucket(k) \in Nat
         /\ \A a \in Names : hash[a] \in Nat /\ hash[a] % Buckets \in 0..(Buckets - 1)
         /\ NameOf(0) = NoName /\ Value(0) = 0
<1>1. PICK n \in 0..MaxSymbols : symbols \in [1..n -> [name : Names, defined : BOOLEAN]]
  BY DEF LibraryOK
<1>2. MaxSymbols \in Nat /\ n \in Nat /\ DOMAIN symbols = 1..n
  BY <1>1, SymbolsAssumption
<1>3. Count = n
  BY <1>2, FS_Interval DEF Count
<1>4. ASSUME NEW a \in Names PROVE hash[a] \in Nat /\ hash[a] % Buckets \in 0..(Buckets - 1)
  <2>1. hash[a] \in Nat
    BY SymbolsAssumption DEF LibraryOK
  <2> QED
    BY <2>1, SymbolsAssumption
<1>5. ASSUME NEW k \in 1..n
      PROVE  /\ symbols[k].name \in Names /\ symbols[k].defined \in BOOLEAN
             /\ k # 0 /\ NameOf(k) = symbols[k].name /\ NameOf(k) # NoName
             /\ Value(k) \in {0, k}
             /\ Bucket(k) \in Nat
  <2>1. symbols[k].name \in Names /\ symbols[k].defined \in BOOLEAN /\ k # 0
    BY <1>1, <1>2
  <2>2. NameOf(k) = symbols[k].name /\ NameOf(k) # NoName
    BY <2>1, SymbolsAssumption DEF NameOf
  <2>3. Value(k) \in {0, k}
    BY DEF Value
  <2>4. Bucket(k) \in Nat
    BY <2>1, <1>4, SymbolsAssumption DEF Bucket
  <2> QED
    BY <2>1, <2>2, <2>3, <2>4
<1> QED
  BY <1>1, <1>2, <1>3, <1>4, <1>5 DEF NameOf, Value

\* The symbols that a GNU table has a hash for are those with a value.
LEMMA HashedDefined ==
  ASSUME LibraryOK, GnuOrdered
  PROVE  /\ Offset \in Nat \ {0}
         /\ \A k \in DOMAIN symbols : k >= Offset <=> Value(k) # 0
<1> DEFINE Z == {k \in DOMAIN symbols : Value(k) = 0}
<1>1. Count \in Nat /\ DOMAIN symbols = 1..Count
  BY LibraryTypes
<1>2. IsFiniteSet(1..Count) /\ Z \subseteq 1..Count
  BY <1>1, FS_Interval
<1>3. IsFiniteSet(Z) /\ Cardinality(Z) \in Nat
  BY <1>2, FS_Subset, FS_CardinalityType
<1>4. Offset = 1 + Cardinality(Z)
  BY DEF Offset
<1>5. ASSUME NEW k \in 1..Count, Value(k) # 0 PROVE Cardinality(Z) <= k - 1
  <2>1. Z \subseteq 1..(k - 1)
    BY <1>1, <1>5 DEF GnuOrdered
  <2>2. IsFiniteSet(1..(k - 1)) /\ Cardinality(1..(k - 1)) = k - 1
    BY FS_Interval
  <2> QED
    BY <2>1, <2>2, FS_Subset
<1>6. ASSUME NEW k \in 1..Count, Value(k) = 0 PROVE k <= Cardinality(Z)
  <2>1. 1..k \subseteq Z
    BY <1>1, <1>6 DEF GnuOrdered
  <2>2. IsFiniteSet(1..k) /\ Cardinality(1..k) = k
    BY FS_Interval
  <2> QED
    BY <2>1, <2>2, <1>3, FS_Subset
<1> HIDE DEF Z
<1> QED
  BY <1>1, <1>3, <1>4, <1>5, <1>6

\* What a name is found as must be a symbol of that name.
Named(k, name) == k \in DOMAIN symbols /\ Matches(k, name)

-----------------------------------------------------------------------------
(* The walk of a Mach-O table                                              *)

LEMMA MachFinds ==
  ASSUME LibraryOK, NEW name
  PROVE  /\ MachLookup(name) # 0 => Named(MachLookup(name), name)
         /\ \A k \in DOMAIN symbols :
              Matches(k, name) /\ Value(k) # 0 => Value(MachLookup(name)) # 0
<1> DEFINE hits == {k \in DOMAIN symbols : Value(k) # 0 /\ Matches(k, name)}
<1>1. MachLookup(name) = IF hits = {} THEN 0 ELSE CHOOSE k \in hits : \A j \in hits : k <= j
  BY DEF MachLookup
<1>2. CASE hits = {}
  BY <1>1, <1>2
<1>3. CASE hits # {}
  <2>1. hits \in SUBSET Nat
    BY LibraryTypes
  <2> HIDE DEF hits
  <2>2. \E k \in hits : \A j \in hits : k <= j
    BY <2>1, <1>3, LeastOf
  <2>3. MachLookup(name) \in hits
    BY <1>1, <1>3, <2>2
  <2> QED
    BY <2>3 DEF hits, Named
<1> QED
  BY <1>2, <1>3

-----------------------------------------------------------------------------
(* A System V chain                                                        *)

SysvStep(f, name, k) ==
  IF k = 0 THEN 0 ELSE IF Matches(k, name) THEN k ELSE f[SysvFirst(hash[name] % Buckets, k)]

SysvFound(name) == CHOOSE f : f = [k \in 0..MaxSymbols |-> SysvStep(f, name, k)]

\* The chain goes on with the greatest number below.
LEMMA SysvGoesDown ==
  ASSUME LibraryOK, NEW b, NEW k \in Nat
  PROVE  /\ SysvFirst(b, k) \in 0..Count
         /\ k # 0 => SysvFirst(b, k) < k
         /\ \A j \in DOMAIN symbols :
              Bucket(j) = b /\ j < k => SysvFirst(b, k) # 0 /\ j <= SysvFirst(b, k)
<1>1. Count \in Nat /\ DOMAIN symbols = 1..Count
  BY LibraryTypes
<1>2. CASE Below(b, k) = {}
  BY <1>1, <1>2 DEF SysvFirst, Below
<1>3. CASE Below(b, k) # {}
  <2>1. Below(b, k) \in SUBSET (0..Count)
    BY <1>1 DEF Below
  <2>2. Max(Below(b, k)) \in Below(b, k) /\ \A j \in Below(b, k) : j <= Max(Below(b, k))
    BY <2>1, <1>1, <1>3, GreatestMax
  <2>3. SysvFirst(b, k) \in Below(b, k) /\ \A j \in Below(b, k) : j <= SysvFirst(b, k)
    BY <2>2, <1>3 DEF SysvFirst
  <2> QED
    BY <2>3, <1>1 DEF Below
<1> QED
  BY <1>2, <1>3

LEMMA SysvExists ==
  ASSUME LibraryOK, NEW name
  PROVE  \E f : f = [k \in 0..MaxSymbols |-> SysvStep(f, name, k)]
<1> DEFINE Once(f) == [k \in 0..MaxSymbols |-> SysvStep(f, name, k)]
           Settled(f, n) == /\ f = [k \in 0..MaxSymbols |-> f[k]]
                            /\ \A k \in 0..MaxSymbols : k < n => f[k] = Once(f)[k]
           T == {n \in Nat : ~\E f : Settled(f, n)}
<1>0. Count \in 0..MaxSymbols /\ MaxSymbols \in Nat
  BY LibraryTypes
<1>1. T = {}
  <2> SUFFICES ASSUME T # {} PROVE FALSE
    OBVIOUS
  <2>1. PICK n \in T : \A m \in T : n <= m
    BY LeastOf
  <2>2. n # 0
    <3>1. Settled([k \in 0..MaxSymbols |-> 0], 0)
      OBVIOUS
    <3> QED
      BY <3>1, <2>1
  <2>3. n - 1 \in Nat /\ n - 1 \notin T
    BY <2>1, <2>2
  <2>4. PICK f : Settled(f, n - 1)
    BY <2>3
  <2> DEFINE g == Once(f)
  <2>5. g = [k \in 0..MaxSymbols |-> g[k]]
    OBVIOUS
  <2>6. \A k \in 0..MaxSymbols : k < n - 1 => f[k] = g[k]
    BY <2>4
  <2>7. ASSUME NEW k \in 0..MaxSymbols, k < n PROVE g[k] = Once(g)[k]
    <3> HIDE DEF g
    <3>1. SysvStep(f, name, k) = SysvStep(g, name, k)
      <4>1. CASE k = 0
        BY <4>1 DEF SysvStep
      <4>2. CASE k # 0
        <5> DEFINE j == SysvFirst(hash[name] % Buckets, k)
        <5>1. j \in 0..MaxSymbols /\ j < n - 1
          BY <4>2, <2>7, <2>3, <1>0, SysvGoesDown
        <5>2. f[j] = g[j]
          BY <5>1, <2>6
        <5> QED
          BY <5>2 DEF SysvStep
      <4> QED
        BY <4>1, <4>2
    <3> QED
      BY <3>1 DEF g
  <2>8. Settled(g, n)
    BY <2>5, <2>7
  <2> QED
    BY <2>8, <2>1
<1>2. MaxSymbols + 1 \in Nat
  BY <1>0
<1>3. PICK f : Settled(f, MaxSymbols + 1)
  BY <1>1, <1>2
<1>4. \A k \in 0..MaxSymbols : k < MaxSymbols + 1
  BY <1>0
<1>5. \A k \in 0..MaxSymbols : f[k] = Once(f)[k]
  BY <1>3, <1>4
<1>6. f = [k \in 0..MaxSymbols |-> SysvStep(f, name, k)]
  BY <1>3, <1>5
<1> QED
  BY <1>6

LEMMA SysvFoundStep ==
  ASSUME LibraryOK, NEW name, NEW k \in 0..MaxSymbols
  PROVE  SysvFound(name)[k] = SysvStep(SysvFound(name), name, k)
<1>1. SysvFound(name) = [j \in 0..MaxSymbols |-> SysvStep(SysvFound(name), name, j)]
  BY SysvExists DEF SysvFound
<1> QED
  BY <1>1

\* Where a symbol of the name is not above k in its bucket, the chain from k
\* finds one; and what it finds is one.
LEMMA SysvFinds ==
  ASSUME LibraryOK, NEW name \in Names
  PROVE  \A k \in 0..Count :
           /\ SysvFound(name)[k] # 0 => Named(SysvFound(name)[k], name)
           /\ \A j \in DOMAIN symbols :
                Matches(j, name) /\ j <= k => SysvFound(name)[k] # 0
<1> DEFINE F == SysvFound(name)
           Good(k) == /\ F[k] # 0 => Named(F[k], name)
                      /\ \A j \in DOMAIN symbols : Matches(j, name) /\ j <= k => F[k] # 0
           T == {k \in 0..Count : ~Good(k)}
<1>0. /\ Count \in 0..MaxSymbols /\ DOMAIN symbols = 1..Count /\ MaxSymbols \in Nat
      /\ NameOf(0) = NoName
  BY LibraryTypes
<1>1. T = {}
  <2> SUFFICES ASSUME T # {} PROVE FALSE
    OBVIOUS
  <2>1. T \in SUBSET Nat
    BY <1>0
  <2>2. PICK k \in T : \A m \in T : k <= m
    <3> HIDE DEF T
    <3> QED
      BY <2>1, LeastOf
  <2>3. k \in 0..Count /\ k \in 0..MaxSymbols /\ k \in Nat /\ ~Good(k)
    BY <2>2, <1>0
  <2>4. F[k] = SysvStep(F, name, k)
    BY <2>3, SysvFoundStep
  <2> HIDE DEF F
  <2>5. CASE k = 0
    BY <2>3, <2>4, <2>5, <1>0 DEF SysvStep
  <2>6. CASE k # 0 /\ Matches(k, name)
    BY <2>3, <2>4, <2>6, <1>0 DEF SysvStep, Named
  <2>7. CASE k # 0 /\ ~Matches(k, name)
    <3> DEFINE b == hash[name] % Buckets
               m == SysvFirst(b, k)
    <3>1. F[k] = F[m]
      BY <2>4, <2>7 DEF SysvStep
    <3>2. m \in 0..Count /\ m < k
      BY <2>3, <2>7, SysvGoesDown
    <3>3. Good(m)
      <4> HIDE DEF Good, m
      <4> QED
        BY <3>2, <2>2, <2>3
    <3>4. ASSUME NEW j \in DOMAIN symbols, Matches(j, name), j <= k PROVE F[k] # 0
      <4>1. Bucket(j) = b
        BY <3>4, LibraryTypes DEF Bucket, Matches
      <4>2. j < k
        BY <3>4, <2>7, <2>3, <1>0
      <4>3. j <= m
        BY <4>1, <4>2, <2>3, SysvGoesDown
      <4> QED
        BY <4>3, <3>1, <3>3, <3>4
    <3> QED
      BY <2>3, <3>1, <3>3, <3>4
  <2> QED
    BY <2>5, <2>6, <2>7
<1> QED
  BY <1>1

LEMMA SysvRight ==
  ASSUME LibraryOK, NEW name \in Names
  PROVE  /\ SysvLookup(name) # 0 => Named(SysvLookup(name), name)
         /\ \A k \in DOMAIN symbols : Matches(k, name) => SysvLookup(name) # 0
<1> DEFINE b == hash[name] % Buckets
           first == SysvFirst(b, Count + 1)
<1>0. Count \in Nat /\ DOMAIN symbols = 1..Count /\ Count + 1 \in Nat
  BY LibraryTypes
<1>1. SysvLookup(name) = SysvFound(name)[first]
  BY DEF SysvLookup, SysvFound, SysvStep
<1>2. first \in 0..Count
  BY <1>0, SysvGoesDown
<1>3. ASSUME NEW k \in DOMAIN symbols, Matches(k, name) PROVE k <= first
  <2>1. Bucket(k) = b
    BY <1>3, LibraryTypes DEF Bucket, Matches
  <2>2. k < Count + 1
    BY <1>0
  <2> QED
    BY <2>1, <2>2, <1>0, SysvGoesDown
<1> QED
  BY <1>1, <1>2, <1>3, SysvFinds

-----------------------------------------------------------------------------
(* A GNU chain                                                             *)

GnuStep(f, name, k) == IF k > Count THEN 0 ELSE NameFirst(k, name, f[k + 1])

GnuFound(name) == CHOOSE f : f = [k \in 1..(MaxSymbols + 1) |-> GnuStep(f, name, k)]

LEMMA GnuExists ==
  ASSUME LibraryOK, NEW name
  PROVE  \E f : f = [k \in 1..(MaxSymbols + 1) |-> GnuStep(f, name, k)]
<1> DEFINE D == 1..(MaxSymbols + 1)
           Once(f) == [k \in D |-> GnuStep(f, name, k)]
           Settled(f, n) == /\ f = [k \in D |-> f[k]]
                            /\ \A k \in D : k + n > MaxSymbols + 1 => f[k] = Once(f)[k]
           T == {n \in Nat : ~\E f : Settled(f, n)}
<1>0. Count \in 0..MaxSymbols /\ MaxSymbols \in Nat
  BY LibraryTypes
<1>1. T = {}
  <2> SUFFICES ASSUME T # {} PROVE FALSE
    OBVIOUS
  <2>1. PICK n \in T : \A m \in T : n <= m
    BY LeastOf
  <2>2. n # 0
    <3>1. \A k \in D : ~(k + 0 > MaxSymbols + 1)
      BY <1>0
    <3>2. Settled([k \in D |-> 0], 0)
      BY <3>1
    <3> QED
      BY <3>2, <2>1
  <2>3. n - 1 \in Nat /\ n - 1 \notin T
    BY <2>1, <2>2
  <2>4. PICK f : Settled(f, n - 1)
    BY <2>3
  <2> DEFINE g == Once(f)
  <2>5. g = [k \in D |-> g[k]]
    OBVIOUS
  <2>6. \A k \in D : k + (n - 1) > MaxSymbols + 1 => f[k] = g[k]
    BY <2>4
  <2>7. ASSUME NEW k \in D, k + n > MaxSymbols + 1 PROVE g[k] = Once(g)[k]
    <3> HIDE DEF g
    <3>1. GnuStep(f, name, k) = GnuStep(g, name, k)
      <4>1. CASE k > Count
        BY <4>1 DEF GnuStep
      <4>2. CASE ~(k > Count)
        <5>1. k + 1 \in D /\ (k + 1) + (n - 1) > MaxSymbols + 1
          BY <4>2, <2>7, <2>3, <1>0
        <5>2. f[k + 1] = g[k + 1]
          BY <5>1, <2>6
        <5> QED
          BY <5>2 DEF GnuStep
      <4> QED
        BY <4>1, <4>2
    <3> QED
      BY <3>1 DEF g
  <2>8. Settled(g, n)
    BY <2>5, <2>7
  <2> QED
    BY <2>8, <2>1
<1>2. MaxSymbols + 1 \in Nat
  BY <1>0
<1>3. PICK f : Settled(f, MaxSymbols + 1)
  BY <1>1, <1>2
<1>4. \A k \in D : k + (MaxSymbols + 1) > MaxSymbols + 1
  BY <1>0
<1>5. \A k \in D : f[k] = Once(f)[k]
  BY <1>3, <1>4
<1>6. f = [k \in D |-> GnuStep(f, name, k)]
  BY <1>3, <1>5
<1> QED
  BY <1>6

LEMMA GnuFoundStep ==
  ASSUME LibraryOK, NEW name, NEW k \in 1..(MaxSymbols + 1)
  PROVE  GnuFound(name)[k] = GnuStep(GnuFound(name), name, k)
<1>1. GnuFound(name) = [j \in 1..(MaxSymbols + 1) |-> GnuStep(GnuFound(name), name, j)]
  BY GnuExists DEF GnuFound
<1> QED
  BY <1>1

\* The bucket of a GNU table holds its least symbol.
LEMMA LeastHashed ==
  ASSUME LibraryOK, NEW b
  PROVE  IF Hashed(b) = {} THEN GnuBucket(b) = 0
         ELSE GnuBucket(b) \in Hashed(b) /\ \A k \in Hashed(b) : GnuBucket(b) <= k
<1>1. Hashed(b) \in SUBSET Nat
  BY LibraryTypes DEF Hashed
<1>2. Hashed(b) # {} => \E k \in Hashed(b) : \A j \in Hashed(b) : k <= j
  BY <1>1, LeastOf
<1> QED
  BY <1>2 DEF GnuBucket

\* The last bit of a chain's hash says where it ends, the others are the hash's.
LEMMA ChainBits ==
  ASSUME LibraryOK, NEW k \in DOMAIN symbols
  PROVE  /\ GnuChain(k) \div 2 = hash[symbols[k].name] \div 2
         /\ k + 1 \in Hashed(Bucket(k)) => GnuChain(k) % 2 # 1
<1>1. hash[symbols[k].name] \in Nat
  BY LibraryTypes
<1>2. \A h \in Nat : /\ (2 * (h \div 2)) \div 2 = h \div 2
                     /\ (2 * (h \div 2) + 1) \div 2 = h \div 2
                     /\ (2 * (h \div 2)) % 2 = 0
  OBVIOUS
<1> DEFINE h == hash[symbols[k].name]
<1>3. GnuChain(k) = IF k + 1 \in Hashed(Bucket(k)) THEN 2 * (h \div 2) ELSE 2 * (h \div 2) + 1
  BY DEF GnuChain
<1> HIDE DEF h
<1> QED
  BY <1>1, <1>2, <1>3 DEF h

\* What is found further on is a symbol of the name, further on.
LEMMA GnuSound ==
  ASSUME LibraryOK, NEW name \in Names
  PROVE  \A k \in 1..(Count + 1) :
           GnuFound(name)[k] # 0 => Named(GnuFound(name)[k], name) /\ GnuFound(name)[k] >= k
<1> DEFINE F == GnuFound(name)
           Good(k) == F[k] # 0 => Named(F[k], name) /\ F[k] >= k
           T == {n \in 0..Count : ~Good(Count + 1 - n)}
<1>0. Count \in 0..MaxSymbols /\ DOMAIN symbols = 1..Count /\ MaxSymbols \in Nat
  BY LibraryTypes
<1>1. T = {}
  <2> SUFFICES ASSUME T # {} PROVE FALSE
    OBVIOUS
  <2>1. T \in SUBSET Nat
    BY <1>0
  <2>2. PICK n \in T : \A m \in T : n <= m
    <3> HIDE DEF T
    <3> QED
      BY <2>1, LeastOf
  <2> DEFINE k == Count + 1 - n
  <2>3. n \in 0..Count /\ n \in Nat /\ ~Good(k) /\ k \in 1..(MaxSymbols + 1)
    BY <2>2, <1>0
  <2>4. F[k] = GnuStep(F, name, k)
    BY <2>3, GnuFoundStep
  <2> HIDE DEF F
  <2>5. CASE k > Count
    BY <2>3, <2>4, <2>5 DEF GnuStep
  <2>6. CASE k <= Count
    <3>1. n - 1 \in 0..Count /\ Count + 1 - (n - 1) = k + 1 /\ n - 1 < n
          /\ k \in DOMAIN symbols /\ k \in Nat
      BY <2>3, <2>6, <1>0
    <3>2. Good(k + 1)
      <4>1. n - 1 \notin T
        <5> HIDE DEF T
        <5> QED
          BY <3>1, <2>2, <2>3
      <4>2. Good(Count + 1 - (n - 1))
        <5> HIDE DEF Good
        <5> QED
          BY <4>1, <3>1
      <4> QED
        BY <4>2, <3>1
    <3>3. \/ Matches(k, name) /\ F[k] = k
          \/ F[k] = 0
          \/ F[k] = F[k + 1]
      <4>1. F[k] = NameFirst(k, name, F[k + 1])
        BY <2>4, <2>6, <3>1, <1>0 DEF GnuStep
      <4> QED
        BY <4>1 DEF NameFirst
    <3>4. Good(k)
      <4> HIDE DEF k
      <4>1. CASE Matches(k, name) /\ F[k] = k
        BY <4>1, <3>1 DEF Named
      <4>2. CASE F[k] = F[k + 1]
        <5>1. F[k + 1] # 0 => F[k + 1] \in Nat
          BY <3>2, <1>0 DEF Named
        <5> QED
          BY <4>2, <5>1, <3>1, <3>2
      <4> QED
        BY <4>1, <4>2, <3>3
    <3> QED
      BY <3>4, <2>3
  <2> QED
    BY <2>3, <2>5, <2>6, <1>0
<1> SUFFICES ASSUME NEW k \in 1..(Count + 1) PROVE Good(k)
  OBVIOUS
<1>2. Count + 1 - k \in 0..Count /\ Count + 1 - (Count + 1 - k) = k
  BY <1>0
<1>3. Good(Count + 1 - (Count + 1 - k))
  <2> HIDE DEF Good
  <2> QED
    BY <1>1, <1>2
<1> QED
  BY <1>2, <1>3

\* From any symbol of its bucket that is not behind it, a symbol is found.
LEMMA GnuComplete ==
  ASSUME LibraryOK, GnuOrdered, NEW name \in Names,
         NEW j \in DOMAIN symbols, Matches(j, name), j >= Offset
  PROVE  \A k \in Hashed(Bucket(j)) : k <= j => GnuFound(name)[k] # 0
<1> DEFINE F == GnuFound(name)
           T == {n \in Nat : n < j /\ j - n \in Hashed(Bucket(j)) /\ F[j - n] = 0}
<1>0. /\ Count \in 0..MaxSymbols /\ DOMAIN symbols = 1..Count /\ MaxSymbols \in Nat
      /\ j \in 1..Count /\ Offset \in Nat \ {0}
      /\ \A k \in DOMAIN symbols : k >= Offset <=> Value(k) # 0
  BY LibraryTypes, HashedDefined
<1>1. T = {}
  <2> SUFFICES ASSUME T # {} PROVE FALSE
    OBVIOUS
  <2>1. PICK n \in T : \A m \in T : n <= m
    <3>1. T \in SUBSET Nat
      OBVIOUS
    <3> HIDE DEF T
    <3> QED
      BY <3>1, LeastOf
  <2> DEFINE k == j - n
  <2>2. n \in Nat /\ n < j /\ k \in Hashed(Bucket(j)) /\ F[k] = 0
    BY <2>1
  <2>3. k \in 1..Count /\ k \in 1..(MaxSymbols + 1) /\ Bucket(k) = Bucket(j) /\ k >= Offset
        /\ k <= j
    BY <2>2, <1>0 DEF Hashed
  <2>4. F[k] = NameFirst(k, name, F[k + 1])
    <3>1. F[k] = GnuStep(F, name, k)
      BY <2>3, GnuFoundStep
    <3> QED
      BY <3>1, <2>3, <1>0 DEF GnuStep
  <2> HIDE DEF F
  <2>5. CASE n = 0
    <3>1. k = j
      BY <2>5, <1>0
    <3>2. symbols[j].name = name
      BY LibraryTypes DEF Matches
    <3>3. GnuChain(j) \div 2 = hash[name] \div 2
      BY <3>2, ChainBits
    <3>4. F[j] = j
      BY <3>1, <3>3, <2>4 DEF NameFirst
    <3> QED
      BY <3>1, <3>4, <2>2, <1>0
  <2>6. CASE n # 0
    <3>1. n - 1 \in Nat /\ n - 1 < n /\ n - 1 < j /\ j - (n - 1) = k + 1 /\ k + 1 <= j
          /\ k + 1 \in DOMAIN symbols /\ k + 1 >= Offset /\ k < k + 1
      BY <2>6, <2>2, <2>3, <1>0
    <3>2. k + 1 \in Hashed(Bucket(j))
      <4>1. Value(k) # 0 /\ Value(k + 1) # 0 /\ k \in DOMAIN symbols
        BY <2>3, <3>1, <1>0
      <4>2. Bucket(k) <= Bucket(k + 1)
        BY <4>1, <3>1 DEF GnuOrdered
      <4>3. k + 1 = j \/ k + 1 < j
        BY <3>1, <1>0
      <4>4. Bucket(k + 1) <= Bucket(j)
        <5>1. CASE k + 1 = j
          BY <5>1, LibraryTypes
        <5>2. CASE k + 1 < j
          BY <5>2, <4>1, <3>1 DEF GnuOrdered
        <5> QED
          BY <4>3, <5>1, <5>2
      <4>5. Bucket(k + 1) \in Nat /\ Bucket(j) \in Nat
        BY <3>1, LibraryTypes
      <4> QED
        BY <4>2, <4>4, <4>5, <2>3, <3>1 DEF Hashed
    <3>3. F[k + 1] # 0
      <4>1. n - 1 \notin T
        <5> HIDE DEF T
        <5> QED
          BY <3>1, <2>1, <2>2
      <4> QED
        BY <4>1, <3>1, <3>2
    <3>4. GnuChain(k) % 2 # 1
      BY <3>2, <2>3, <1>0, ChainBits
    <3>5. F[k] = k \/ F[k] = F[k + 1]
      BY <3>4, <2>4 DEF NameFirst
    <3> HIDE DEF k
    <3> QED
      BY <3>3, <3>5, <2>2, <2>3
  <2> QED
    BY <2>5, <2>6
<1> SUFFICES ASSUME NEW k \in Hashed(Bucket(j)), k <= j PROVE F[k] # 0
  OBVIOUS
<1>2. k \in 1..Count
  BY <1>0 DEF Hashed
<1>3. j - k \in Nat /\ j - k < j /\ j - (j - k) = k
  BY <1>0, <1>2
<1> QED
  BY <1>1, <1>3

\* A name that has a value is in the filter, and its chain is searched.
LEMMA GnuRight ==
  ASSUME LibraryOK, GnuOrdered, NEW name \in Names
  PROVE  /\ GnuLookup(name) # 0 =>
              Named(GnuLookup(name), name) /\ Value(GnuLookup(name)) # 0
         /\ \A k \in DOMAIN symbols :
              Matches(k, name) /\ Value(k) # 0 => GnuLookup(name) # 0
<1> DEFINE h == hash[name]
           first == GnuBucket(h % Buckets)
<1>0. /\ Count \in 0..MaxSymbols /\ DOMAIN symbols = 1..Count /\ MaxSymbols \in Nat
      /\ Offset \in Nat \ {0}
      /\ \A k \in DOMAIN symbols : k >= Offset <=> Value(k) # 0
  BY LibraryTypes, HashedDefined
<1>1. GnuLookup(name) =
        IF ~(BloomBits(h) \subseteq Bloom(BloomWord(h))) \/ first < Offset THEN 0
        ELSE GnuFound(name)[first]
  BY DEF GnuLookup, GnuFound, GnuStep
<1>2. first = 0 \/ (first \in Hashed(h % Buckets)
                    /\ \A k \in Hashed(h % Buckets) : first <= k)
  BY LeastHashed
<1>3. first \in 0..Count
  BY <1>0, <1>2 DEF Hashed
<1> HIDE DEF h, first
<1>4. ASSUME GnuLookup(name) # 0
      PROVE  Named(GnuLookup(name), name) /\ Value(GnuLookup(name)) # 0
  <2>1. first >= Offset /\ GnuLookup(name) = GnuFound(name)[first]
    BY <1>0, <1>1, <1>3, <1>4
  <2>2. first \in 1..(Count + 1)
    BY <2>1, <1>0, <1>3
  <2>3. Named(GnuLookup(name), name) /\ GnuLookup(name) >= first
    BY <2>1, <2>2, <1>4, GnuSound
  <2> QED
    BY <2>1, <2>3, <1>0, <1>3 DEF Named
<1>5. ASSUME NEW k \in DOMAIN symbols, Matches(k, name), Value(k) # 0
      PROVE  GnuLookup(name) # 0
  <2>1. k >= Offset /\ symbols[k].name = name
    BY <1>0, <1>5, LibraryTypes DEF Matches
  <2>2. Bucket(k) = h % Buckets /\ k \in Hashed(Bucket(k))
    BY <2>1 DEF Bucket, Hashed, h
  <2>3. BloomBits(h) \subseteq Bloom(BloomWord(h))
    BY <2>1 DEF Bloom, h
  <2>4. first \in Hashed(Bucket(k)) /\ first <= k
    BY <2>2, LeastHashed DEF first
  <2>5. first >= Offset
    BY <2>4 DEF Hashed
  <2>6. GnuFound(name)[first] # 0
    BY <2>1, <2>4, <1>5, GnuComplete
  <2> QED
    BY <2>3, <2>5, <2>6, <1>0, <1>1, <1>3
<1> QED
  BY <1>4, <1>5

-----------------------------------------------------------------------------
(* What is answered                                                        *)

\* A lookup with a value is right, and one without is right where SymbolFound
\* says so.
LEMMA LookupRight ==
  ASSUME LibraryOK, NEW name \in Names
  PROVE  /\ Value(Lookup(name)) # 0 => Named(Lookup(name), name)
         /\ Value(Lookup(name)) = 0 =>
              \/ \A k \in DOMAIN symbols : Matches(k, name) => Value(k) = 0
              \/ format = "macho" /\ tables # {"linkedit", "symtab"}
              \/ format = "elf" /\ tables = {}
              \/ /\ format = "elf" /\ "gnu" \notin tables
                 /\ \E k \in DOMAIN symbols : Matches(k, name) /\ Value(k) = 0
<1>0. Value(0) = 0
  BY LibraryTypes
<1>1. CASE format = "macho"
  <2>1. Lookup(name) = IF tables = {"linkedit", "symtab"} THEN MachLookup(name) ELSE 0
    <3>1. "gnu" \notin tables /\ format # "elf"
      BY <1>1 DEF LibraryOK
    <3> QED
      BY <3>1, <1>1 DEF Lookup
  <2> QED
    BY <2>1, <1>0, <1>1, MachFinds
<1>2. CASE format = "elf" /\ "gnu" \in tables
  <2>1. GnuOrdered
    BY <1>2 DEF LibraryOK
  <2>2. CASE Value(GnuLookup(name)) # 0
    <3>1. Lookup(name) = GnuLookup(name)
      BY <1>2, <2>2 DEF Lookup
    <3> QED
      BY <3>1, <2>1, <2>2, <1>0, GnuRight
  <2>3. CASE Value(GnuLookup(name)) = 0
    <3>1. GnuLookup(name) = 0
      BY <2>1, <2>3, GnuRight
    <3>2. \A k \in DOMAIN symbols : Matches(k, name) => Value(k) = 0
      BY <2>1, <3>1, GnuRight
    <3>3. Lookup(name) \in {0, SysvLookup(name)}
      BY <1>2, <2>3 DEF Lookup
    <3>4. SysvLookup(name) # 0 => Named(SysvLookup(name), name)
      BY SysvRight
    <3> QED
      BY <3>2, <3>3, <3>4, <1>0
  <2> QED
    BY <2>2, <2>3
<1>3. CASE format = "elf" /\ tables = {"sysv"}
  <2>1. Lookup(name) = SysvLookup(name)
    BY <1>3 DEF Lookup
  <2>2. /\ SysvLookup(name) # 0 => Named(SysvLookup(name), name)
        /\ \A k \in DOMAIN symbols : Matches(k, name) => SysvLookup(name) # 0
    BY SysvRight
  <2> QED
    BY <2>1, <2>2, <1>0, <1>3 DEF Named
<1>4. CASE format = "elf" /\ tables = {}
  <2>1. Lookup(name) = 0
    BY <1>4 DEF Lookup
  <2> QED
    BY <2>1, <1>0, <1>4
<1>5. format = "macho" \/ (format = "elf" /\ tables \in SUBSET {"gnu", "sysv"})
  BY DEF LibraryOK
<1>6. tables \in SUBSET {"gnu", "sysv"} /\ "gnu" \notin tables => tables = {} \/ tables = {"sysv"}
  OBVIOUS
<1> QED
  BY <1>1, <1>2, <1>3, <1>4, <1>5, <1>6

\* What findSymbol answers to a name.
AnswerTo(name) ==
  IF slide = 0 \/ name = NoName \/ Value(Lookup(name)) = 0 THEN 0 ELSE Address(Lookup(name))

\* What an answer must be: SymbolFound, said of any name.
AnswerOK(name, result) ==
  /\ result \in 0..(slide + MaxSymbols)
  /\ result # 0 /\ (format = "elf" => slide > MaxSymbols) =>
       \E k \in DOMAIN symbols : Value(k) # 0 /\ NameOf(k) = name /\ result = slide + Value(k)
  /\ result = 0 /\ slide # 0 =>
       \/ \A k \in DOMAIN symbols : NameOf(k) = name => Value(k) = 0
       \/ format = "macho" /\ tables # {"linkedit", "symtab"}
       \/ format = "elf" /\ tables = {}
       \/ /\ format = "elf" /\ "gnu" \notin tables
          /\ \E k \in DOMAIN symbols : NameOf(k) = name /\ Value(k) = 0

SymbolsIInv ==
  /\ LibraryOK
  /\ asked \in Names \cup {NoName, "none"}
  /\ answer \in 0..(slide + MaxSymbols)
  /\ asked # "none" => AnswerOK(asked, answer)

\* The address of a symbol.
LEMMA AddressRight ==
  ASSUME LibraryOK, NEW k \in DOMAIN symbols, Value(k) # 0
  PROVE  /\ Address(k) \in 1..(slide + MaxSymbols)
         /\ (format = "elf" => slide > MaxSymbols) => Address(k) = slide + Value(k)
<1>1. Value(k) \in 1..MaxSymbols /\ slide \in Nat /\ MaxSymbols \in Nat
  <2>1. Value(k) = k /\ k \in 1..Count /\ Count \in 0..MaxSymbols /\ MaxSymbols \in Nat
    BY LibraryTypes
  <2> QED
    BY <2>1 DEF LibraryOK
<1> QED
  BY <1>1 DEF Address

LEMMA AnswerRight ==
  ASSUME LibraryOK, NEW name \in Names \cup {NoName}
  PROVE  AnswerOK(name, AnswerTo(name))
<1>0. slide \in Nat /\ MaxSymbols \in Nat
  BY LibraryTypes DEF LibraryOK
<1>1. CASE name = NoName
  <2>1. \A k \in DOMAIN symbols : NameOf(k) # name
    BY <1>1, LibraryTypes
  <2>2. AnswerTo(name) = 0
    BY <1>1 DEF AnswerTo
  <2> QED
    BY <2>1, <2>2, <1>0 DEF AnswerOK
<1>2. CASE name # NoName
  <2>1. name \in Names /\ \A k \in DOMAIN symbols : Matches(k, name) <=> NameOf(k) = name
    BY <1>2 DEF Matches
  <2>2. CASE slide = 0
    BY <2>2, <1>0 DEF AnswerTo, AnswerOK
  <2>3. CASE slide # 0 /\ Value(Lookup(name)) = 0
    <3>1. AnswerTo(name) = 0
      BY <2>3 DEF AnswerTo
    <3> QED
      BY <2>1, <2>3, <3>1, <1>0, LookupRight DEF AnswerOK
  <2>4. CASE slide # 0 /\ Value(Lookup(name)) # 0
    <3> DEFINE k == Lookup(name)
    <3>1. AnswerTo(name) = Address(k)
      BY <2>4, <1>2 DEF AnswerTo
    <3>2. k \in DOMAIN symbols /\ NameOf(k) = name /\ Value(k) # 0
      BY <2>1, <2>4, LookupRight DEF Named
    <3> HIDE DEF k
    <3>3. /\ Address(k) \in 1..(slide + MaxSymbols)
          /\ (format = "elf" => slide > MaxSymbols) => Address(k) = slide + Value(k)
      BY <3>2, AddressRight
    <3>4. Address(k) \in 0..(slide + MaxSymbols) /\ Address(k) # 0
      BY <3>3, <1>0
    <3> QED
      BY <3>1, <3>2, <3>3, <3>4 DEF AnswerOK
  <2> QED
    BY <2>2, <2>3, <2>4
<1> QED
  BY <1>1, <1>2

LEMMA AnswersFound == SymbolsIInv => SymbolTypes /\ SymbolFound
<1> SUFFICES ASSUME SymbolsIInv PROVE SymbolTypes /\ SymbolFound
  OBVIOUS
<1>0. LibraryOK /\ slide \in Nat /\ MaxSymbols \in Nat
  BY LibraryTypes DEF SymbolsIInv, LibraryOK
<1>1. answer \in 0..(slide + MaxSymbols)
  BY DEF SymbolsIInv
<1>2. ASSUME "gnu" \in tables, NEW b \in 0..(Buckets - 1)
      PROVE  GnuBucket(b) \in {0} \cup Offset..Count
  <2>1. /\ Count \in Nat /\ DOMAIN symbols = 1..Count /\ GnuOrdered
    BY <1>0, <1>2, LibraryTypes DEF LibraryOK
  <2>2. Offset \in Nat
    BY <2>1, <1>0, HashedDefined
  <2>3. GnuBucket(b) = 0 \/ GnuBucket(b) \in Hashed(b)
    BY <1>0, LeastHashed
  <2> QED
    BY <2>1, <2>2, <2>3 DEF Hashed
<1>3. SymbolTypes
  BY <1>1, <1>2 DEF SymbolTypes, SymbolsIInv
<1>4. SymbolFound
  BY DEF SymbolsIInv, AnswerOK, SymbolFound, Sought
<1> QED
  BY <1>3, <1>4

LEMMA SymbolsInitInv == SymbolsInit => SymbolsIInv
<1> SUFFICES ASSUME SymbolsInit PROVE SymbolsIInv
  OBVIOUS
<1>1. \E n \in 0..MaxSymbols : symbols \in [1..n -> [name : Names, defined : BOOLEAN]]
  BY DEF SymbolsInit
<1>2. slide \in Nat
  BY SymbolsAssumption DEF SymbolsInit
<1>3. LibraryOK
  BY <1>1, <1>2 DEF SymbolsInit, LibraryOK
<1>4. answer \in 0..(slide + MaxSymbols)
  BY <1>2, SymbolsAssumption DEF SymbolsInit
<1> QED
  BY <1>3, <1>4 DEF SymbolsInit, SymbolsIInv

LEMMA SymbolsStepInv ==
  ASSUME SymbolsIInv, [SymbolsNext]_symbolsVars
  PROVE  SymbolsIInv'
<1>1. UNCHANGED <<format, symbols, hash, tables, slide>>
  BY DEF SymbolsNext, findSymbol, symbolsVars, library
<1>2. LibraryOK'
  BY <1>1 DEF SymbolsIInv, LibraryOK, GnuOrdered, Bucket, Value
<1>3. CASE UNCHANGED symbolsVars
  <2>1. asked' = asked /\ answer' = answer
    BY <1>3 DEF symbolsVars
  <2>2. AnswerOK(asked, answer) => AnswerOK(asked, answer)'
    BY <1>1, <2>1 DEF AnswerOK, Value, NameOf
  <2> QED
    BY <1>1, <1>2, <2>1, <2>2 DEF SymbolsIInv
<1>4. ASSUME NEW name \in Names \cup {NoName}, findSymbol(name) PROVE SymbolsIInv'
  <2>1. asked' = name /\ answer' = AnswerTo(name)
    BY <1>4 DEF findSymbol, AnswerTo
  <2>2. AnswerOK(name, answer')
    BY <2>1, AnswerRight DEF SymbolsIInv
  <2>3. AnswerOK(asked, answer)'
    BY <1>1, <2>1, <2>2 DEF AnswerOK, Value, NameOf
  <2>4. (answer \in 0..(slide + MaxSymbols))'
    BY <2>3 DEF AnswerOK
  <2> QED
    BY <1>2, <2>1, <2>3, <2>4 DEF SymbolsIInv
<1> QED
  BY <1>3, <1>4 DEF SymbolsNext

LEMMA SymbolsInvariance == SymbolsSpec => []SymbolsIInv
<1> QED
  BY SymbolsInitInv, SymbolsStepInv, PTL DEF SymbolsSpec

\* For any names, hashes and tables a linker writes: an answer is an address
\* of the image, and no bucket of a GNU table begins before its first hash.
THEOREM SymbolTypeCorrect == SymbolsSpec => []SymbolTypes
<1> QED
  BY AnswersFound, SymbolsInvariance, PTL

\* However names collide in buckets, hashes and the filter, what is answered is
\* a symbol of that name, and nothing is missed that SymbolFound does not except.
THEOREM SymbolsAreFound == SymbolsSpec => []SymbolFound
<1> QED
  BY AnswersFound, SymbolsInvariance, PTL

-----------------------------------------------------------------------------
(* The pointer validator                                                   *)

\* The pages of a region.
Covers(r, p) == r.start <= p /\ p < r.end

\* The walk has kept fewer regions than it has passed pages.
CacheTypes ==
  /\ ValidatorTypes
  /\ cache \in Seq(Region)
  /\ held \in [Pages -> SUBSET (Kinds \cup Unmapped)]
  /\ remaps \in Nat
  /\ refreshing => Len(cache) <= IF address = 0 THEN 0 ELSE address - 1
  /\ ~refreshing /\ ~filled => cache = <<>>

\* What a region says was true of each of its pages since the cache was filled.
HeldInv ==
  /\ refreshing \/ filled => \A p \in Pages : perm[p] \subseteq held[p]
  /\ \A x \in DOMAIN cache, p \in Pages :
       Covers(cache[x], p) => cache[x].perm \subseteq held[p]

\* No region ends and another begins without a reason.
Boundary(a) == perm[a - 1] # perm[a] \/ a \in cut

Known == fresh /\ (refreshing \/ filled)

\* Of a map that has not changed: regions say what is true now ...
Truthful ==
  \A x \in DOMAIN cache, p \in Pages : Covers(cache[x], p) => perm[p] = cache[x].perm
\* ... are merged where they can be, and in order ...
Apart(s) ==
  \A x, j \in DOMAIN s : s[x].end = s[j].start => s[x].perm # s[j].perm
Ordered(s) == \A x, j \in DOMAIN s : x < j => s[x].end <= s[j].start
\* ... and hold every page in use that the walk has passed.
Complete ==
  \A p \in Pages :
    perm[p] # Unmapped /\ (refreshing => p < address)
      => \E x \in DOMAIN cache : Covers(cache[x], p)
\* The walk stands behind the regions it has, between two of the kernel.
Standing ==
  /\ \A x \in DOMAIN cache : cache[x].end <= address
  /\ address # 0 /\ address <= Top => address > 1 /\ Boundary(address)

FreshInv ==
  Known => /\ Truthful /\ Apart(cache) /\ Ordered(cache) /\ Complete
           /\ refreshing => Standing

ValidatorIInv == CacheTypes /\ HeldInv /\ FreshInv

(* The bisection                                                           *)

\* What is known of every region of a cache.
LEMMA ElementOfRegions ==
  ASSUME NEW s \in Seq(Region), NEW x \in DOMAIN s
  PROVE  /\ s[x] \in Region /\ s[x].start \in Nat /\ s[x].end \in Nat
         /\ s[x].start >= 1 /\ s[x].end <= Top + 1 /\ Top \in Nat
<1>1. s[x] \in Region /\ Top \in Nat
  BY ValidatorAssumption
<1> QED
  BY <1>1 DEF Region, Pages

Spans == (0..Len(cache)) \X (0..Len(cache))

\* The bisection as a function, which is there because the spans get shorter.
Search(a) == CHOOSE search : search = [span \in Spans |-> Half(search, span[1], span[2], a)]

\* Half a span is a shorter one.
LEMMA Halves ==
  ASSUME NEW left \in Nat, NEW right \in Nat, left < right
  PROVE  LET mid == left + (right - left) \div 2 IN
         mid \in left..(right - 1)
<1>1. \A w \in Nat : w > 0 => w \div 2 \in 0..(w - 1)
  OBVIOUS
<1>2. right - left \in Nat /\ right - left > 0
  OBVIOUS
<1>3. (right - left) \div 2 \in 0..(right - left - 1)
  BY <1>1, <1>2
<1> QED
  BY <1>3

\* What a span finds depends on shorter spans only.
LEMMA HalfLocal ==
  ASSUME NEW a, NEW n \in Nat, NEW f, NEW g, cache \in Seq(Region),
         NEW left \in 0..Len(cache), NEW right \in 0..Len(cache), right - left <= n,
         \A span \in Spans : span[2] - span[1] < n => f[span] = g[span]
  PROVE  Half(f, left, right, a) = Half(g, left, right, a)
<1>1. CASE left >= right
  BY <1>1 DEF Half
<1>2. CASE left < right
  <2> DEFINE mid == left + (right - left) \div 2
  <2>1. mid \in left..(right - 1)
    BY <1>2, Halves
  <2> HIDE DEF mid
  <2>2. /\ <<mid + 1, right>> \in Spans /\ <<left, mid>> \in Spans
        /\ right - (mid + 1) < n /\ mid - left < n
    BY <2>1, <1>2 DEF Spans
  <2>3. f[<<mid + 1, right>>] = g[<<mid + 1, right>>] /\ f[<<left, mid>>] = g[<<left, mid>>]
    BY <2>2
  <2> QED
    BY <2>3, <1>2 DEF Half, mid
<1> QED
  BY <1>1, <1>2

LEMMA SearchExists ==
  ASSUME NEW a, cache \in Seq(Region)
  PROVE  \E search : search = [span \in Spans |-> Half(search, span[1], span[2], a)]
<1> DEFINE Once(f) == [span \in Spans |-> Half(f, span[1], span[2], a)]
           Short(n) == {span \in Spans : span[2] - span[1] < n}
           Settled(f, n) == /\ f = [span \in Spans |-> f[span]]
                            /\ \A span \in Short(n) : f[span] = Once(f)[span]
           T == {n \in Nat : ~\E f : Settled(f, n)}
<1>1. T = {}
  <2> SUFFICES ASSUME T # {} PROVE FALSE
    OBVIOUS
  <2>1. PICK n \in T : \A m \in T : n <= m
    BY LeastOf
  <2>2. CASE n = 0
    <3> DEFINE f == [span \in Spans |-> span[2]]
    <3>1. f = [span \in Spans |-> f[span]]
      OBVIOUS
    <3>2. ASSUME NEW span \in Short(0) PROVE f[span] = Once(f)[span]
      BY <3>2 DEF Half, Spans
    <3>3. Settled(f, 0)
      BY <3>1, <3>2
    <3> QED
      BY <3>3, <2>1, <2>2
  <2>3. CASE n # 0
    <3>1. n - 1 \in Nat /\ n - 1 \notin T
      BY <2>1, <2>3
    <3>2. PICK f : Settled(f, n - 1)
      BY <3>1
    <3> DEFINE g == Once(f)
    <3>3. g = [span \in Spans |-> g[span]]
      OBVIOUS
    <3>4. \A span \in Spans : span[2] - span[1] < n - 1 => f[span] = g[span]
      BY <3>2
    <3>5. ASSUME NEW span \in Short(n) PROVE g[span] = Once(g)[span]
      <4>1. span \in Spans /\ span[1] \in 0..Len(cache) /\ span[2] \in 0..Len(cache)
            /\ span[2] - span[1] <= n - 1
        BY <3>1, <3>5 DEF Spans
      <4> HIDE DEF g
      <4>2. Half(f, span[1], span[2], a) = Half(g, span[1], span[2], a)
        BY <4>1, <3>1, <3>4, HalfLocal
      <4> QED
        BY <4>1, <4>2 DEF g
    <3>6. Settled(g, n)
      BY <3>3, <3>5
    <3> QED
      BY <3>6, <2>1
  <2> QED
    BY <2>2, <2>3
<1>2. Len(cache) + 1 \in Nat
  OBVIOUS
<1>3. PICK f : Settled(f, Len(cache) + 1)
  BY <1>1, <1>2
<1>4. \A span \in Spans : span \in Short(Len(cache) + 1)
  BY DEF Spans
<1>5. \A span \in Spans : f[span] = Once(f)[span]
  BY <1>3, <1>4
<1>6. f = [span \in Spans |-> Half(f, span[1], span[2], a)]
  BY <1>3, <1>5
<1> QED
  BY <1>6

LEMMA SearchStep ==
  ASSUME NEW a, cache \in Seq(Region), NEW left \in 0..Len(cache), NEW right \in 0..Len(cache)
  PROVE  Search(a)[<<left, right>>] = Half(Search(a), left, right, a)
<1>1. Search(a) = [span \in Spans |-> Half(Search(a), span[1], span[2], a)]
  BY SearchExists DEF Search
<1>2. <<left, right>> \in Spans
  BY DEF Spans
<1> QED
  BY <1>1, <1>2

LEMMA BisectSearches == ASSUME NEW a PROVE Bisect(a) = Search(a)[<<0, Len(cache)>>]
  BY DEF Bisect, Search, Spans

\* Whatever the cache holds, the search stays within it.
LEMMA SearchRange ==
  ASSUME NEW a, cache \in Seq(Region)
  PROVE  \A left, right \in 0..Len(cache) :
           left <= right => Search(a)[<<left, right>>] \in left..right
<1> DEFINE Bad(n) == \E left, right \in 0..Len(cache) :
                        /\ left <= right /\ right - left = n
                        /\ Search(a)[<<left, right>>] \notin left..right
           T == {n \in Nat : Bad(n)}
<1>l. Len(cache) \in Nat
  OBVIOUS
<1>t. \A n \in Nat : n \notin T => ~Bad(n)
  OBVIOUS
<1>1. T = {}
  <2> SUFFICES ASSUME T # {} PROVE FALSE
    OBVIOUS
  <2>1. PICK n \in T : \A m \in T : n <= m
    <3>1. T \in SUBSET Nat
      OBVIOUS
    <3> HIDE DEF T
    <3> QED
      BY <3>1, LeastOf
  <2>2. PICK left \in 0..Len(cache), right \in 0..Len(cache) :
          /\ left <= right /\ right - left = n
          /\ Search(a)[<<left, right>>] \notin left..right
    BY <2>1
  <2>3. Search(a)[<<left, right>>] = Half(Search(a), left, right, a)
    BY SearchStep
  <2>4. CASE left = right
    BY <2>2, <2>3, <2>4 DEF Half
  <2>5. CASE left < right
    <3> DEFINE mid == left + (right - left) \div 2
    <3>1. mid \in left..(right - 1)
      BY <2>5, Halves
    <3> HIDE DEF mid, T, Bad
    <3>2. mid \in 0..Len(cache) /\ mid + 1 \in 0..Len(cache)
          /\ mid - left \in Nat /\ right - (mid + 1) \in Nat
          /\ mid - left < n /\ right - (mid + 1) < n /\ n \in Nat
      BY <3>1, <2>2, <1>l
    <3>3. mid - left \notin T /\ right - (mid + 1) \notin T
      BY <3>2, <2>1
    <3>7. ~Bad(mid - left) /\ ~Bad(right - (mid + 1))
      BY <3>2, <3>3, <1>t
    <3>4. /\ Search(a)[<<left, mid>>] \in left..mid
          /\ Search(a)[<<mid + 1, right>>] \in (mid + 1)..right
      <4>1. left <= mid /\ mid + 1 <= right
        BY <3>1
      <4> QED
        BY <4>1, <3>2, <3>7 DEF Bad
    <3>5. \/ Search(a)[<<left, right>>] = Search(a)[<<mid + 1, right>>]
          \/ Search(a)[<<left, right>>] = Search(a)[<<left, mid>>]
      BY <2>3, <2>5 DEF Half, mid
    <3> QED
      BY <3>1, <3>4, <3>5, <2>2
  <2> QED
    BY <2>2, <2>4, <2>5
<1> SUFFICES ASSUME NEW left \in 0..Len(cache), NEW right \in 0..Len(cache), left <= right
             PROVE  Search(a)[<<left, right>>] \in left..right
  OBVIOUS
<1> HIDE DEF T, Bad
<1>2. right - left \in Nat /\ ~Bad(right - left)
  BY <1>1, <1>t, <1>l
<1> QED
  BY <1>2 DEF Bad

\* In a cache in order, it finds the region that holds a: regions before it end
\* at or before a, and it does not.
LEMMA SearchFinds ==
  ASSUME NEW a \in Nat, cache \in Seq(Region), Ordered(cache),
         \A m \in DOMAIN cache : cache[m].start < cache[m].end,
         NEW k \in DOMAIN cache, Holds(cache[k], a)
  PROVE  \A left, right \in 0..Len(cache) :
           left < k /\ k - 1 <= right => Search(a)[<<left, right>>] = k - 1
<1>1. \A m \in DOMAIN cache : cache[m].start \in Nat /\ cache[m].end \in Nat
  BY ElementOfRegions
<1>2. ASSUME NEW m \in DOMAIN cache PROVE EndsBefore(cache[m], a) <=> m < k
  <2>1. CASE m < k
    BY <2>1, <1>1 DEF EndsBefore, Holds, Ordered
  <2>2. CASE m >= k
    <3>1. m = k \/ cache[k].end <= cache[m].start
      BY <2>2 DEF Ordered
    <3>2. cache[m].end > a
      BY <3>1, <1>1 DEF Holds
    <3> QED
      BY <3>2, <2>2, <1>1 DEF EndsBefore
  <2> QED
    BY <2>1, <2>2
<1> DEFINE Bad(n) == \E left, right \in 0..Len(cache) :
                        /\ left < k /\ k - 1 <= right /\ right - left = n
                        /\ Search(a)[<<left, right>>] # k - 1
           T == {n \in Nat : Bad(n)}
<1>l. Len(cache) \in Nat /\ DOMAIN cache = 1..Len(cache)
  OBVIOUS
<1>t. \A n \in Nat : n \notin T => ~Bad(n)
  OBVIOUS
<1>3. T = {}
  <2> SUFFICES ASSUME T # {} PROVE FALSE
    OBVIOUS
  <2>1. PICK n \in T : \A m \in T : n <= m
    <3>1. T \in SUBSET Nat
      OBVIOUS
    <3> HIDE DEF T
    <3> QED
      BY <3>1, LeastOf
  <2>2. PICK left \in 0..Len(cache), right \in 0..Len(cache) :
          /\ left < k /\ k - 1 <= right /\ right - left = n
          /\ Search(a)[<<left, right>>] # k - 1
    BY <2>1
  <2>3. Search(a)[<<left, right>>] = Half(Search(a), left, right, a)
    BY SearchStep
  <2>4. CASE left >= right
    BY <2>2, <2>3, <2>4 DEF Half
  <2>5. CASE left < right
    <3> DEFINE mid == left + (right - left) \div 2
    <3>1. mid \in left..(right - 1)
      BY <2>5, Halves
    <3>2. Search(a)[<<left, right>>] =
            IF EndsBefore(cache[mid + 1], a) THEN Search(a)[<<mid + 1, right>>]
            ELSE Search(a)[<<left, mid>>]
      BY <2>3, <2>5 DEF Half
    <3> HIDE DEF mid, T, Bad
    <3>3. mid \in 0..Len(cache) /\ mid + 1 \in DOMAIN cache /\ mid + 1 \in 0..Len(cache)
          /\ mid - left \in Nat /\ right - (mid + 1) \in Nat
          /\ mid - left < n /\ right - (mid + 1) < n /\ n \in Nat
      BY <3>1, <2>2, <1>l
    <3>4. mid - left \notin T /\ right - (mid + 1) \notin T
      BY <3>3, <2>1
    <3>7. ~Bad(mid - left) /\ ~Bad(right - (mid + 1))
      BY <3>3, <3>4, <1>t
    <3>5. CASE mid + 1 < k
      <4>1. Search(a)[<<left, right>>] = Search(a)[<<mid + 1, right>>]
        BY <3>5, <3>2, <3>3, <1>2
      <4>2. Search(a)[<<mid + 1, right>>] = k - 1
        BY <3>3, <3>7, <3>5, <2>2 DEF Bad
      <4> QED
        BY <4>1, <4>2, <2>2
    <3>6. CASE ~(mid + 1 < k)
      <4>1. Search(a)[<<left, right>>] = Search(a)[<<left, mid>>]
        BY <3>6, <3>2, <3>3, <1>2
      <4>2. k - 1 <= mid
        BY <3>6, <3>3
      <4>3. Search(a)[<<left, mid>>] = k - 1
        BY <3>3, <3>7, <4>2, <2>2 DEF Bad
      <4> QED
        BY <4>1, <4>3, <2>2
    <3> QED
      BY <3>5, <3>6
  <2> QED
    BY <2>4, <2>5
<1> SUFFICES ASSUME NEW left \in 0..Len(cache), NEW right \in 0..Len(cache),
                    left < k, k - 1 <= right
             PROVE  Search(a)[<<left, right>>] = k - 1
  OBVIOUS
<1>5. CASE right < left
  <2>1. Search(a)[<<left, right>>] = right /\ right = k - 1
    BY <1>5, <1>l, SearchStep DEF Half
  <2> QED
    BY <2>1
<1>6. CASE left <= right
  <2> HIDE DEF T, Bad
  <2>1. right - left \in Nat /\ ~Bad(right - left)
    BY <1>6, <1>3, <1>t, <1>l
  <2> QED
    BY <2>1 DEF Bad
<1> QED
  BY <1>5, <1>6
\* The region found, if any, holds the address.
LEMMA FoundHolds ==
  ASSUME NEW a, cache \in Seq(Region), last \in Nat
  PROVE  /\ Found(a) \in 0..Len(cache)
         /\ Found(a) < Len(cache) => /\ Found(a) + 1 \in DOMAIN cache
                                     /\ Holds(cache[Found(a) + 1], a)
<1>1. 0 \in 0..Len(cache) /\ Len(cache) \in 0..Len(cache)
  OBVIOUS
<1>2. Bisect(a) \in 0..Len(cache)
  BY <1>1, SearchRange, BisectSearches
<1> QED
  BY <1>2 DEF Found

\* In a cache in order, a region that holds the address is found.
LEMMA FoundWhereHeld ==
  ASSUME NEW a \in Nat, cache \in Seq(Region), last \in Nat, Ordered(cache),
         \A m \in DOMAIN cache : cache[m].start < cache[m].end,
         NEW k \in DOMAIN cache, Holds(cache[k], a)
  PROVE  Found(a) < Len(cache)
<1>1. 0 \in 0..Len(cache) /\ Len(cache) \in 0..Len(cache) /\ k \in 1..Len(cache)
      /\ Len(cache) \in Nat
  OBVIOUS
<1>2. Bisect(a) = k - 1
  BY <1>1, SearchFinds, BisectSearches
<1>3. cache[(k - 1) + 1] = cache[k]
  BY <1>1
<1> QED
  BY <1>1, <1>2, <1>3 DEF Found

(* A region of the kernel                                                  *)

MapTypes ==
  /\ perm \in [Pages -> Perms \cup {Unmapped}]
  /\ cut \subseteq 2..Top

LEMMA RegionShape ==
  ASSUME MapTypes, NEW a \in 0..(Top + 1), MappedFrom(a) # {}
  PROVE  /\ RegionAt(a) \in Region
         /\ RegionAt(a).start < RegionAt(a).end /\ a < RegionAt(a).end
         /\ \A p \in Pages : Covers(RegionAt(a), p) => perm[p] = RegionAt(a).perm
         /\ \A p \in Pages : p >= a /\ perm[p] # Unmapped /\ p < RegionAt(a).end
                               => Covers(RegionAt(a), p)
         /\ a \in 2..Top /\ Boundary(a) => a <= RegionAt(a).start
         /\ RegionAt(a).end <= Top => Boundary(RegionAt(a).end)
<1> DEFINE p == Min(MappedFrom(a))
           Down == {q \in Pages : Together(q, p)}
           Up == {q \in Pages : Together(p, q)}
<1>0. Top \in Nat /\ Pages = 1..Top /\ Perms \subseteq SUBSET Kinds
  BY ValidatorAssumption DEF Pages, Kinds
<1>1. MappedFrom(a) \in SUBSET Nat
  BY <1>0 DEF MappedFrom
<1>2. p \in MappedFrom(a) /\ \A q \in MappedFrom(a) : p <= q
  BY <1>1, LeastMin
<1>3. p \in Pages /\ p >= a /\ perm[p] # Unmapped
  BY <1>2 DEF MappedFrom
<1> HIDE DEF p
<1>4. Together(p, p)
  BY <1>0, <1>3 DEF Together
<1>5. Min(Down) \in Down /\ \A q \in Down : Min(Down) <= q
  <2>1. Down \in SUBSET Nat /\ Down # {}
    BY <1>0, <1>3, <1>4
  <2> HIDE DEF Down
  <2> QED
    BY <2>1, LeastMin
<1>6. Max(Up) \in Up /\ \A q \in Up : q <= Max(Up)
  <2>1. Up \in SUBSET (0..Top) /\ Up # {}
    BY <1>0, <1>3, <1>4
  <2> HIDE DEF Up
  <2> QED
    BY <2>1, <1>0, GreatestMax
<1> DEFINE s == Min(Down)
           e == Max(Up)
<1>7. RegionAt(a) = [start |-> s, end |-> e + 1, perm |-> perm[p]]
  BY DEF RegionAt, p
<1>8. /\ s \in Pages /\ s <= p /\ e \in Pages /\ p <= e
      /\ \A x \in s..p : perm[x] = perm[s] /\ (x = s \/ x \notin cut)
      /\ \A x \in p..e : perm[x] = perm[p] /\ (x = p \/ x \notin cut)
  BY <1>5, <1>6 DEF Together
<1>9. e + 1 <= Top => ~Together(p, e + 1)
  BY <1>0, <1>6, <1>8
<1> HIDE DEF s, e
<1> DEFINE r == RegionAt(a)
<1>10. r.start = s /\ r.end = e + 1 /\ r.perm = perm[p]
  BY <1>7
<1>11. perm[p] \in SUBSET Kinds
  BY <1>0, <1>3 DEF MapTypes
<1>12. r \in Region
  BY <1>0, <1>7, <1>8, <1>11 DEF Region
<1> HIDE DEF r
<1>13. ASSUME NEW q \in Pages, Covers(r, q) PROVE perm[q] = r.perm
  <2>1. q \in s..p \/ q \in p..e
    BY <1>0, <1>3, <1>8, <1>10, <1>13 DEF Covers
  <2>2. p \in s..p
    BY <1>0, <1>3, <1>8
  <2> QED
    BY <2>1, <2>2, <1>8, <1>10
<1>14. ASSUME NEW q \in Pages, q >= a, perm[q] # Unmapped, q < r.end PROVE Covers(r, q)
  <2>1. p <= q
    BY <1>2, <1>14 DEF MappedFrom
  <2> QED
    BY <2>1, <1>0, <1>3, <1>8, <1>10, <1>14 DEF Covers
<1>15. ASSUME a \in 2..Top, Boundary(a) PROVE a <= r.start
  <2> SUFFICES ASSUME s < a PROVE FALSE
    BY <1>0, <1>8, <1>10, <1>15
  <2>1. a \in s..p /\ a - 1 \in s..p /\ a # s
    BY <1>0, <1>3, <1>8, <1>15
  <2> QED
    BY <2>1, <1>8, <1>15 DEF Boundary
<1>16. ASSUME r.end <= Top PROVE Boundary(r.end)
  <2>1. PICK x \in p..(e + 1) : ~(perm[x] = perm[p] /\ (x = p \/ x \notin cut))
    BY <1>0, <1>3, <1>8, <1>9, <1>10, <1>16 DEF Together
  <2>2. x = e + 1
    BY <2>1, <1>0, <1>3, <1>8
  <2>3. e \in p..e /\ (e + 1) - 1 = e
    BY <1>0, <1>3, <1>8
  <2> QED
    BY <2>1, <2>2, <2>3, <1>8, <1>10 DEF Boundary
<1>17. r.start < r.end /\ a < r.end
  BY <1>0, <1>3, <1>8, <1>10
<1> QED
  BY <1>12, <1>13, <1>14, <1>15, <1>16, <1>17 DEF r

(* The filling                                                             *)

\* One more region, or the last one longer: what there was stays, and the
\* pages that become covered are those of the new region.
LEMMA MergedShape ==
  ASSUME NEW s \in Seq(Region), NEW r \in Region, r.start < r.end,
         \A x \in DOMAIN s : s[x].start < s[x].end
  PROVE  \/ /\ Len(s) > 0 /\ canMergeWith(s[Len(s)], r)
            /\ Merged(s, r) \in Seq(Region) /\ Len(Merged(s, r)) = Len(s)
            /\ \A x \in 1..(Len(s) - 1) : Merged(s, r)[x] = s[x]
            /\ Merged(s, r)[Len(s)] =
                 [start |-> s[Len(s)].start, end |-> r.end, perm |-> r.perm]
         \/ /\ Len(s) > 0 => ~canMergeWith(s[Len(s)], r)
            /\ Merged(s, r) \in Seq(Region) /\ Len(Merged(s, r)) = Len(s) + 1
            /\ \A x \in 1..Len(s) : Merged(s, r)[x] = s[x]
            /\ Merged(s, r)[Len(s) + 1] = r
<1>1. CASE Len(s) > 0 /\ canMergeWith(s[Len(s)], r)
  <2> DEFINE n == Len(s)
             long == [s[n] EXCEPT !.end = r.end]
  <2>1. n \in DOMAIN s /\ s[n] \in Region /\ n \in Nat /\ DOMAIN s = 1..n
    BY <1>1
  <2>2. Merged(s, r) = [s EXCEPT ![n] = long]
    BY <1>1 DEF Merged
  <2>3. long = [start |-> s[n].start, end |-> r.end, perm |-> r.perm] /\ long \in Region
    BY <2>1, <1>1 DEF Region, canMergeWith
  <2> HIDE DEF n, long
  <2>4. Merged(s, r) \in Seq(Region) /\ Len(Merged(s, r)) = n
    BY <2>1, <2>2, <2>3 DEF n
  <2>5. \A x \in 1..(n - 1) : Merged(s, r)[x] = s[x]
    BY <2>1, <2>2
  <2>6. Merged(s, r)[n] = long
    BY <2>1, <2>2
  <2> QED
    BY <2>3, <2>4, <2>5, <2>6, <1>1 DEF n
<1>2. CASE ~(Len(s) > 0 /\ canMergeWith(s[Len(s)], r))
  BY <1>2 DEF Merged
<1> QED
  BY <1>1, <1>2
\* What the merged regions cover, and that each is a region.
LEMMA MergedCovers ==
  ASSUME NEW s \in Seq(Region), NEW r \in Region, r.start < r.end,
         \A x \in DOMAIN s : s[x].start < s[x].end
  PROVE  /\ \A x \in DOMAIN Merged(s, r) : Merged(s, r)[x].start < Merged(s, r)[x].end
         /\ \A x \in DOMAIN Merged(s, r), p \in Pages : Covers(Merged(s, r)[x], p) =>
              \/ Merged(s, r)[x].perm = r.perm /\ Covers(r, p)
              \/ \E j \in DOMAIN s : Merged(s, r)[x].perm = s[j].perm /\ Covers(s[j], p)
         /\ \A j \in DOMAIN s, p \in Pages : Covers(s[j], p) =>
              \E x \in DOMAIN Merged(s, r) : Covers(Merged(s, r)[x], p)
         /\ \A p \in Pages : Covers(r, p) =>
              \E x \in DOMAIN Merged(s, r) : Covers(Merged(s, r)[x], p)
<1> DEFINE n == Len(s)
           m == Merged(s, r)
<1>0. /\ n \in Nat /\ DOMAIN s = 1..n /\ Top \in Nat /\ Pages = 1..Top
      /\ r.start \in Nat /\ r.end \in Nat
      /\ \A x \in DOMAIN s : s[x].start \in Nat /\ s[x].end \in Nat
  <2>1. Top \in Nat /\ Pages = 1..Top
    BY ValidatorAssumption DEF Pages
  <2>2. r.start \in Nat /\ r.end \in Nat
    BY <2>1 DEF Region
  <2>3. \A x \in DOMAIN s : s[x].start \in Nat /\ s[x].end \in Nat
    BY ElementOfRegions
  <2> QED
    BY <2>1, <2>2, <2>3
<1>1. CASE /\ n > 0 /\ canMergeWith(s[n], r)
           /\ m \in Seq(Region) /\ Len(m) = n
           /\ \A x \in 1..(n - 1) : m[x] = s[x]
           /\ m[n] = [start |-> s[n].start, end |-> r.end, perm |-> r.perm]
  <2> HIDE DEF m, n
  <2>1. /\ DOMAIN m = 1..n /\ n \in DOMAIN m /\ n \in DOMAIN s
        /\ s[n].end = r.start /\ s[n].perm = r.perm
        /\ m[n].start = s[n].start /\ m[n].end = r.end /\ m[n].perm = r.perm
    BY <1>0, <1>1 DEF canMergeWith
  <2>2. \A p \in Pages : Covers(m[n], p) <=> Covers(s[n], p) \/ Covers(r, p)
    BY <2>1, <1>0 DEF Covers
  <2>3. \A x \in DOMAIN m : x # n => x \in 1..(n - 1) /\ x \in DOMAIN s /\ m[x] = s[x]
    BY <2>1, <1>0, <1>1
  <2>4. \A x \in DOMAIN m : m[x].start < m[x].end
    BY <2>1, <2>3, <1>0
  <2>5. \A x \in DOMAIN s : x # n => x \in DOMAIN m /\ m[x] = s[x]
    BY <2>1, <2>3, <1>0
  <2> QED
    BY <2>1, <2>2, <2>3, <2>4, <2>5 DEF m
<1>2. CASE /\ m \in Seq(Region) /\ Len(m) = n + 1
           /\ \A x \in 1..n : m[x] = s[x]
           /\ m[n + 1] = r
  <2> HIDE DEF m, n
  <2>1. DOMAIN m = 1..(n + 1) /\ n + 1 \in DOMAIN m
    BY <1>0, <1>2
  <2>2. \A x \in DOMAIN m : x = n + 1 \/ (x \in DOMAIN s /\ m[x] = s[x])
    BY <2>1, <1>0, <1>2
  <2>3. \A x \in DOMAIN s : x \in DOMAIN m /\ m[x] = s[x]
    BY <2>1, <1>0, <1>2
  <2> QED
    BY <2>1, <2>2, <2>3, <1>2 DEF m
<1> QED
  BY <1>1, <1>2, MergedShape

\* A region behind all others keeps them in order, and merged where they can be.
LEMMA MergedOrder ==
  ASSUME NEW s \in Seq(Region), NEW r \in Region, r.start < r.end,
         \A x \in DOMAIN s : s[x].start < s[x].end /\ s[x].end <= r.start,
         Ordered(s), Apart(s)
  PROVE  /\ Ordered(Merged(s, r)) /\ Apart(Merged(s, r))
         /\ \A x \in DOMAIN Merged(s, r) : Merged(s, r)[x].end <= r.end
<1> DEFINE n == Len(s)
           m == Merged(s, r)
<1>0. /\ n \in Nat /\ DOMAIN s = 1..n
      /\ r.start \in Nat /\ r.end \in Nat
      /\ \A x \in DOMAIN s : s[x].start \in Nat /\ s[x].end \in Nat
  <2>1. Top \in Nat /\ Pages = 1..Top
    BY ValidatorAssumption DEF Pages
  <2>2. r.start \in Nat /\ r.end \in Nat
    BY <2>1 DEF Region
  <2>3. \A x \in DOMAIN s : s[x].start \in Nat /\ s[x].end \in Nat
    BY ElementOfRegions
  <2> QED
    BY <2>1, <2>2, <2>3
<1>1. CASE /\ n > 0 /\ canMergeWith(s[n], r)
           /\ m \in Seq(Region) /\ Len(m) = n
           /\ \A x \in 1..(n - 1) : m[x] = s[x]
           /\ m[n] = [start |-> s[n].start, end |-> r.end, perm |-> r.perm]
  <2> HIDE DEF m, n
  <2>1. /\ DOMAIN m = 1..n /\ n \in DOMAIN m /\ n \in DOMAIN s
        /\ s[n].end = r.start /\ s[n].perm = r.perm
        /\ m[n].start = s[n].start /\ m[n].end = r.end /\ m[n].perm = r.perm
    BY <1>0, <1>1 DEF canMergeWith
  <2>2. \A x \in DOMAIN m : x # n => x < n /\ x \in DOMAIN s /\ m[x] = s[x]
    BY <2>1, <1>0, <1>1
  <2>3. \A x \in DOMAIN m : /\ m[x].start = s[x].start /\ m[x].perm = s[x].perm
                            /\ x \in DOMAIN s /\ x \in Nat /\ x <= n
                            /\ x # n => m[x].end = s[x].end
    BY <2>1, <2>2, <1>0
  <2>4. Ordered(m)
    <3> SUFFICES ASSUME NEW x \in DOMAIN m, NEW j \in DOMAIN m, x < j
                 PROVE  m[x].end <= m[j].start
      BY DEF Ordered
    <3>1. x # n
      BY <2>3, <1>0
    <3> QED
      BY <3>1, <2>3 DEF Ordered
  <2>5. Apart(m)
    <3> SUFFICES ASSUME NEW x \in DOMAIN m, NEW j \in DOMAIN m, m[x].end = m[j].start
                 PROVE  m[x].perm # m[j].perm
      BY DEF Apart
    <3>1. x # n
      BY <2>1, <2>3, <1>0
    <3> QED
      BY <3>1, <2>3 DEF Apart
  <2>6. \A x \in DOMAIN m : m[x].end <= r.end
    BY <2>1, <2>3, <1>0
  <2> QED
    BY <2>4, <2>5, <2>6 DEF m
<1>2. CASE /\ n > 0 => ~canMergeWith(s[n], r)
           /\ m \in Seq(Region) /\ Len(m) = n + 1
           /\ \A x \in 1..n : m[x] = s[x]
           /\ m[n + 1] = r
  <2> HIDE DEF m, n
  <2>1. DOMAIN m = 1..(n + 1) /\ n + 1 \in DOMAIN m
    BY <1>0, <1>2
  <2>2. \A x \in DOMAIN m : x = n + 1 \/ (x \in DOMAIN s /\ x \in 1..n /\ m[x] = s[x])
    BY <2>1, <1>0, <1>2
  <2>3. Ordered(m)
    <3> SUFFICES ASSUME NEW x \in DOMAIN m, NEW j \in DOMAIN m, x < j
                 PROVE  m[x].end <= m[j].start
      BY DEF Ordered
    <3>1. x \in DOMAIN s /\ m[x] = s[x]
      BY <2>1, <2>2, <1>0
    <3>2. CASE j = n + 1
      BY <3>1, <3>2, <1>2
    <3>3. CASE j # n + 1
      BY <3>1, <3>3, <2>2 DEF Ordered
    <3> QED
      BY <3>2, <3>3
  <2>4. Apart(m)
    <3> SUFFICES ASSUME NEW x \in DOMAIN m, NEW j \in DOMAIN m, m[x].end = m[j].start
                 PROVE  m[x].perm # m[j].perm
      BY DEF Apart
    <3>1. x # n + 1
      BY <2>2, <1>0, <1>2
    <3>2. x \in DOMAIN s /\ x \in 1..n /\ m[x] = s[x]
      BY <3>1, <2>2
    <3>3. CASE j = n + 1
      <4>1. s[x].end = r.start
        BY <3>2, <3>3, <1>2
      <4>2. x = n
        <5> SUFFICES ASSUME x < n PROVE FALSE
          BY <3>2, <1>0
        <5>1. n \in DOMAIN s /\ s[x].end <= s[n].start
          BY <3>2, <1>0 DEF Ordered
        <5> QED
          BY <5>1, <4>1, <1>0
      <4> QED
        BY <3>2, <3>3, <4>1, <4>2, <1>2, <1>0 DEF canMergeWith
    <3>4. CASE j # n + 1
      BY <3>2, <3>4, <2>2 DEF Apart
    <3> QED
      BY <3>3, <3>4
  <2>5. \A x \in DOMAIN m : m[x].end <= r.end
    BY <2>2, <1>0, <1>2
  <2> QED
    BY <2>3, <2>4, <2>5 DEF m
<1> QED
  BY <1>1, <1>2, MergedShape

LEMMA WalkRegionKeeps ==
  ASSUME ValidatorIInv, WalkRegion
  PROVE  ValidatorIInv'
<1> DEFINE r == RegionAt(address)
<1>0. /\ Top \in Nat /\ Pages = 1..Top /\ MapTypes /\ address \in 0..(Top + 1)
      /\ cache \in Seq(Region) /\ held \in [Pages -> SUBSET (Kinds \cup Unmapped)]
      /\ \A x \in DOMAIN cache : cache[x].start < cache[x].end
      /\ CacheTypes /\ HeldInv /\ FreshInv
  BY ValidatorAssumption DEF ValidatorIInv, CacheTypes, ValidatorTypes, MapTypes, Pages
<1>1. /\ refreshing /\ MappedFrom(address) # {}
      /\ cache' = Merged(cache, r) /\ address' = NextAddress(r)
      /\ UNCHANGED <<perm, cut, remaps, use_cache, last, refreshing, filled, fresh, held>>
  BY DEF WalkRegion, memoryMap
<1>2. /\ r \in Region /\ r.start < r.end /\ address < r.end
      /\ \A p \in Pages : Covers(r, p) => perm[p] = r.perm
      /\ \A p \in Pages : p >= address /\ perm[p] # Unmapped /\ p < r.end => Covers(r, p)
      /\ address \in 2..Top /\ Boundary(address) => address <= r.start
      /\ r.end <= Top => Boundary(r.end)
  BY <1>0, <1>1, RegionShape
<1> HIDE DEF r
<1>3. r.start \in Pages /\ r.end \in 2..(Top + 1) /\ r.perm \in SUBSET Kinds
  BY <1>2 DEF Region
<1>4. address' = r.end
  BY <1>0, <1>1, <1>3 DEF NextAddress
<1>5. cache' \in Seq(Region) /\ Len(cache') <= Len(cache) + 1
  <2>1. /\ Merged(cache, r) \in Seq(Region)
        /\ Len(Merged(cache, r)) = Len(cache) \/ Len(Merged(cache, r)) = Len(cache) + 1
    BY <1>0, <1>2, MergedShape
  <2>2. Len(cache) \in Nat
    BY <1>0
  <2> QED
    BY <2>1, <2>2, <1>1
<1>6. /\ \A x \in DOMAIN cache' : cache'[x].start < cache'[x].end
      /\ \A x \in DOMAIN cache', p \in Pages : Covers(cache'[x], p) =>
           \/ cache'[x].perm = r.perm /\ Covers(r, p)
           \/ \E j \in DOMAIN cache : cache'[x].perm = cache[j].perm /\ Covers(cache[j], p)
      /\ \A j \in DOMAIN cache, p \in Pages : Covers(cache[j], p) =>
           \E x \in DOMAIN cache' : Covers(cache'[x], p)
      /\ \A p \in Pages : Covers(r, p) => \E x \in DOMAIN cache' : Covers(cache'[x], p)
  BY <1>0, <1>1, <1>2, MergedCovers
<1>7. CacheTypes'
  <2>1. Len(cache') <= r.end - 1
    <3>1. Len(cache) <= IF address = 0 THEN 0 ELSE address - 1
      BY <1>0, <1>1 DEF CacheTypes
    <3> QED
      BY <3>1, <1>0, <1>2, <1>3, <1>5
  <2>2. \A x \in 1..Len(cache') : cache'[x] \in Region /\ cache'[x].start < cache'[x].end
    BY <1>5, <1>6
  <2> QED
    <3>1. ValidatorTypes'
      <4>1. Len(cache') <= Top
        BY <2>1, <1>0, <1>3, <1>5
      <4>2. address' \in 0..(Top + 1)
        BY <1>0, <1>3, <1>4
      <4> QED
        BY <2>2, <4>1, <4>2, <1>0, <1>1 DEF CacheTypes, ValidatorTypes
    <3>2. Len(cache') <= IF address' = 0 THEN 0 ELSE address' - 1
      BY <2>1, <1>0, <1>3, <1>4
    <3> QED
      BY <3>1, <3>2, <1>0, <1>1, <1>5 DEF CacheTypes
<1>8. HeldInv'
  <2>1. \A p \in Pages : perm[p] \subseteq held[p]
    BY <1>0, <1>1 DEF HeldInv
  <2>2. \A x \in DOMAIN cache', p \in Pages :
          Covers(cache'[x], p) => cache'[x].perm \subseteq held[p]
    BY <2>1, <1>0, <1>2, <1>6 DEF HeldInv
  <2> QED
    BY <2>1, <2>2, <1>1 DEF HeldInv
<1>9. FreshInv'
  <2> SUFFICES ASSUME fresh
               PROVE  /\ Truthful' /\ Apart(cache') /\ Ordered(cache') /\ Complete'
                      /\ Standing'
    BY <1>1 DEF FreshInv, Known, Apart, Ordered
  <2>1. Truthful /\ Apart(cache) /\ Ordered(cache) /\ Complete /\ Standing
    BY <1>0, <1>1 DEF FreshInv, Known
  <2>2. Truthful'
    BY <2>1, <1>1, <1>2, <1>6 DEF Truthful
  <2>3. \A x \in DOMAIN cache : cache[x].end <= r.start
    <3>1. CASE address = 0
      <4>1. Len(cache) = 0
        BY <3>1, <1>0, <1>1 DEF CacheTypes
      <4> QED
        BY <4>1, <1>0
    <3>2. CASE address # 0
      <4>1. address \in 2..Top /\ Boundary(address)
        BY <3>2, <2>1, <1>0, <1>2, <1>3 DEF Standing
      <4>2. address <= r.start /\ \A x \in DOMAIN cache : cache[x].end <= address
        BY <4>1, <2>1, <1>2 DEF Standing
      <4> QED
        BY <4>2, <1>0, <1>3, ElementOfRegions
    <3> QED
      BY <3>1, <3>2
  <2>4. /\ Ordered(cache') /\ Apart(cache')
        /\ \A x \in DOMAIN cache' : cache'[x].end <= r.end
    BY <2>1, <2>3, <1>0, <1>1, <1>2, MergedOrder
  <2>5. Complete'
    <3> SUFFICES ASSUME NEW p \in Pages, perm[p] # Unmapped, p < r.end
                 PROVE  \E x \in DOMAIN cache' : Covers(cache'[x], p)
      BY <1>1, <1>4 DEF Complete
    <3>1. CASE p < address
      BY <3>1, <2>1, <1>6 DEF Complete
    <3>2. CASE p >= address
      BY <3>2, <1>2, <1>6
    <3> QED
      BY <3>1, <3>2, <1>0
  <2>6. Standing'
    BY <2>4, <1>0, <1>1, <1>2, <1>3, <1>4 DEF Standing, Boundary
  <2> QED
    BY <2>2, <2>4, <2>5, <2>6
<1> QED
  BY <1>7, <1>8, <1>9 DEF ValidatorIInv
\* Sorting keeps the regions, and the order of those that are apart.
LEMMA WalkEndKeeps ==
  ASSUME ValidatorIInv, WalkEnd
  PROVE  ValidatorIInv'
<1> DEFINE D == DOMAIN cache
<1>0. /\ cache \in Seq(Region) /\ D = 1..Len(cache) /\ Len(cache) \in Nat
      /\ \A x \in D : cache[x].start < cache[x].end
      /\ \A x \in D : cache[x].start \in Nat /\ cache[x].end \in Nat
      /\ CacheTypes /\ HeldInv /\ FreshInv
  <2>1. CacheTypes /\ HeldInv /\ FreshInv /\ cache \in Seq(Region)
    BY DEF ValidatorIInv, CacheTypes
  <2>2. \A x \in D : cache[x].start \in Nat /\ cache[x].end \in Nat
    BY <2>1, ElementOfRegions
  <2>3. D = 1..Len(cache) /\ Len(cache) \in Nat
    BY <2>1
  <2> HIDE DEF D
  <2> QED
    BY <2>1, <2>2, <2>3 DEF CacheTypes, ValidatorTypes
<1>1. PICK f \in Bijection(D, D) : cache' = [x \in D |-> cache[f[x]]]
  BY DEF WalkEnd, Arrangements
<1>2. /\ Sorted(cache') /\ refreshing /\ MappedFrom(address) = {}
      /\ last' = 0 /\ refreshing' = FALSE /\ filled' = TRUE
      /\ UNCHANGED <<perm, cut, remaps, use_cache, address, fresh, held>>
  BY DEF WalkEnd, Sorted, memoryMap
<1>3. /\ f \in [D -> D]
      /\ \A x, j \in D : f[x] = f[j] => x = j
      /\ \A k \in D : \E x \in D : f[x] = k
  BY DEF Bijection, Injection, Surjection, IsInjective
<1>4. /\ cache' \in Seq(Region) /\ Len(cache') = Len(cache) /\ DOMAIN cache' = D
      /\ \A x \in D : f[x] \in D /\ cache'[x] = cache[f[x]]
  BY <1>0, <1>1, <1>3
<1> HIDE DEF D
<1>5. CacheTypes'
  <2>1. 0 \in 0..(Top + 1)
    BY ValidatorAssumption
  <2>2. \A x \in 1..Len(cache') : cache'[x] \in Region /\ cache'[x].start < cache'[x].end
    BY <1>0, <1>4
  <2>3. ValidatorTypes'
    BY <2>1, <2>2, <1>0, <1>2, <1>4 DEF CacheTypes, ValidatorTypes
  <2> QED
    BY <2>3, <1>0, <1>2, <1>4 DEF CacheTypes
<1>6. HeldInv'
  BY <1>0, <1>2, <1>4 DEF HeldInv, D
<1>7. FreshInv'
  <2> SUFFICES ASSUME fresh
               PROVE  Truthful' /\ Apart(cache') /\ Ordered(cache') /\ Complete'
    BY <1>2 DEF FreshInv, Known, Apart, Ordered
  <2>1. Truthful /\ Apart(cache) /\ Ordered(cache) /\ Complete
    BY <1>0, <1>2 DEF FreshInv, Known
  <2>2. Truthful'
    BY <2>1, <1>2, <1>4 DEF Truthful, D
  <2>3. Apart(cache')
    BY <2>1, <1>4 DEF Apart, D
  <2>4. Ordered(cache')
    <3> SUFFICES ASSUME NEW x \in D, NEW j \in D, x < j
                 PROVE  cache'[x].end <= cache'[j].start
      BY <1>4 DEF Ordered
    <3>1. f[x] \in D /\ f[j] \in D /\ f[x] # f[j] /\ f[x] \in Int /\ f[j] \in Int
      <4>1. \A k \in D : k \in Int
        BY <1>0
      <4>2. x # j
        BY <4>1
      <4> QED
        BY <4>1, <4>2, <1>3
    <3>2. cache[f[x]].start <= cache[f[j]].start
      BY <1>2, <1>4 DEF Sorted
    <3>3. CASE f[x] < f[j]
      BY <3>1, <3>3, <2>1, <1>4 DEF Ordered, D
    <3>4. CASE f[j] < f[x]
      <4>1. cache[f[j]].end <= cache[f[x]].start /\ cache[f[j]].start < cache[f[j]].end
        BY <3>1, <3>4, <2>1, <1>0 DEF Ordered, D
      <4> QED
        BY <4>1, <3>1, <3>2, <1>0
    <3> QED
      BY <3>1, <3>3, <3>4
  <2>5. Complete'
    <3> SUFFICES ASSUME NEW p \in Pages, perm[p] # Unmapped
                 PROVE  \E x \in DOMAIN cache' : Covers(cache'[x], p)
      BY <1>2 DEF Complete
    <3>1. p < address
      <4>1. Pages = 1..Top /\ address \in 0..(Top + 1) /\ Top \in Nat
        BY <1>0, ValidatorAssumption DEF CacheTypes, ValidatorTypes, Pages
      <4> QED
        BY <4>1, <1>2 DEF MappedFrom
    <3>2. PICK k \in D : Covers(cache[k], p)
      BY <3>1, <2>1 DEF Complete, D
    <3> QED
      BY <3>2, <1>3, <1>4
  <2> QED
    BY <2>2, <2>3, <2>4, <2>5
<1> QED
  BY <1>5, <1>6, <1>7 DEF ValidatorIInv

\* Where a filling begins.
LEMMA BeginKeeps ==
  ASSUME ValidatorIInv, BeginRefresh, UNCHANGED <<memoryMap, last>>, use_cache' \in BOOLEAN
  PROVE  ValidatorIInv'
<1>0. Top \in Nat /\ Perms \subseteq SUBSET Kinds
  BY ValidatorAssumption DEF Kinds
<1>1. CacheTypes
  BY DEF ValidatorIInv
<1>2. /\ cache' = <<>> /\ address' = 0 /\ refreshing' = TRUE /\ filled' = FALSE
      /\ fresh' = TRUE /\ held' = [p \in Pages |-> perm[p]]
      /\ UNCHANGED <<perm, cut, remaps, last>>
  BY DEF BeginRefresh, memoryMap
<1>3. cache' \in Seq(Region) /\ Len(cache') = 0 /\ DOMAIN cache' = {}
  BY <1>2
<1>4. held' \in [Pages -> SUBSET (Kinds \cup Unmapped)]
  BY <1>0, <1>1, <1>2 DEF CacheTypes, ValidatorTypes
<1>5. CacheTypes'
  <2>1. ValidatorTypes'
    <3>1. \A x \in 1..Len(cache') : FALSE
      BY <1>3
    <3>2. perm' \in [Pages -> Perms \cup {Unmapped}] /\ cut' \subseteq 2..Top
      BY <1>0, <1>1, <1>2 DEF CacheTypes, ValidatorTypes
    <3>3. {last, address}' \subseteq 0..(Top + 1)
      BY <1>0, <1>1, <1>2 DEF CacheTypes, ValidatorTypes
    <3>4. {use_cache, refreshing, filled, fresh}' \subseteq BOOLEAN
      BY <1>0, <1>1, <1>2 DEF CacheTypes, ValidatorTypes
    <3> QED
      BY <3>1, <3>2, <3>3, <3>4, <1>0, <1>3 DEF ValidatorTypes
  <2> QED
    BY <2>1, <1>1, <1>2, <1>3, <1>4 DEF CacheTypes
<1>6. HeldInv'
  BY <1>2, <1>3 DEF HeldInv
<1>7. FreshInv'
  BY <1>0, <1>2, <1>3
     DEF FreshInv, Truthful, Apart, Ordered, Complete, Standing, Pages
<1> QED
  BY <1>5, <1>6, <1>7 DEF ValidatorIInv

\* Where the cache is emptied for good.
LEMMA EmptyKeeps ==
  ASSUME ValidatorIInv, ~refreshing, cache' = <<>>, last' = 0, filled' = FALSE,
         UNCHANGED <<memoryMap, refreshing, address, fresh, held>>, use_cache' \in BOOLEAN
  PROVE  ValidatorIInv'
<1>0. Top \in Nat
  BY ValidatorAssumption
<1>1. CacheTypes
  BY DEF ValidatorIInv
<1>2. UNCHANGED <<perm, cut, remaps>>
  BY DEF memoryMap
<1>3. cache' \in Seq(Region) /\ Len(cache') = 0 /\ DOMAIN cache' = {}
  OBVIOUS
<1>4. ValidatorTypes'
  <2>1. \A x \in 1..Len(cache') : FALSE
    BY <1>3
  <2>2. perm' \in [Pages -> Perms \cup {Unmapped}] /\ cut' \subseteq 2..Top
    BY <1>0, <1>1, <1>2 DEF CacheTypes, ValidatorTypes
  <2>3. {last, address}' \subseteq 0..(Top + 1)
    BY <1>0, <1>1, <1>2 DEF CacheTypes, ValidatorTypes
  <2>4. {use_cache, refreshing, filled, fresh}' \subseteq BOOLEAN
    BY <1>0, <1>1, <1>2 DEF CacheTypes, ValidatorTypes
  <2> QED
    BY <2>1, <2>2, <2>3, <2>4, <1>0, <1>3 DEF ValidatorTypes
<1>5. CacheTypes'
  BY <1>1, <1>2, <1>3, <1>4 DEF CacheTypes
<1>6. HeldInv' /\ FreshInv'
  BY <1>3 DEF HeldInv, FreshInv, Known
<1> QED
  BY <1>5, <1>6 DEF ValidatorIInv

LEMMA AskKeeps ==
  ASSUME ValidatorIInv, NEW a \in 0..Top, Ask(a)
  PROVE  ValidatorIInv'
<1>1. /\ CacheTypes /\ HeldInv /\ FreshInv /\ cache \in Seq(Region)
      /\ last \in 0..(Top + 1) /\ Len(cache) <= Top /\ Top \in Nat
  BY ValidatorAssumption DEF ValidatorIInv, CacheTypes, ValidatorTypes
<1>2. /\ last' = IF Found(a) < Len(cache) THEN Found(a) ELSE last
      /\ UNCHANGED <<perm, cut, remaps, use_cache, cache, refreshing, address,
                     filled, fresh, held>>
  BY DEF Ask, memoryMap
<1>3. Found(a) \in 0..Len(cache)
  BY <1>1, FoundHolds
<1>4. last' \in 0..(Top + 1)
  BY <1>1, <1>2, <1>3
<1>5. CacheTypes'
  BY <1>1, <1>2, <1>4 DEF CacheTypes, ValidatorTypes
<1>6. HeldInv'
  BY <1>1, <1>2 DEF HeldInv
<1>7. FreshInv'
  BY <1>1, <1>2
     DEF FreshInv, Known, Truthful, Apart, Ordered, Complete, Standing, Boundary
<1> QED
  BY <1>5, <1>6, <1>7 DEF ValidatorIInv

LEMMA ChangeMapKeeps ==
  ASSUME ValidatorIInv, NEW p \in Pages, NEW s \in Perms \cup {Unmapped},
         NEW c \in SUBSET (2..Top), ChangeMap(p, s, c)
  PROVE  ValidatorIInv'
<1>0. CacheTypes /\ HeldInv /\ Perms \subseteq SUBSET Kinds
  BY ValidatorAssumption DEF ValidatorIInv, Kinds
<1>1. /\ remaps' = remaps + 1 /\ perm' = [perm EXCEPT ![p] = s] /\ cut' = c
      /\ fresh' = FALSE /\ held' = [held EXCEPT ![p] = held[p] \cup s]
      /\ UNCHANGED <<use_cache, cache, last, refreshing, address, filled>>
  BY DEF ChangeMap
<1>2. /\ perm \in [Pages -> Perms \cup {Unmapped}]
      /\ held \in [Pages -> SUBSET (Kinds \cup Unmapped)]
  BY <1>0 DEF CacheTypes, ValidatorTypes
<1>3. /\ perm' \in [Pages -> Perms \cup {Unmapped}]
      /\ held' \in [Pages -> SUBSET (Kinds \cup Unmapped)]
      /\ \A q \in Pages : held[q] \subseteq held'[q]
      /\ \A q \in Pages : perm[q] \subseteq held[q] => perm'[q] \subseteq held'[q]
  <2>1. s \in SUBSET (Kinds \cup Unmapped)
    BY <1>0
  <2>2. \A q \in Pages : /\ perm'[q] = IF q = p THEN s ELSE perm[q]
                         /\ held'[q] = IF q = p THEN held[p] \cup s ELSE held[q]
    BY <1>1, <1>2
  <2> QED
    BY <2>1, <2>2, <1>1, <1>2
<1>4. ValidatorTypes'
  BY <1>0, <1>1, <1>3 DEF CacheTypes, ValidatorTypes
<1>5. CacheTypes'
  BY <1>0, <1>1, <1>3, <1>4 DEF CacheTypes
<1>6. HeldInv'
  <2>1. refreshing \/ filled => \A q \in Pages : perm'[q] \subseteq held'[q]
    BY <1>0, <1>3 DEF HeldInv
  <2>2. ASSUME NEW x \in DOMAIN cache, NEW q \in Pages, Covers(cache[x], q)
        PROVE  cache[x].perm \subseteq held'[q]
    <3>1. cache[x].perm \subseteq held[q]
      BY <2>2, <1>0 DEF HeldInv
    <3> QED
      BY <3>1, <1>3
  <2> QED
    BY <2>1, <2>2, <1>1 DEF HeldInv
<1>7. FreshInv'
  BY <1>1 DEF FreshInv, Known
<1> QED
  BY <1>5, <1>6, <1>7 DEF ValidatorIInv

LEMMA ValidatorInitInv == ValidatorInit => ValidatorIInv
<1> SUFFICES ASSUME ValidatorInit PROVE ValidatorIInv
  OBVIOUS
<1>0. Top \in Nat
  BY ValidatorAssumption
<1>1. cache = <<>> /\ cache \in Seq(Region) /\ Len(cache) = 0 /\ DOMAIN cache = {}
  BY DEF ValidatorInit
<1>2. held \in [Pages -> SUBSET (Kinds \cup Unmapped)]
  BY DEF ValidatorInit
<1>3. CacheTypes
  <2>1. \A x \in 1..Len(cache) : FALSE
    BY <1>1
  <2>2. perm \in [Pages -> Perms \cup {Unmapped}] /\ cut \subseteq 2..Top
    BY <1>0 DEF ValidatorInit
  <2>3. {last, address} \subseteq 0..(Top + 1)
    BY <1>0 DEF ValidatorInit
  <2>4. {use_cache, refreshing, filled, fresh} \subseteq BOOLEAN
    BY <1>0 DEF ValidatorInit
  <2> QED
    BY <2>1, <2>2, <2>3, <2>4, <1>0, <1>1, <1>2 DEF CacheTypes, ValidatorTypes, ValidatorInit
<1>4. HeldInv /\ FreshInv
  BY <1>1 DEF ValidatorInit, HeldInv, FreshInv, Known
<1> QED
  BY <1>3, <1>4 DEF ValidatorIInv

LEMMA ValidatorStepInv ==
  ASSUME ValidatorIInv, [ValidatorNext]_validatorVars
  PROVE  ValidatorIInv'
<1>t. use_cache \in BOOLEAN
  BY DEF ValidatorIInv, CacheTypes, ValidatorTypes
<1>1. CASE WalkRegion
  BY <1>1, WalkRegionKeeps
<1>2. CASE WalkEnd
  BY <1>2, WalkEndKeeps
<1>3. CASE refreshRegionCache
  BY <1>3, <1>t, BeginKeeps DEF refreshRegionCache
<1>4. CASE clearCache
  BY <1>4, <1>t, EmptyKeeps DEF clearCache
<1>5. ASSUME NEW b \in BOOLEAN, setUseCache(b) PROVE ValidatorIInv'
  <2>1. CASE b
    BY <2>1, <1>5, BeginKeeps DEF setUseCache
  <2>2. CASE ~b
    BY <2>2, <1>5, EmptyKeeps DEF setUseCache
  <2> QED
    BY <2>1, <2>2
<1>6. ASSUME NEW a \in 0..Top, Ask(a) PROVE ValidatorIInv'
  BY <1>6, AskKeeps
<1>7. ASSUME NEW p \in Pages, NEW s \in Perms \cup {Unmapped}, NEW c \in SUBSET (2..Top),
             ChangeMap(p, s, c)
      PROVE  ValidatorIInv'
  BY <1>7, ChangeMapKeeps
<1>8. CASE UNCHANGED validatorVars
  <2>1. UNCHANGED <<perm, cut, remaps, use_cache, cache, last, refreshing, address,
                    filled, fresh, held>>
    BY <1>8 DEF validatorVars, memoryMap
  <2>2. CacheTypes' /\ HeldInv'
    BY <2>1 DEF ValidatorIInv, CacheTypes, ValidatorTypes, HeldInv
  <2>3. FreshInv'
    BY <2>1 DEF ValidatorIInv, FreshInv, Known, Truthful, Apart, Ordered, Complete,
                Standing, Boundary
  <2> QED
    BY <2>2, <2>3 DEF ValidatorIInv
<1> QED
  BY <1>1, <1>2, <1>3, <1>4, <1>5, <1>6, <1>7, <1>8 DEF ValidatorNext

\* The invariant holds throughout.
LEMMA ValidatorInvariance == ValidatorSpec => []ValidatorIInv
<1> QED
  BY ValidatorInitInv, ValidatorStepInv, PTL DEF ValidatorSpec

(* What the cache answers                                                  *)

\* What a question is about.
LEMMA QuestionTypes ==
  ASSUME ValidatorIInv, NEW q \in Questions
  PROVE  /\ Top \in Nat /\ Pages = 1..Top /\ Words \in Nat /\ Words > Top + 1
         /\ q[1] \in Pages /\ q[1] \in Nat /\ q[1] # 0 /\ q[2] \in Nat
         /\ q[3] \in Kinds
         /\ cache \in Seq(Region) /\ last \in Nat
         /\ \A x \in DOMAIN cache : /\ cache[x].start \in Nat /\ cache[x].end \in Nat
                                    /\ cache[x].end <= Top + 1 /\ cache[x].start < cache[x].end
<1>1. Top \in Nat /\ Pages = 1..Top /\ Words \in Nat /\ Words > Top + 1
  BY ValidatorAssumption DEF Pages
<1>2. q[1] \in Pages /\ q[2] \in 0..(Words - 1) /\ q[3] \in Kinds
  BY DEF Questions
<1>3. cache \in Seq(Region) /\ \A x \in DOMAIN cache : cache[x].start < cache[x].end
  BY DEF ValidatorIInv, CacheTypes, ValidatorTypes
<1>4. last \in Nat
  BY <1>1 DEF ValidatorIInv, CacheTypes, ValidatorTypes
<1>5. \A x \in DOMAIN cache : /\ cache[x].start \in Nat /\ cache[x].end \in Nat
                              /\ cache[x].end <= Top + 1
  BY <1>3, ElementOfRegions
<1> QED
  BY <1>1, <1>2, <1>3, <1>4, <1>5

\* Below the width of a word the end of a range is its sum.
LEMMA EndOfRange ==
  ASSUME NEW a \in Nat, NEW n \in Nat, Words \in Nat, a + n < Words
  PROVE  RangeEnd(a, n) = a + n
<1> QED
  BY DEF RangeEnd

LEMMA YesWasTrue == ValidatorIInv => NoInventedPermission
<1> SUFFICES ASSUME ValidatorIInv, NEW q \in Questions, CachedAnswer(q[1], q[2], q[3])
             PROVE  /\ q[3] \in held[q[1]]
                    /\ ~Wraps(q) => \A p \in PagesOf(q) : p \in Pages /\ q[3] \in held[p]
  BY DEF NoInventedPermission
<1> DEFINE k == Found(q[1]) + 1
<1>0. /\ Top \in Nat /\ Pages = 1..Top /\ Words \in Nat
      /\ q[1] \in Pages /\ q[1] \in Nat /\ q[2] \in Nat
  BY QuestionTypes
<1>1. k \in DOMAIN cache /\ Holds(cache[k], q[1])
      /\ q[3] \in cache[k].perm /\ RangeEnd(q[1], q[2]) <= cache[k].end
  BY QuestionTypes, FoundHolds DEF CachedAnswer
<1> HIDE DEF k
<1>2. cache[k].start \in Nat /\ cache[k].end \in Nat /\ cache[k].end <= Top + 1
  BY <1>1, QuestionTypes
<1>3. \A p \in Pages : Covers(cache[k], p) => q[3] \in held[p]
  BY <1>1 DEF ValidatorIInv, HeldInv
<1>4. q[3] \in held[q[1]]
  BY <1>0, <1>1, <1>3 DEF Holds, Covers
<1>5. ASSUME ~Wraps(q), NEW p \in PagesOf(q) PROVE p \in Pages /\ q[3] \in held[p]
  <2>1. q[1] + q[2] < Words /\ p \in Int /\ p >= q[1] /\ p < q[1] + q[2]
    BY <1>0, <1>5 DEF Wraps, PagesOf
  <2>2. q[1] + q[2] <= cache[k].end
    BY <1>0, <1>1, <2>1, EndOfRange
  <2>3. p \in Pages /\ Covers(cache[k], p)
    BY <1>0, <1>1, <1>2, <2>1, <2>2 DEF Holds, Covers
  <2> QED
    BY <1>3, <2>3
<1> QED
  BY <1>4, <1>5

\* In a cache that is true, in order and complete, the region found for a page
\* reaches as far as the pages go on with its permissions.
LEMMA FreshReach ==
  ASSUME ValidatorIInv, ~refreshing, filled, fresh, NEW q \in Questions,
         NEW e \in 1..(Top + 1), q[1] < e,
         \A p \in Pages : p >= q[1] /\ p < e => perm[p] = perm[q[1]],
         perm[q[1]] # Unmapped
  PROVE  LET k == Found(q[1]) + 1 IN
         /\ Found(q[1]) < Len(cache)
         /\ k \in DOMAIN cache /\ cache[k].perm = perm[q[1]] /\ e <= cache[k].end
<1> DEFINE a == q[1]
           k == Found(a) + 1
<1>0. /\ Top \in Nat /\ Pages = 1..Top /\ a \in Pages /\ a \in Nat /\ e \in Nat
      /\ cache \in Seq(Region) /\ last \in Nat
      /\ \A x \in DOMAIN cache : /\ cache[x].start \in Nat /\ cache[x].end \in Nat
                                 /\ cache[x].end <= Top + 1 /\ cache[x].start < cache[x].end
  BY QuestionTypes
<1>1. Truthful /\ Apart(cache) /\ Ordered(cache) /\ Complete
  BY DEF ValidatorIInv, FreshInv, Known
<1>2. a < e /\ perm[a] # Unmapped
      /\ \A p \in Pages : p >= a /\ p < e => perm[p] = perm[a]
  OBVIOUS
<1> HIDE DEF a
<1>3. PICK x \in DOMAIN cache : Covers(cache[x], a)
  BY <1>0, <1>1, <1>2 DEF Complete
<1>4. Found(a) < Len(cache)
  BY <1>3, <1>0, <1>1, FoundWhereHeld DEF Covers, Holds
<1>5. k \in DOMAIN cache /\ Covers(cache[k], a)
  BY <1>4, <1>0, FoundHolds DEF Covers, Holds
<1> HIDE DEF k
<1>6. cache[k].perm = perm[a]
  BY <1>5, <1>0, <1>1 DEF Truthful
<1>7. e <= cache[k].end
  <2> SUFFICES ASSUME cache[k].end < e PROVE FALSE
    BY <1>0, <1>5
  <2> DEFINE p == cache[k].end
  <2>1. p \in Pages /\ p > a /\ perm[p] = perm[a] /\ perm[p] # Unmapped
    BY <1>0, <1>2, <1>5 DEF Covers
  <2>2. PICK j \in DOMAIN cache : Covers(cache[j], p)
    BY <2>1, <1>1 DEF Complete
  <2>3. cache[j].perm = perm[a]
    BY <2>1, <2>2, <1>1 DEF Truthful
  <2>4. /\ cache[j].start <= p /\ p < cache[j].end
        /\ cache[k].start <= a /\ a < p
    BY <2>1, <2>2, <1>5 DEF Covers
  <2>5. j # k /\ ~(cache[j].end <= cache[k].start)
    BY <2>4, <1>0, <1>5
  <2>6. cache[k].end <= cache[j].start
    BY <2>5, <1>5, <1>0, <1>1 DEF Ordered
  <2>7. cache[k].end = cache[j].start
    BY <2>4, <2>6, <1>0, <1>5
  <2> QED
    BY <2>3, <2>7, <1>5, <1>6, <1>1 DEF Apart
<1> QED
  BY <1>4, <1>5, <1>6, <1>7 DEF a, k

LEMMA FreshAnswers == ValidatorIInv => FreshCacheComplete
<1> SUFFICES ASSUME ValidatorIInv, ~refreshing, filled, fresh, NEW q \in Questions
             PROVE  /\ KernelAnswer(q[1], q[2], q[3]) => CachedAnswer(q[1], q[2], q[3])
                    /\ /\ q[3] \in perm[q[1]]
                       /\ \A p \in PagesOf(q) : p \in Pages /\ perm[p] = perm[q[1]]
                       => CachedAnswer(q[1], q[2], q[3])
  BY DEF FreshCacheComplete, Usable
<1>0. /\ Top \in Nat /\ Pages = 1..Top /\ Words \in Nat /\ Words > Top + 1
      /\ q[1] \in Pages /\ q[1] \in Nat /\ q[1] # 0 /\ q[2] \in Nat /\ q[3] \in Kinds
      /\ \A x \in DOMAIN cache : cache[x].end \in Nat
  BY QuestionTypes
<1>1. q[3] # "unmapped"
  BY <1>0 DEF Kinds
<1>2. ASSUME KernelAnswer(q[1], q[2], q[3]) PROVE CachedAnswer(q[1], q[2], q[3])
  <2> DEFINE r == RegionAt(q[1])
  <2>1. MapTypes /\ q[1] \in 0..(Top + 1)
    BY <1>0 DEF ValidatorIInv, CacheTypes, ValidatorTypes, MapTypes
  <2>2. /\ MappedFrom(q[1]) # {} /\ Holds(r, q[1]) /\ q[3] \in r.perm
        /\ RangeEnd(q[1], q[2]) <= r.end
    BY <1>2 DEF KernelAnswer
  <2>3. r \in Region /\ \A p \in Pages : Covers(r, p) => perm[p] = r.perm
    BY <2>1, <2>2, RegionShape
  <2> HIDE DEF r
  <2>4. r.start \in Nat /\ r.end \in 1..(Top + 1) /\ q[1] < r.end /\ r.start <= q[1]
    BY <2>2, <2>3, <1>0 DEF Region, Holds
  <2>5. perm[q[1]] = r.perm /\ perm[q[1]] # Unmapped
    BY <2>2, <2>3, <2>4, <1>0, <1>1 DEF Covers, Unmapped
  <2>6. \A p \in Pages : p >= q[1] /\ p < r.end => perm[p] = perm[q[1]]
    BY <2>3, <2>4, <2>5, <1>0 DEF Covers
  <2>7. LET k == Found(q[1]) + 1 IN
        /\ Found(q[1]) < Len(cache)
        /\ k \in DOMAIN cache /\ cache[k].perm = perm[q[1]] /\ r.end <= cache[k].end
    BY <2>4, <2>5, <2>6, FreshReach
  <2>8. RangeEnd(q[1], q[2]) \in Nat
    BY <1>0 DEF RangeEnd
  <2> QED
    BY <2>2, <2>4, <2>5, <2>7, <2>8, <1>0 DEF CachedAnswer
<1>3. ASSUME q[3] \in perm[q[1]], \A p \in PagesOf(q) : p \in Pages /\ perm[p] = perm[q[1]]
      PROVE  CachedAnswer(q[1], q[2], q[3])
  <2> DEFINE e == IF q[2] = 0 THEN q[1] + 1 ELSE q[1] + q[2]
  <2>1. q[1] + q[2] <= Top + 1
    <3>1. CASE q[2] = 0
      BY <3>1, <1>0
    <3>2. CASE q[2] # 0
      <4>1. q[1] + q[2] - 1 \in PagesOf(q)
        BY <3>2, <1>0 DEF PagesOf
      <4> QED
        BY <4>1, <1>0, <1>3
    <3> QED
      BY <3>1, <3>2
  <2>2. e \in 1..(Top + 1) /\ q[1] < e /\ q[1] + q[2] <= e
    BY <2>1, <1>0
  <2>3. perm[q[1]] # Unmapped
    BY <1>1, <1>3 DEF Unmapped
  <2>4. \A p \in Pages : p >= q[1] /\ p < e => p = q[1] \/ p \in PagesOf(q)
    BY <1>0 DEF PagesOf
  <2>5. \A p \in Pages : p >= q[1] /\ p < e => perm[p] = perm[q[1]]
    BY <2>4, <1>3
  <2> HIDE DEF e
  <2>6. LET k == Found(q[1]) + 1 IN
        /\ Found(q[1]) < Len(cache)
        /\ k \in DOMAIN cache /\ cache[k].perm = perm[q[1]] /\ e <= cache[k].end
    BY <2>2, <2>3, <2>5, FreshReach
  <2>7. RangeEnd(q[1], q[2]) = q[1] + q[2]
    BY <2>1, <1>0, EndOfRange
  <2> QED
    BY <2>2, <2>6, <2>7, <1>0, <1>3 DEF CachedAnswer
<1> QED
  BY <1>2, <1>3

\* Every state of the validator has the types, whatever other threads do to
\* the memory map in the middle of a filling; the cache never has more regions
\* than there are pages.
THEOREM ValidatorTypeCorrect == ValidatorSpec => []ValidatorTypes
<1>1. ValidatorIInv => ValidatorTypes
  BY DEF ValidatorIInv, CacheTypes
<1> QED
  BY <1>1, ValidatorInvariance, PTL

\* For any number of pages, of changes of their map, and any width of a word: a
\* yes is about permissions that every page of the range has had since the cache
\* was filled; about the first page alone where the length makes ptr + len wrap.
THEOREM NothingInvented == ValidatorSpec => []NoInventedPermission
<1> QED
  BY YesWasTrue, ValidatorInvariance, PTL

\* A filled cache of a map that has not changed says yes where the kernel would.
THEOREM FreshIsComplete == ValidatorSpec => []FreshCacheComplete
<1> QED
  BY FreshAnswers, ValidatorInvariance, PTL
-----------------------------------------------------------------------------
(* Side by side                                                            *)

\* Side by side each lookup behaves as it does alone: what is proved of them
\* holds in the specification that TLC runs.
THEOREM KindsBehave == Lookups => Spec /\ SymbolsSpec /\ ValidatorSpec
<1>1. LookupInit => Init /\ SymbolsInit /\ ValidatorInit
  BY DEF LookupInit
<1>2. [LookupNext]_<<part, vars, symbolsVars, validatorVars>>
        => [Next]_vars /\ [SymbolsNext]_symbolsVars /\ [ValidatorNext]_validatorVars
  BY DEF LookupNext
<1> QED
  BY <1>1, <1>2, PTL DEF Lookups, Spec, SymbolsSpec, ValidatorSpec

\* Every state of all three has the types.
THEOREM LookupTypes == Lookups => []Types
<1>1. ImageIInv => TypeOK
  BY DEF ImageIInv, ImageTypeInv
<1>2. SymbolsIInv => SymbolTypes
  BY AnswersFound
<1>3. ValidatorIInv => ValidatorTypes
  BY DEF ValidatorIInv, CacheTypes
<1>4. TypeOK /\ SymbolTypes /\ ValidatorTypes => Types
  BY DEF Types
<1> QED
  BY <1>1, <1>2, <1>3, <1>4, KindsBehave, ImageInvariance, SymbolsInvariance,
     ValidatorInvariance, PTL
=============================================================================
