---------------------------- MODULE PtrValidator ----------------------------
(***************************************************************************)
(* KittyPtrValidator of the Apple build: may these bytes be read, written  *)
(* or executed?  The answer comes from the kernel, or from a cache of the  *)
(* whole address space: regions sorted by address, neighbours with equal   *)
(* permissions merged, searched by bisection after a look at the region    *)
(* that answered last.                                                     *)
(*                                                                         *)
(* The cache is filled by one kernel call per region, and other threads    *)
(* map, unmap and protect memory between these calls and ever after.       *)
(* Addresses and lengths count pages and wrap at the word's width.         *)
(***************************************************************************)
EXTENDS Integers, FiniteSetsExt, SequencesExt

CONSTANTS
  Top,        \* pages are 1..Top; page 0 is never mapped
  Words,      \* how many addresses a word can hold
  Perms,      \* permissions a page may have, sets of "r", "w", "x"
  MaxRemaps   \* bound: changes of the memory map in a behaviour

ASSUME ValidatorAssumption ==
  /\ Top \in Nat \ {0}
  /\ Words \in Nat /\ Words > Top + 1
  /\ Perms \subseteq SUBSET {"r", "w", "x"}
  /\ MaxRemaps \in Nat

VARIABLES
  perm,       \* permissions of each page, or Unmapped
  cut,        \* pages a new region of the kernel starts at
  use_cache,  \* use_cache_
  cache,      \* cachedRegions_
  last,       \* last_region_index_
  refreshing, \* in the middle of refreshRegionCache
  address,    \* the loop variable of refreshRegionCache
  remaps,     \* changes of the map
  filled,     \* history: the cache has been filled and not cleared
  fresh,      \* history: no change since the filling began
  held        \* history: permissions each page has had since then

memoryMap == <<perm, cut, remaps>>
validatorVars == <<memoryMap, use_cache, cache, last, refreshing, address, filled, fresh, held>>

Pages == 1..Top
Unmapped == {"unmapped"}
Kinds == {"r", "w", "x"}

ValidatorInit ==
  /\ perm \in [Pages -> Perms \cup {Unmapped}]
  /\ cut \in SUBSET (2..Top)
  /\ use_cache = FALSE
  /\ cache = <<>>
  /\ last = 0
  /\ refreshing = FALSE
  /\ address = 0
  /\ remaps = 0
  /\ filled = FALSE
  /\ fresh = FALSE
  /\ held = [p \in Pages |-> {}]

-----------------------------------------------------------------------------
(* The kernel: vm_region_recurse_64                                        *)

\* p and q lie in one region of the kernel.
Together(p, q) ==
  /\ p <= q
  /\ \A i \in p..q : perm[i] = perm[p] /\ (i = p \/ i \notin cut)

MappedFrom(a) == {p \in Pages : p >= a /\ perm[p] # Unmapped}

\* The region at a, or the next one above it; it may begin below a.
RegionAt(a) ==
  LET p == Min(MappedFrom(a)) IN
  [start |-> Min({q \in Pages : Together(q, p)}),
   end   |-> Max({q \in Pages : Together(p, q)}) + 1,
   perm  |-> perm[p]]

-----------------------------------------------------------------------------
(* refreshRegionCache                                                      *)

\* The cache is emptied, and the walk starts at address 0.
BeginRefresh ==
  /\ cache' = <<>>
  /\ address' = 0
  /\ refreshing' = TRUE
  /\ filled' = FALSE
  /\ fresh' = TRUE
  /\ held' = [p \in Pages |-> perm[p]]

Adjoining(r, s) == r.end = s.start  \* mutated: permissions are not compared
canMergeWith(r, s) == r.end = s.start /\ r.perm = s.perm

Merged(regions, r) ==
  LET n == Len(regions) IN
  IF n > 0 /\ canMergeWith(regions[n], r)
  THEN [regions EXCEPT ![n].end = r.end]
  ELSE Append(regions, r)

NextAddress(r) == r.start + (r.end - r.start)

WalkRegion ==
  /\ refreshing
  /\ MappedFrom(address) # {}
  /\ LET r == RegionAt(address) IN
       /\ cache' = Merged(cache, r)
       /\ address' = NextAddress(r)
  /\ UNCHANGED <<memoryMap, use_cache, last, refreshing, filled, fresh, held>>

Sorted(s) == \A i, j \in DOMAIN s : i < j => s[i].start <= s[j].start
Arrangements(s) ==
  {[i \in DOMAIN s |-> s[f[i]]] : f \in Bijection(DOMAIN s, DOMAIN s)}

\* No region is left: the vector is sorted by start, those with equal starts
\* in any order (std::sort).
WalkEnd ==
  /\ refreshing
  /\ MappedFrom(address) = {}
  /\ cache' \in {s \in Arrangements(cache) : Sorted(s)}
  /\ last' = 0
  /\ refreshing' = FALSE
  /\ filled' = TRUE
  /\ UNCHANGED <<memoryMap, use_cache, address, fresh, held>>

refreshRegionCache ==
  /\ ~refreshing
  /\ BeginRefresh
  /\ UNCHANGED <<memoryMap, use_cache, last>>

setUseCache(b) ==
  /\ ~refreshing
  /\ use_cache' = b
  /\ IF b
     THEN BeginRefresh /\ UNCHANGED last
     ELSE /\ cache' = <<>>
          /\ last' = 0
          /\ filled' = FALSE
          /\ UNCHANGED <<refreshing, address, fresh, held>>
  /\ UNCHANGED memoryMap

\* The cache is emptied, and use_cache stays as it is.
clearCache ==
  /\ ~refreshing
  /\ cache' = <<>>
  /\ last' = 0
  /\ filled' = FALSE
  /\ UNCHANGED <<memoryMap, use_cache, refreshing, address, fresh, held>>

-----------------------------------------------------------------------------
(* _findRegion and the questions                                           *)

Holds(r, a) == r.start <= a /\ a < r.end

EndsAfter(r, a) == r.end < a          \* mutated: off by one
EndsBefore(r, a) == r.end <= a

\* The bisection, over indices from 0: the first region that ends above a.
Half(search, left, right, a) ==
  IF left >= right THEN right
  ELSE LET mid == left + (right - left) \div 2 IN
       IF EndsBefore(cache[mid + 1], a) THEN search[<<mid + 1, right>>]
       ELSE search[<<left, mid>>]

Bisect(a) ==
  LET search[span \in (0..Len(cache)) \X (0..Len(cache))] ==
        Half(search, span[1], span[2], a)
  IN  search[<<0, Len(cache)>>]

\* Index of the region that answers for a, or Len(cache) when none does.
Found(a) ==
  IF last < Len(cache) /\ Holds(cache[last + 1], a)
  THEN last
  ELSE LET best == Bisect(a) IN
       IF best < Len(cache) /\ Holds(cache[best + 1], a) THEN best ELSE Len(cache)

\* The end of a range of n from a: ptr + len in a word.
RangeEnd(a, n) == (a + n) % Words

\* isPtrReadable and the like, k for the permission asked about.
CachedAnswer(a, n, k) ==
  /\ a # 0
  /\ Found(a) < Len(cache)
  /\ LET r == cache[Found(a) + 1] IN k \in r.perm /\ RangeEnd(a, n) <= r.end

KernelAnswer(a, n, k) ==
  /\ a # 0
  /\ MappedFrom(a) # {}
  /\ LET r == RegionAt(a) IN Holds(r, a) /\ k \in r.perm /\ RangeEnd(a, n) <= r.end

\* A question changes nothing but the region looked at first next time.
Ask(a) ==
  /\ ~refreshing
  /\ use_cache
  /\ a # 0
  /\ last' = IF Found(a) < Len(cache) THEN Found(a) ELSE last
  /\ UNCHANGED <<memoryMap, use_cache, cache, refreshing, address, filled, fresh, held>>

-----------------------------------------------------------------------------
\* Another thread maps, unmaps or protects a page; regions may split or join.
ChangeMap(p, s, c) ==
  /\ remaps < MaxRemaps
  /\ remaps' = remaps + 1
  /\ perm' = [perm EXCEPT ![p] = s]
  /\ cut' = c
  /\ fresh' = FALSE
  /\ held' = [held EXCEPT ![p] = held[p] \cup s]
  /\ UNCHANGED <<use_cache, cache, last, refreshing, address, filled>>

ValidatorNext ==
  \/ WalkRegion \/ WalkEnd \/ refreshRegionCache \/ clearCache
  \/ \E b \in BOOLEAN : setUseCache(b)
  \/ \E a \in 0..Top : Ask(a)
  \/ \E p \in Pages, s \in Perms \cup {Unmapped}, c \in SUBSET (2..Top) : ChangeMap(p, s, c)

ValidatorSpec == ValidatorInit /\ [][ValidatorNext]_validatorVars

-----------------------------------------------------------------------------
(* Properties                                                              *)

Region == [start : Pages, end : 2..(Top + 1), perm : SUBSET Kinds]

\* Types; the cache has no more regions than there are pages.
ValidatorTypes ==
  /\ perm \in [Pages -> Perms \cup {Unmapped}]
  /\ cut \subseteq 2..Top
  /\ Len(cache) <= Top
  /\ \A i \in 1..Len(cache) : cache[i] \in Region /\ cache[i].start < cache[i].end
  /\ {last, address} \subseteq 0..(Top + 1)
  /\ {use_cache, refreshing, filled, fresh} \subseteq BOOLEAN

\* Of a page, a length and a permission: any length a caller can pass.
Questions == Pages \X (0..(Words - 1)) \X Kinds
Usable == use_cache /\ ~refreshing

PagesOf(q) == q[1]..(q[1] + q[2] - 1)
Wraps(q) == q[1] + q[2] >= Words

\* A yes from the cache is never made up for a range that ends: every page of
\* it has had the permission at some time since the cache was filled, even when
\* the map changed in the middle of the filling and regions overlap or were
\* merged with neighbours read at another time.  Where ptr + len wraps, the sum
\* lies below the end of the region and the code says yes to a range that goes
\* on to the end of all addresses; of the first page alone it is true then.
NoInventedPermission ==
  Usable => \A q \in Questions :
    CachedAnswer(q[1], q[2], q[3]) =>
      /\ q[3] \in held[q[1]]
      /\ ~Wraps(q) => \A p \in PagesOf(q) : p \in Pages /\ q[3] \in held[p]

\* While the map has not changed since, the filled cache says yes whenever
\* the kernel would, to lengths that wrap as well, and also for a range that
\* lies in several regions of the kernel with the same permissions; whatever
\* was asked before.
FreshCacheComplete ==
  (Usable /\ filled /\ fresh) => \A q \in Questions :
    /\ KernelAnswer(q[1], q[2], q[3]) => CachedAnswer(q[1], q[2], q[3])
    /\ /\ q[3] \in perm[q[1]]
       /\ \A p \in PagesOf(q) : p \in Pages /\ perm[p] = perm[q[1]]
       => CachedAnswer(q[1], q[2], q[3])

=============================================================================
