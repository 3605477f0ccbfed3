------------------------------ MODULE Symbols ------------------------------
(***************************************************************************)
(* Finding a symbol in an image that is loaded: findSymbol of              *)
(* KittyMemory.cpp walks the symbol table of a Mach-O image; that of       *)
(* KittyScanner.cpp asks the GNU hash table of an ELF image, and then the  *)
(* System V one (the two LookupByName of KittyUtils.cpp).                  *)
(*                                                                         *)
(* The hash tables are external: they are as a linker writes them for the  *)
(* symbols, with hashes chosen so that names collide in every way.         *)
(***************************************************************************)
EXTENDS Integers, FiniteSets

CONSTANTS
  Names,      \* names of symbols
  MaxSymbols, \* bound: symbols of an image
  Hashes,     \* bound: hash values
  Buckets,    \* buckets of either table
  ClassBits, BloomSize, BloomShift

NoName == "empty"

ASSUME SymbolsAssumption ==
  /\ NoName \notin Names
  /\ MaxSymbols \in Nat
  /\ Hashes \subseteq Nat
  /\ Buckets \in Nat \ {0}

VARIABLES
  format,   \* "macho" or "elf"
  symbols,  \* [1..n -> [name, defined]]; number 0 of an ELF table is empty
  hash,     \* the hash of each name
  tables,   \* what the image has of "gnu" and "sysv", or of "linkedit" and "symtab"
  slide,    \* the slide, or load bias
  asked,    \* the name last asked for, or "none"
  answer    \* an address, or 0

library == <<format, symbols, hash, tables, slide>>
symbolsVars == <<library, asked, answer>>

Count == Cardinality(DOMAIN symbols)
NameOf(k) == IF k = 0 THEN NoName ELSE symbols[k].name

\* Each symbol has a value of its own; one that is imported has none.
Value(k) == IF k > 0 /\ symbols[k].defined THEN k ELSE 0

-----------------------------------------------------------------------------
(* The tables of a linker                                                  *)

Bucket(k) == hash[symbols[k].name] % Buckets

\* Symbols without a value come first in a GNU table and have no hash; the
\* others are sorted by bucket.
Offset == 1 + Cardinality({k \in DOMAIN symbols : Value(k) = 0})
GnuOrdered ==
  \A j, k \in DOMAIN symbols :
    j < k => Value(j) = 0 \/ (Value(k) # 0 /\ Bucket(j) <= Bucket(k))

Hashed(b) == {k \in DOMAIN symbols : k >= Offset /\ Bucket(k) = b}
GnuBucket(b) ==
  IF Hashed(b) = {} THEN 0 ELSE CHOOSE k \in Hashed(b) : \A j \in Hashed(b) : k <= j

\* The hash of a symbol, its lowest bit replaced by "the last of its bucket".
GnuChain(k) ==
  LET even == 2 * (hash[symbols[k].name] \div 2)
  IN IF k + 1 \in Hashed(Bucket(k)) THEN even ELSE even + 1

\* The word and the two bits of the filter for a hash.
BloomWord(h) == (h \div ClassBits) % BloomSize
BloomBits(h) == {h % ClassBits, (h \div 2^BloomShift) % ClassBits}
Bloom(word) ==
  UNION {BloomBits(hash[symbols[k].name]) :
           k \in {j \in DOMAIN symbols : j >= Offset /\ BloomWord(hash[symbols[j].name]) = word}}

\* A System V table holds every symbol, the last of a bucket first.
Below(b, k) == {j \in DOMAIN symbols : Bucket(j) = b /\ j < k}
SysvFirst(b, k) ==
  IF Below(b, k) = {} THEN 0 ELSE CHOOSE j \in Below(b, k) : \A l \in Below(b, k) : l <= j

-----------------------------------------------------------------------------
(* The lookups, with the number of the symbol found or 0                   *)

Matches(k, name) == NameOf(k) # NoName /\ NameOf(k) = name

\* mutated: the end of the chain is tested before the name
EndFirst(k, name, further) ==
  IF GnuChain(k) % 2 = 1 THEN 0 ELSE IF Matches(k, name) THEN k ELSE further
\* The symbol at k, or what there is further on, unless the chain ends here.
NameFirst(k, name, further) ==
  IF GnuChain(k) \div 2 = hash[name] \div 2 /\ Matches(k, name) THEN k
  ELSE IF GnuChain(k) % 2 = 1 THEN 0 ELSE further

GnuLookup(name) ==
  LET h == hash[name]
      found[k \in 1..(MaxSymbols + 1)] ==
        IF k > Count THEN 0 ELSE NameFirst(k, name, found[k + 1])
  IN IF ~(BloomBits(h) \subseteq Bloom(BloomWord(h))) \/ GnuBucket(h % Buckets) < Offset
     THEN 0
     ELSE found[GnuBucket(h % Buckets)]

SysvLookup(name) ==
  LET b == hash[name] % Buckets
      found[k \in 0..MaxSymbols] ==
        IF k = 0 THEN 0 ELSE IF Matches(k, name) THEN k ELSE found[SysvFirst(b, k)]
  IN found[SysvFirst(b, Count + 1)]

\* The walk of a Mach-O table passes over what has no value.
MachLookup(name) ==
  LET hits == {k \in DOMAIN symbols : Value(k) # 0 /\ Matches(k, name)}
  IN IF hits = {} THEN 0 ELSE CHOOSE k \in hits : \A j \in hits : k <= j

\* An address that is not below the bias is taken for one that is relocated.
Address(k) == IF format = "elf" /\ Value(k) >= slide THEN Value(k) ELSE slide + Value(k)

\* A symbol without a value is not found.
Lookup(name) ==
  CASE format = "macho" -> IF tables = {"linkedit", "symtab"} THEN MachLookup(name) ELSE 0
    [] "gnu" \in tables /\ Value(GnuLookup(name)) # 0 -> GnuLookup(name)
    [] format = "elf" /\ "sysv" \in tables
         /\ ~("gnu" \in tables /\ Value(GnuLookup(name)) # 0) -> SysvLookup(name)
    [] OTHER -> 0

-----------------------------------------------------------------------------
SymbolsInit ==
  /\ symbols \in UNION {[1..n -> [name : Names, defined : BOOLEAN]] : n \in 0..MaxSymbols}
  /\ hash \in [Names -> Hashes]
  /\ \/ format = "macho" /\ tables \in SUBSET {"linkedit", "symtab"}
     \/ /\ format = "elf"
        /\ tables \in SUBSET {"gnu", "sysv"}
        /\ "gnu" \in tables => GnuOrdered
  /\ slide \in {0, 1, MaxSymbols + 1}
  /\ asked = "none"
  /\ answer = 0

findSymbol(name) ==
  /\ asked = "none"
  /\ asked' = name
  /\ answer' = IF slide = 0 \/ name = NoName \/ Value(Lookup(name)) = 0 THEN 0
               ELSE Address(Lookup(name))
  /\ UNCHANGED library

SymbolsNext == \E name \in Names \cup {NoName} : findSymbol(name)

SymbolsSpec == SymbolsInit /\ [][SymbolsNext]_symbolsVars

-----------------------------------------------------------------------------
(* Properties                                                              *)

SymbolTypes ==
  /\ asked \in Names \cup {NoName, "none"}
  /\ answer \in 0..(slide + MaxSymbols)
  /\ "gnu" \in tables => \A b \in 0..(Buckets - 1) : GnuBucket(b) \in {0} \cup Offset..Count

\* The symbols that should be found.
Sought == {k \in DOMAIN symbols : Value(k) # 0 /\ NameOf(k) = asked}

\* What is answered is the address of a symbol of the name that was asked for;
\* nothing is answered only where the image defines none, however names collide
\* in buckets, hashes and the filter.  Not where the slide is 0, which all three
\* take for "not loaded", nor where an image is larger than its load bias; and
\* a System V table alone may hide a definition behind an import of that name.
SymbolFound ==
  asked # "none" =>
    /\ answer # 0 /\ (format = "elf" => slide > MaxSymbols) =>
         \E k \in Sought : answer = slide + Value(k)
    /\ answer = 0 /\ slide # 0 =>
         \/ Sought = {}
         \/ format = "macho" /\ tables # {"linkedit", "symtab"}
         \/ format = "elf" /\ tables = {}
         \/ /\ format = "elf" /\ "gnu" \notin tables
            /\ \E k \in DOMAIN symbols : NameOf(k) = asked /\ Value(k) = 0
=============================================================================
