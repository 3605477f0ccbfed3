\* Three images: one before and one behind the image looked for.  Three symbols
\* of two names, with hashes that agree in their bucket, in all but the lowest
\* bit, or altogether, and a filter of two words of two bits.  Three pages, for
\* a gap between two regions or three neighbours, in words that hold two more
\* addresses than those of the pages and their end, so that lengths wrap.
CONSTANTS
  Images = {main, lib, other}
  Main = main
  MaxChanges = 3
  Names = {a, b}
  MaxSymbols = 3
  Hashes = {0, 1, 2, 3, 4}
  Buckets = 2
  ClassBits = 2
  BloomSize = 2
  BloomShift = 1
  Top = 3
  Words = 6
  Perms <- ThreePerms
  MaxRemaps = 2
SPECIFICATION Lookups
INVARIANTS Types FindsFirst SymbolFound NoInventedPermission FreshCacheComplete
PROPERTY CallReturns
CHECK_DEADLOCK FALSE
