# A TLA+ development of the duckdz runtime

The repository builds one dynamic library for iOS. When it is loaded into a
host application it draws a menu, keeps settings, and changes the memory and
the control flow of that application through a small runtime: a hook engine
that uses hardware breakpoints, and the KittyMemory library for reading,
writing, validating, searching and locating memory. This directory models that
runtime and the stateful part of its user interface in TLA+, checks the models
with TLC and proves every safety property the passing runs check with TLAPS.

Paths below are relative to the repository.

## 1. The system

### Components

| component | code | state | operations |
|---|---|---|---|
| Hook engine | `hook/hook.c`, `hook/hook.h` | `hooks[16]`, `active_hooks`, the statics `initialized` and `breakpoints`, the exception port; the debug registers of the task and its threads | `Zexis`, `ZexisUnhook`, `catch_mach_exception_raise_state` (server thread) |
| Write path | `KittyMemory/KittyMemory.cpp` (Apple build) | the bytes, the protection of pages, the instruction cache | `memWrite`, `memRead`, `getPageInfo`, `getAbsoluteAddress` |
| Patch and backup objects | `MemoryPatch.cpp`, `MemoryBackup.cpp`, `writeData.hpp` | per object: address, size, saved bytes, patch bytes | the creators, `Modify`, `Restore`, `writeData8..64` |
| File input and output | `KittyIOFile.cpp` | a descriptor, the file behind it, lengths and offsets | `copy`, `writeToFile`, `readToString`, `readToBuffer`, `writeToFd` |
| Pointer validator | `KittyPtrValidator.hpp/.cpp` | `cachedRegions_`, `last_region_index_`, `use_cache_` | `isPtrReadable/Writable/Executable`, `refreshRegionCache`, `setUseCache`, `clearCache` |
| Image lookup | `KittyMemory.cpp`, `Helper/Mem.h` | none of its own; the image list of dyld | `getBaseInfo`, `getMemoryFileInfo`, `findSymbol` |
| Pattern scanner | `KittyScanner.cpp`, text helpers of `KittyUtils.cpp` | a range, a pattern with its mask, the list of matches | `findBytesAll/First`, `findHexAll/First`, `findIdaPatternAll/First`, `findDataAll/First` |
| Floating buttons | `menuUIKIT/buttons.mm` | the dictionary of buttons; views with alpha, hidden flag and superview | `createButton…`, `removeButton…`, `show…`, `hide…`, `…AllButtons`, taps, completions |
| Instruction decoders | `KittyAsm.cpp`, `KittyArm64.cpp` | none | two decoders of AArch64 instructions and one of Arm |
| General utilities | `KittyUtils.cpp/.hpp` | none | hexadecimal text, file names, random strings |
| Menu and its life | `Draw.mm`, `Esp/PubgLoad.mm`, `Helper/GameRunner.mm` | `isUIKitMenuOpen`, the controllers presented, the view that has the gestures, the timer of the frame counter, the display link, the close animation | the two blocks that run after loading, `openUIKitMenu`, `closeUIKitMenu`, `animateClose`, `closeSelf`, `menuDidClose` |
| Settings | `Draw.mm` 651–747, `Helper/Hooks.h` 457–558 | switches and the variables features go by, the rows of a tab, the settings file | a tap on a row, save, load, a frame, a restart |
| Feature loop | `Helper/Hooks.h` | objects of the host application | per-frame reads and writes |
| Address helpers | `Helper/Mem.h` below line 78 | none | an address from a slide; three copies of protect, write, protect that nothing calls |
| Themes, small views, system views, generated stubs, code the Makefile does not compile, vendored code | see `PROJECT.json` | none that a property is about | – |

### How they interact

- **Shared memory without a lock.** The caller of `Zexis` rewrites `hooks` and
  `active_hooks` while the exception server searches them. Nothing orders the
  stores of the one or the reads of the other.
- **Messages.** A thread that reaches an armed address is stopped and its
  exception is queued at a Mach port that one server thread reads. The answer
  is a new program counter, or `KERN_FAILURE`.
- **Kernel calls as steps.** `memWrite` is five kernel calls; the validator's
  cache is filled with one per region; an image lookup asks dyld once per
  field. Other threads run between any two of them.
- **Layers.** Patch objects call `memRead` and `memWrite`; the text searches
  read a pattern and call the byte search; hooks and patches compute their
  addresses from an image lookup.
- **One main thread, several owners.** The menu, its gestures and the host
  application present and dismiss controllers of one stack; what one of them
  takes off may be another's. The menu writes variables that the frame function
  joins with others behind its back.
- **Callbacks.** UIKit runs the completion of an animation after the call that
  started it, and other calls of the main thread come in between.

### What is hard, and what must hold

| component | hard behaviour | correctness |
|---|---|---|
| Hook engine | table rewritten under the reader; threads that start or end during the update of registers; kernel calls that fail halfway | after a call that says true, table and registers agree in every thread; a hit that no call overlaps lands in the function asked for; calls return, hits are answered |
| Write path | calls on one page overlap; refusals leave a call half done | protections come back; no executable page keeps stale instructions unless a flush is coming |
| Patch objects | objects over the same bytes; calls that report failure after writing | a caller that nests its objects always finds the bytes they account for |
| Files | the file changes between `stat` and `read`; short and failing calls; `size_t` that wraps | true means delivered; calls return |
| Validator | the map changes while the cache is filled and after | the cache invents no yes for a range that ends; a fresh cache is complete |
| Lookup | images come and go between two questions; names that collide in a hash table | the answer is of one image, the first wanted; the symbol that was asked for, if it is defined |
| Scanner | ends of ranges, overlapping matches, the reader's index that moves inside an expression | matches only, and all but those that overlap a listed one; the text read as meant |
| Buttons | completions run after later calls | what is shown stays, what is given up goes, no callback for a dead button |
| Menu | two ways to open, three to close, a close that is tapped twice, a host that presents and dismisses at any moment | the flag does not lock the user out; one menu at a time; a closed menu goes, with its timer |
| Settings | frames change what rows show; files and restarts change what frames use | a row tells the truth, but for three that may lag in one direction; off means off; what was saved is loaded |
| Decoders | shifts and sign extensions at every width; two decoders of one language | an operand that was assembled is read back; the decoders agree where both decode |

`PROJECT.json` lists each hazard with its line and the properties that would
catch it.

## 2. The modules

| module | models | how its state and actions correspond to the code |
|---|---|---|
| `HookEngine` | `hook.c` | `hookAddress`, `hookFunction`, `active_hooks` are the table; `Zexis` and `ZexisUnhook` compute the image to store; `Store(w)` makes one word of it visible; `SetTask`, `ListThreads`, `SetThread` and `Return` are the kernel calls in their order; `Trap` queues a message; `Receive`, `Scan`, `Fail` and `Redirect` are the handler, one table access each |
| `HookService` | the promise of the engine | bindings appear at once, a hit lands in the bound function, no hit ends the process |
| `HookOnce` | refinement of `HookService` | reads the bindings off the engine's table from the first `set_state` on |
| `MemWrite` | `memWrite` | one action per kernel call, each with its refusal; a range covers the pages it touches |
| `WriteService` | what `memWrite` promises its callers | the bytes are written at one moment before the answer, or never; refined by `MemWrite` (`Stage` forgets which kernel call is next) |
| `MemoryPatch` | `MemoryPatch.cpp`, `MemoryBackup.cpp`, `writeData.hpp`, `memRead`, `getAbsoluteAddress` | `obj[o]` holds the fields of the object in variable `o`; one action per public operation, with the outcomes `memWrite` can have: nothing written, written, or written and reported as failed; `older` records which of two objects alive was made first |
| `FileIO` | `KittyIOFile.cpp` | one action per system call of each function, and three for the process that changes the source |
| `PtrValidator` | `KittyPtrValidator` | `refreshRegionCache` one region a step, its sort a choice among the sorted arrangements of the vector; addresses and lengths are words and `ptr + len` wraps (`RangeEnd`); questions are operators that give the answer from the cache (by bisection: one turn of the loop is `Half`) or from the kernel, and an action that moves `last` |
| `ImageLookup` | `getBaseInfo` (two), `getMemoryFileInfo` (two) | one action per call of dyld, and loads and unloads by other threads |
| `BytesSearch` | `findBytesAll/First`, `findInRange`, `compare` | the loop of the caller and the loop it calls, one address a step |
| `PatternText` | the readers of patterns in `KittyScanner.cpp` and `KittyUtils.cpp` | one iteration of each reader a step: a character or a pair of digits |
| `Scanner` | the text searches | composes `PatternText` and `BytesSearch` at the call that joins them; any pattern that can be read may be searched for |
| `Symbols` | the two `findSymbol` and the `LookupByName` of `KittyUtils.cpp` | the tables of an image as a linker writes them; the walk of a hash chain is a recursive function over symbol numbers |
| `FloatingButtons` | `buttons.mm` | one action per method, one per completion block |
| `Menu` | `Draw.mm` (life of `ModMenuViewController`), `PubgLoad.mm`, `GameRunner.mm` | `stack` is what UIKit presents above the root; one action per block, gesture and completion, two for the host |
| `Settings` | rows, file and frames of `Draw.mm` and `Hooks.h` | seven switches: those whose variable something other than their own row or a load sets, and others that are saved or that a frame reads; one action per handler, the frame, and a restart |
| `Decoders` | `KittyAsm.cpp`, `KittyArm64.cpp` | a word is the set of the bits that are 1, so that masks, shifts and extensions are operators on sets; a state is one word asked about |
| `HookEngineProofs`, `MemWriteProofs`, `MemoryPatchProofs`, `FileIOProofs`, `DecoderProofs` | – | theorems and proofs about the module of that name |
| `LookupProofs` | – | those about `ImageLookup`, `Symbols` and `PtrValidator` |
| `BytesSearchProofs` | – | those about `BytesSearch`, `PatternText` and `Scanner` |
| `InterfaceProofs` | – | those about `FloatingButtons`, `Menu` and `Settings` |
| `MC…` | – | constants for TLC; `MCInterface` and `MCLookup` put three modules each, which share no variable, side by side |

Conventions of the models:

- Variables marked *history* in a declaration are not in the code. They record
  what a property has to speak about (what was asked for, what has happened
  since) and no guard of an action of the code reads them.
- A definition marked *mutated* above the one it resembles is a plausible bug
  of that definition. No specification uses it; each property is known to fail
  when the definition is replaced by its mutated form (`PROJECT.json`,
  "mutants").
- Undefined values are a choice: the order in which plain stores become
  visible in `HookEngine`, the `st_size` of a failed `stat` in `FileIO`, the
  uninitialised structure of `Mem.h` in `ImageLookup` (every field of it, `Unset`).
- Every constant that is a bound of the model, and not of the program, is
  marked so where it is declared.

## 3. The runs

The specifications stop when their bounds are used up or the program ends, so
every configuration has `CHECK_DEADLOCK FALSE`. That everyone waits on
everyone is excluded by the liveness properties instead.

| run | instance | shows |
|---|---|---|
| `hook` | 2 threads, 2 addresses, 2 functions, 3 slots, at most 2 hooks of which the hardware takes 1 (or 2, when it does not say), 2 calls; symmetry | `SettledAgreement`, `UnhookDisarms`, `CleanHitSurvives`, `CleanLanding` under every order of stores, hits, thread starts and ends, and refusals |
| `hook_once` | the same with one call and without symmetry | `ImplementsService`: a program that hooks once sees the atomic service, also where a call failed halfway; `CallReturns`, `HitAnswered` |
| `memwrite` | 2 threads, 2 pages of one byte, 3 calls, pages that start `r`, `rx` or `rw`; symmetry | `StaleOnlyUntilFlush`, `ProtectionsReturn`, `ImplementsWriteService` |
| `patches` | 2 objects over 2 bytes; symmetry | `NestedPatches` for any number of calls |
| `patch_restore` | 1 object | finding 1 below |
| `file_io` | buffers of 2 bytes, files that start with 0, 1 or 3 bytes and never pass 4, words of 16 values | `TrueMeansDelivered`, `CallReturns` |
| `file_stat` | the same | finding 2 below |
| `lookup` | 3 images, 3 loads or unloads; or 3 symbols of 2 names, every hash of 0 to 4, 2 buckets, a filter of 2 words; or 3 pages with no access, `r`, `rw` or unmapped, 2 changes of the map, words of 6 values | `FindsFirst`, `CallReturns`, `SymbolFound`; `NoInventedPermission`, `FreshCacheComplete` for every question in every order |
| `scanner` | 4 addresses, 2 byte values, texts of up to 2 positions with noise around them, all masks | `ListedMatches`, `ScanTypes`, `ReadAsMeant` |
| `scanner_all` | 4 addresses, 1 byte value | finding 3 below |
| `interface` | 2 identifiers, 2 objects, 2 hides of one object under way; or 3 menus, 2 closes of one under way, and a host; or 7 switches | `ShownStays`, `OnlyKeptToggle`, `GivenUpGoes`; `NoLockOut`, `OneMenu`, `ClosedGoes`; `RowsTellTruth`, `OffMeansOff`, `LoadsLastSave` |
| `decoders` | 6144 words with every choice of the bits the decoders look at; every form assembled with operands at the boundaries of every width, at 2 addresses | `DecodersAgree`, `ReadsBack` |

### Why the bounds are enough

- **Hooks.** Two hooks in a table are the fewest for which a compaction moves
  an entry, an address can be named twice, and addresses and functions can be
  paired wrongly. A third slot leaves one that no call uses. Two calls give
  every pair (install and replace, install and remove, remove twice) with hits
  in between; two threads give a snapshot of which one member fails or has
  ended while another starts. `MaxCount` is the program's 6, `NumSlots` its 16.
- **Writes.** Two threads overlap at every pair of kernel calls, and a third
  call meets what two have left. Two pages are what a range needs to have a
  first page that differs from another one.
- **Patches.** Two bytes let objects be nested, apart or overlap in part. The
  constraint `StillOrderly` stops at the first step with which the caller
  breaks the nesting: `NestedPatches` says nothing from there on. It is proved for any number of
  objects of any size.
- **Files.** Files end before, at and behind a buffer's edge, and change in the
  middle of the second one. In words of 16 values the subtraction of the sized
  loop wraps as it does in words of 2^64, and every length stays far below the
  value at which a signed comparison would change.
- **Validator.** Three pages hold two regions with a gap, or three neighbours
  of which any are merged; the second change of the map can undo the first. Words
  of 6 values name the three pages, the address behind them and two that are not
  mapped, so that `ptr + len` wraps from every address but 0. What is
  checked is proved for any number of pages and of changes, and words of any size.
- **Lookup.** Three images put one before and one behind the image wanted; three
  changes can unload one, load it again at the end and unload another.
- **Scanner.** Patterns of two positions overlap themselves, touch, and end where
  the range does. The bytes 0 and 16 are spelled with different digits in
  either place; 1 and 17 can be asked for and are never found.
- **Buttons.** Two objects are a button and the one that takes its name while it
  fades. Two hides make the completion of the first run under the second.
- **Symbols.** With hashes 0 to 4 two names agree in all bits, in all but the
  lowest, in their bucket, in their word of the filter, or in nothing; three
  symbols make a chain with a first, a middle and a last one, or a name that is
  imported and defined.
- **Menu.** One menu is the constructor's, a second is opened by a gesture before
  or after it, a third once one of these has gone. Two close animations of one
  menu are a double tap; more of them only repeat the second.
- **Settings.** Every state is reached; there is no bound. The seven switches
  are saved or not, joined with a second variable or not, set in pairs or not,
  set by a frame (the aimbot, the skipping of wall checks) or by the row of
  another one (the rate of fire). The rows left out show a variable that only
  their own row sets.
- **Decoders.** A property of an instruction word depends on the bits that
  select its form, all combinations of which are tried, and on operands, which
  are taken at each power of two where a field ends, is extended or is shifted.
  Both properties are proved for all words, operands and addresses.

`hook` uses symmetry, which is not sound for liveness; `hook_once` does without.
`interface` and `lookup` are disjoint sums: a behaviour belongs to one part, and
the variables of the others keep their initial values. What is checked of each
part is what a run of its own would check.

### Fairness

- `HookEngine`: weak fairness of the caller in the middle of a call and of the
  server. Both are threads of the process that block on nothing but the
  kernel. No thread is obliged to call, start, end or reach an address.
- `FileIO`, `ImageLookup`: weak fairness of the next step of the call in
  progress, a loop that waits for nobody. The other processes and threads are
  not obliged to do anything, and what they can do is bounded: a file that
  grew for ever would be copied for ever.
- `FloatingButtons`, `Menu`: weak fairness of each completion; UIKit runs them.
  Calls, taps, gestures, the blocks after loading and the host are free.

The other specifications have no fairness, and only safety is claimed of them.

## 4. The proofs

TLAPS proves these for every value of the constants. What is assumed is only
the named `ASSUME` of the module: types and ranges of constants, that the zero
words of an empty slot are not addresses or functions, and that what stands
between the positions of a text spells none of its own (`GapsAreSilent`).

**`HookEngineProofs`.** `TypeCorrect` comes first. The safety properties
follow from `IInv`, which has six parts, each there because another part or a
property does not survive some action without it:

- `StoreInv`: what is not pending has been stored, so once the caller is past
  its stores the table is the image it meant to store;
- `RegisterInv`: the threads of the snapshot that are done, *and* those that
  were started since, have the new registers, because a thread inherits those
  of the task, which were set before the snapshot was taken;
- `TargetInv`: the image of an unhook does not name its address;
- `QueueInv`: a waiting thread has exactly one message, in the queue or with
  the server, so nobody else releases it;
- `CleanInv`: the search for a hit that no call overlaps runs over a table that
  stands still, and has not passed the entry;
- `AskInv`: the first entry for an address in the table, or in the image a call
  is storing, is a pair that was asked for. The compaction of `ZexisUnhook`
  needs a lemma of its own (`UnhookFollows`): it keeps entries whole and in
  their order.

`OnceImplements` proves the refinement for the programs that make one call
(`MaxCalls = 1`): every step of the engine is a step of `HookService` under the
mapping of `HookOnce`, or changes nothing it sees. It needs three facts of its
own: registers and waiting threads name nothing before the first `set_state`
and only addresses of the table from then on (`ArmedOnce`), the table has full
entries only (`TableOnce`), and every search runs over a table that stands still
(`SearchOnce`), so that none comes to its end without a match. That an address
of the table has a *first* slot takes the least-number principle, which the
library's well-founded relations give.

From `IInv`: `Agreement` (`SettledAgreement`), `Disarmed` (`UnhookDisarms`),
`HitSurvives` (`CleanHitSurvives`) and the action property `HitLands`
(`CleanLanding`).

**`MemWriteProofs`.** `TypeCorrect`, then `CacheCoherence`
(`StaleOnlyUntilFlush`) from three facts: the shape of requests, that no page
becomes both writable and executable where none started so (`SplitInv`), and
that an executable page with stale bytes has a call about to flush it
(`FlushPending`). The second is what makes the unflushed direct write harmless.
`ProtectionsComeBack` (`ProtectionsReturn`) rests on `Borrowed` (where all pages
start alike, a page whose protection is not the one it started with is readable
and writable, and a call that covers it is still to put back what it found) and
on `NarrowCalls`: as long as every call covers one page, the page that a call
loses is the only one it had to put back.

`WritesAreAtomic` (`ImplementsWriteService`) is the refinement, one step of the
proof per kernel call: whatever other calls and refusals come between them, a
call writes at most once and before it answers, and the answer says whether it
did, except `KMS_ERR_PROT`, which is given on either side of the write. These
are the outcomes `MemoryPatch` lets a write have. That one `mach_vm_write` is
itself indivisible is taken from the kernel, not shown.

**`FileIOProofs`.** `TypeCorrect`, which says that no read overruns its buffer,
and `TrueDelivers` (`TrueMeansDelivered`), for every size of files, buffers and
words. `LengthOK` ties the words `len`, `off` and `put` to what has been
delivered, with the wrap of `size_t` (`LeftOf`); that a loop which judges `len`
to be enough has everything (`EnoughMeansAll`) needs `MaxLen` to be below half
of the words, since the code compares them signed. `ContentOK` says which
offsets of the source the buffer and the destination hold.

**`MemoryPatchProofs`.** `TypeCorrect`, and `ObjectsNest` (`NestedPatches`) for
any number of patches and backups of any size, in any overlap. That memory is
what the objects account for is not inductive: a Restore writes what was *saved*,
so `SavedInv` says of every live object that its saved bytes are what the older
objects under it account for; they stay that as long as no older object is
touched, which the caller's order guarantees. `AgeInv` says that the objects
alive are totally ordered by when they were made. Only the youngest of the
applied objects on a byte counts, so whatever happens to one that is covered
there leaves the account of that byte as it is.

**`LookupProofs`**, on images: `ImageTypeCorrect` and `FirstImageFound`
(`FindsFirst`), for any finite set of images and any number of loads and unloads.
What has stood in the list since the call began lies before the count the call
goes by (`StandingOK`); of those before the index none was wanted (`Passed`);
and the index is still that of the image that matched while its fields are asked
for (`Pointed`). Of an answer for which no image matched it says what the two of
`KittyMemory.cpp` give; nothing is said of the structure that the two of `Mem.h`
then return uninitialised.

On symbols: `SymbolTypeCorrect` and `SymbolsAreFound` (`SymbolFound`), for tables
of any size, any hash values, any number of buckets and any filter. Names with
equal hashes ask for the same word and bits of the filter, so it refuses no name
that is defined, whatever its sizes are. The walks of the two chains are
recursive functions; that they exist, and that neither passes over a symbol, is
shown of the least index for which it would fail. A GNU chain is contiguous
because the table is sorted by bucket; in a System V chain the next symbol is
the greatest below.

On the validator: `ValidatorTypeCorrect`, `NothingInvented`
(`NoInventedPermission`) and `FreshIsComplete` (`FreshCacheComplete`), for any
number of pages and of changes of the map. The first two need `HeldInv` alone
(what a region says was true of each of its pages at some time), which merging
and sorting keep, also where regions overlap. `ptr + len` wraps: of a range
whose end wraps, a yes from the cache says no more than that its first page has
had the permission, and `NoInventedPermission` claims no more (`EndOfRange` says
when an end is the sum). The third needs the cache of a
map that has not changed to be truthful, in order, with neighbours of equal
permissions merged, and complete up to the page the walk has come to, which
lies between two regions of the kernel (`Truthful`, `Ordered`, `Apart`,
`Complete`, `Standing`). Sorting then changes nothing (`std::sort` may return any
sorted arrangement; of an ordered cache there is one), and the bisection, which
is well defined because its spans get shorter, gives the first region that ends
above the address. That all this holds whatever `last` is makes the answer
independent of what was asked before.

`KindsBehave` says that a behaviour of the specification TLC runs (`Lookups`) is
one of `ImageLookup`, of `Symbols` and of `PtrValidator`; `LookupTypes` is its type invariant.

**`BytesSearchProofs`.** `SearchCorrect` proves `ListedMatches`. Its invariant
says that every place behind the point the search has come to is no match, or
overlaps a match of the list. The two nested loops settle the same addresses
in turn, so the point is that of the inner loop while it runs (`Reached`).
`TypeCorrect` follows from the same invariant: neither loop leaves its range.

The same is proved of a search by text (`ScanCorrect`, and
`TextsAreTyped` for the range), and of its reader that it stays within a text of
any length and that `dataFromHex` never writes behind the buffer the mask sets
(`TextsAreTyped`). `TextInv` says why:
what `ValidateHex` lets pass are digits only, two for each place of the mask,
and the reader is always at twice the number of bytes it has written. The call
(`Give`) starts a search of `BytesSearch` on whatever was read (`Uncalled`), so
that module's invariant takes over. Texts are joined and trimmed with
`FlattenSeq`, a recursive function, of which `FlattenTypes` is proved in the
way the chains of `LookupProofs` are.

`ReadAsMeant` (`TextsReadAsMeant`): reading undoes spelling, for texts of any
length. `MeantInv` (in `Scanner`) divides a text at the place the reader has come
to: what it has made is the beginning of what was meant, and what is still to be
read is a gap, perhaps behind part of its characters, followed by the rest of
the positions and gaps (`Upto`, `StandsIn`). So a step reads a character of a gap,
which makes nothing, or exactly one position. Of a hexadecimal
text it is enough to know that once it is digits only, whatever was trimmed from
it, they are those of the positions, two of each (`DigitsOf`); what `dataFromHex`
has written is then a pair a time, with the mask of the call.
`GapsAreSilent` is needed: in an IDA pattern a digit of a gap that stands before
another digit is a byte of its own, as it is for the code.

**`InterfaceProofs`**, on buttons: `ButtonsTypeCorrect`, `ShownStaysShown`
(`ShownStays`) and the action property `OnlyKept` (`OnlyKeptToggle`), for any number
of buttons and of completions to come. The second rests on `OpaqueKept`: a
button that is opaque, and so can be tapped, is one the container keeps.

On the menu: `MenuTypeCorrect` (one display link, in any order of the blocks
that start it), `GestureNotLockedOut` (`NoLockOut`) and `NeverTwoMenus`
(`OneMenu`), for any number of menus. The last needs to know what the stack can
hold before either block has run (`BeforeLoad`, `BeforeConstructor`): a gesture
opens a menu only when the root presents nothing, and the constructor does not
ask.

On the settings: `RowsAreTrue` (`RowsTellTruth`), `OffStaysOff` (`OffMeansOff`) and
the action property `LoadIsLastSave` (`LoadsLastSave`), whose invariant is that the
file, where there is one, is what was last saved. `RowsTellTruth` names three rows
that may lag and says how: those of the aimbot and of the skipped wall checks
only show "off" for a variable that is on, because a frame may set it behind them;
that of the rate of fire only shows what was before a tap on the row of fast
fire, whose value its variable then has. That a frame, which copies `CheckWall1`
over `Vars.SkipWallCheck`, never turns it off under a row that shows "on" needs
`CopyHolds`: a variable that is on has its second one on.

`PartsBehave` says that a behaviour of the specification TLC runs (`Interface`) is
one of each of the three; `InterfaceTypes` is its type invariant.

**`DecoderProofs`.** `TwoDecoders` (`DecodersAgree`): for every word, and not only
those of the run, what the two AArch64 decoders of `KittyAsm.cpp` and
`KittyArm64.cpp` have in common. They tell the same `ADR` and `ADRP` with the same
immediate; the same immediate of `ADD` and `SUB` unless bits 22 and 23 are both
set; and the same loads and stores with an unsigned offset, with the same
immediate, but for the SIMD registers (bit 26) and the combinations of size and
operation that name no type, which only one of the two decodes. What has the
type of a load or store is one for `is_insn_ldst`, and not the other way; what
is a load for `is_insn_ld` is one, where bit 23 is clear and it is not a literal.
`TypeCorrect`: whatever the word and the address, no immediate,
target or bit position is wider than what the decoder keeps it in.

`ReadsBack` (`AssembledReadBack`): whatever operand fits one of the 24 forms of
`Forms64` and `Forms32`, and at every address, the word assembled from it is
decoded to the form, the operand and the target, but for literals the decoder
does not know and the target of a `SUB` from the program counter. The numbers on
the one side and the masks, shifts and carries of the
decoders on the other meet in a few lemmas on `IntBits`, whose bits are those of
successive halves: the addition of bits is that of integers (`PlusBits`, with
`Carry` for what one place hands to the next), a shift is a multiple
(`ScaledBits`), the sign extension of the low bits of a number that fits is the
number (`SignedBits`, `UnsignedBits`), the page of an address is the address
without its low bits (`PageBits`), and the low half of a sum is that of the low
halves (`LowPlus`). They are proved by going up the 64 places one by one (`UpTo`,
from the library's well-founded relations). The rest goes form by form: the bits
outside the field are those the form sets (`Fields`), so exactly one test of the
decoder passes (`FirstTypes`, `LoadTypes`, `JumpTypes`, `ArmTypes`). `MeantInv` only
remembers how the word came about.

Only model-checked are the liveness properties (`CallReturns`, `HitAnswered`,
`GivenUpGoes`, `ClosedGoes`), which are out of the prover's reach.

## 5. Findings

1. **A patch may restore bytes that were never there** (`patch_restore`).
   `MemoryPatch.cpp:47` zero-fills `_orig_code` and ignores what `memRead`
   answers. When the target cannot be read at that moment the patch is valid
   all the same, and a later `Restore` writes zeros and answers true.
   `MemoryPatch.hpp:77`: "Restores the patch to the original value".
2. **The fallback for a failed `stat` is not reached** (`file_stat`).
   `KittyIOFile.cpp:126` returns its structure uninitialised when `stat` fails.
   If `st_size` happens to be positive, the whole-file read is tried with that
   size and the call answers false; the loop announced by the comment at 155
   and 181, "incase stat fails to get file size", is not entered.
3. **A search for all matches does not list all** (`scanner_all`).
   `KittyScanner.cpp:62` goes on behind the match it has listed, so one that
   overlaps it is passed over: of `0 0` in `0 0 0` the second is not found.
   `KittyScanner.hpp:19`: "Search for bytes within a memory range and return all
   results"; line 26: "vector list of all found bytes addresses" (the same at 44,
   69 and 91). `ListedMatches` states what holds: every match left out overlaps
   one that is listed.

Behaviour that no text of the repository contradicts, and which is in the
models because it is what the code does:

- A hit taken before a call and looked up during or after it may find no entry;
  the handler answers `KERN_FAILURE` and the process ends. The properties of
  `HookEngine` speak of hits that no later call overlaps (`clean`) and of
  programs that hook once (`HookOnce`).
- When `task_set_state` is refused the table has already been replaced
  (`hook.c:118–125`); the old registers then name addresses it does not hold.
- A `memWrite` of two pages that loses write permission on one of them to another
  call returns with the other still readable and writable
  (`KittyMemory.cpp:586`). `ProtectionsReturn` excludes exactly this and calls
  the kernel refuses. Where pages start with different protections, all of a
  range get that of its first page; the property is stated for equal ones.
- An image unloaded between the question that matched and those for its header,
  name and slide makes the answer a mixture (`KittyMemory.cpp:677`);
  `FindsFirst` excludes unloads at the index asked about or before it.
- An image none of whose names match makes the two of `Mem.h` return a structure
  they never initialised (`Mem.h:42`, `62`): its address, header and name are
  whatever was there.
- `ptr + len` wraps in the validator (`KittyPtrValidator.hpp:80`, `88`, `97`): for a
  length that reaches behind the address space, a yes is said of a range of
  which only the first page was looked at.
- Creating a button under a name that `hideAllButtons` has faded clears its
  hidden flag and leaves its alpha at 0 (`buttons.mm:173`), and drops the new
  callback.
- A button shown while its own hide animation runs is hidden again when that
  completes (`buttons.mm:230`); `ShownStays` excludes it by name.
- Gestures attached to the menu of the constructor go when that menu does, and a
  menu above the view that has them keeps the closing gesture from being seen.
  `isUIKitMenuOpen` stays set, and no menu opens again, where the host takes a
  menu off or presents something of its own at the moment of an opening;
  `NoLockOut` excludes only these.
- A load of settings sets the switch and leaves the second variable of a feature
  as it is; `Vars.AutoFire`, once a frame has set it, stays set
  (`OffMeansOff` is stated accordingly).
- A row is built once and does not follow its variable. A frame sets
  `Vars.Aimbot` for Aim Kill, No Recoil and Under Kill (`Hooks.h:280`, `476`, `531`)
  and `Vars.SkipWallCheck` from `CheckWall1` (465, 478); the row of AutoFire and
  Fast Fire sets `Vars.rateoffire` (`Draw.mm:691`), which the row Rate of Fire
  shows (579). `RowsTellTruth` names these three.
- `decodeInsn` does not know the literal loads behind the instruction or 512 KB
  and more ahead of it, and gives a `SUB` of an immediate from the program
  counter (which is `ADR` on Arm) the target `address + 8 + imm`
  (`KittyAsm.cpp:121`); `ReadsBack` leaves these targets out. `MOVZ` into the upper
  half-words shifts an `int` by 32 or more (`KittyAsm.cpp:459`), which C++ does not
  define, and is not among the forms.
- The two AArch64 decoders differ on `ADD`/`SUB` with bits 22 and 23 set; on loads
  and stores of SIMD registers (0xFD400000 has an immediate for
  `KittyArm64.cpp:107` and no type for `KittyAsm.cpp:259`–`283`) and of sizes without
  a name; on which words are loads or stores at all; and, of loads against
  stores, where bit 23 is set or the load is of a literal.
- `findSymbol` answers 0 for every name of an image whose slide or load bias is
  0, as it takes 0 to mean "not loaded"; `SymbolFound` excludes this.

## 6. What is not modelled

- One thread calls the hook API. No file of the repository calls it yet, and
  nothing in it guards against two callers at once, which would race on every
  word of the table; a second caller is outside the model.
- The failures `Zexis` ignores while it sets up the port and the server
  (`hook.c:104–108`), and that of `task_threads` (127): in `HookEngine`
  initialisation succeeds and the list of threads is given.
- The server's own thread is never stopped at a breakpoint: that depends on the
  addresses its code runs through.
- In `BytesSearch` a range is one of mapped memory, so `start + scan_size` does
  not wrap.
- In `FileIO`, lengths of half the words or more (`writeToFile` then answers true
  whatever was delivered, `KittyIOFile.cpp:193`, `218`); a `st_size` too
  large for `std::string::resize` (which throws);
  `Read` and `Write` without an offset, `Close`, `listFilesCallback`.
- In `FloatingButtons`, `setButtonActive` (one flag and its look), colours,
  positions and drags. Nothing in the repository calls the container yet.
- In `Decoders`, the names of registers and conditions; in `Menu`, the particle
  timer, the views and the dragging; in `Settings`, numbers and colours.
- The `vm` helpers of `Helper/Mem.h`: three copies of protect, write, protect,
  which nothing calls.
- Code for Android: `syscallMemOp`, the parsing of maps, the ELF and linker
  scanners except the tables `Symbols` looks names up in, lines 112–274 of
  `KittyPtrValidator`. The build is for iOS.
- The feature loop works on objects of the host application at addresses the
  repository does not contain. Themes, fonts, small views, wrappers of system
  frameworks and generated message stubs keep no state a property could be
  about. `Hosts`, `UILoad.mm` and `fmt/*.mm` are in no target of the Makefile;
  Dobby, JRMemory, oxorany and the vector types are third-party.

## 7. Plan

The order was: the hook engine, whose failure ends the process, with its
abstract service and its proofs; then the write path and the objects built on
it; then the sequential components with a changing environment (files,
validator, lookup); then the search and the reading of patterns; then what runs
on the main thread (buttons, menu, settings); then decoders and symbols; and,
with each, the proofs section 4 lists. What remains:

1. `MemoryPatch` over `WriteService` instead of its own atomic write, so that
   several threads patch at once.
2. `HookOnce` implements `HookService` for programs of several calls, with
   hits that overlap no call: this needs a service that may lose the others.
3. The `vm` helpers as a variant of `MemWrite`, once something calls them.
