---------------------------- MODULE MCMemoryPatch ----------------------------
EXTENDS MemoryPatch, TLC

CONSTANTS o1, o2

\* An image loaded at 1, and one that is not loaded.
OneImage == {0, 1}

\* No byte is the zero a refused save leaves behind.
FullBytes == [a \in 1..2 |-> 1]

Symmetry == Permutations(Objects)

\* NestedPatches says nothing once the caller has broken the nesting.
StillOrderly == orderly
=============================================================================
