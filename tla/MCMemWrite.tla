----------------------------- MODULE MCMemWrite -----------------------------
(* MemWrite on two pages of one byte.                                      *)
EXTENDS MemWrite, TLC

\* Data, code and read-only pages: none writable and executable at once.
SplitProtections == {{"r"}, {"r", "x"}, {"r", "w"}}

Symmetry == Permutations(Writers)
=============================================================================
