------------------------------ MODULE MCFileIO ------------------------------
EXTENDS FileIO

\* The empty file, one below a buffer and one above.
Lengths == {0, 1, 3}
=============================================================================
