------------------------------ MODULE MCDecoders ------------------------------
EXTENDS Decoders, TLC

\* Every choice of the bits the decoders look at, with three contents of the
\* operand fields.
Opcodes == SUBSET {31, 30, 29, 28, 27, 26, 25, 24, 23, 22, 21}
Operands == {{}, {20, 11, 10, 5, 4}, {19, 18, 16, 15, 12, 10, 7, 1}}
SomeWords == {opcode \cup operand : opcode \in Opcodes, operand \in Operands}

\* The least, the greatest and their neighbours, of every width.
Near(n) == {n - 1, n, n + 1}
Boundaries == UNION {Near(2^k) \cup Near(-(2^k)) : k \in {0, 3, 8, 12, 16, 19, 20, 27}}
SomeValues ==
  Boundaries \cup {4 * n : n \in {m \in Boundaries : m \in (-(2^28))..(2^28)}}
  \cup {4096, -4096, 8192, 65536, 65536 * 255, 2^28 - 4096, 4096 * 4095}
SomeAddresses == {4096 * 3 + 8, 2^29 + 4092}
=============================================================================
