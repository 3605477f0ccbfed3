------------------------------ MODULE MCScanner ------------------------------
EXTENDS Scanner, TLC

DigitValue == "0" :> 0 @@ "1" :> 1

\* Nothing, a space, a character that means nothing, a prefix, and, where
\* positions are read one by one, a digit alone.
SomeGaps ==
  [ida |-> {<<>>, <<"x", " ">>, <<" ", "1", " ">>},
   hex |-> {<<" ">>, <<"0", "x">>}]

\* What two digits and a wildcard can be read as.
Position == [byte : {0, 1, 16, 17}, mask : {"x", "?"}]
ShortPatterns == UNION {[1..n -> Position] : n \in 0..2}
=============================================================================
