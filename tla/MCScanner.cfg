\* Four addresses hold matches of two bytes that touch, overlap, or end where
\* the range does; 16 is a byte the memory holds and 17 one it does not.
CONSTANTS
  Top = 4
  Bytes = {0, 16}
  Patterns <- ShortPatterns
  Digits = {"0", "1"}
  Value <- DigitValue
  Gaps <- SomeGaps
  MaxTokens = 2
SPECIFICATION ScanSpec
INVARIANTS ScanTypes ListedMatches ReadAsMeant
CHECK_DEADLOCK FALSE
