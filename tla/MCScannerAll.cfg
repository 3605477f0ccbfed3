\* Three equal bytes hold a match of two of them at each of two places.
CONSTANTS
  Top = 3
  Bytes = {0}
  Patterns <- ShortPatterns
  Digits = {"0", "1"}
  Value <- DigitValue
  Gaps <- SomeGaps
  MaxTokens = 2
SPECIFICATION ScanSpec
INVARIANT ListsAll
CHECK_DEADLOCK FALSE
