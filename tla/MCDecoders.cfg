SPECIFICATION Spec
CONSTANTS
  None = None
  Words <- SomeWords
  Values <- SomeValues
  Addresses <- SomeAddresses
INVARIANTS
  TypeOK
  DecodersAgree
  ReadsBack
CHECK_DEADLOCK FALSE
