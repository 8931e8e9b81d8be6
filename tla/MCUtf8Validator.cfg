SPECIFICATION Spec
CONSTANTS
  Bytes <- MCBytes
  MaxLen = 4
INVARIANTS
  TypeOK
  AcceptsExactlyUtf8
CHECK_DEADLOCK FALSE
