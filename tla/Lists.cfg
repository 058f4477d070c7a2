SPECIFICATION Spec
CONSTANTS
  Radix = 6
  NewMessage <- MCNewMessage
  AddedByte = {5}
  MaxMessages = 3
  MaxVector = 2
  Spare = {0, 25}
INVARIANTS TypeOK RoundTrip StaleSizeIsLocal
PROPERTY WalkAdvances
\* An exchange ends.
CHECK_DEADLOCK FALSE
