SPECIFICATION Spec
CONSTANTS
  NSets = 3
  Sources = {1}
  Units = {u1}
  File = File
  Rates = {1, 2}
  DefaultRate = 1
  MaxMessages = 2
CONSTRAINT OneFailure
INVARIANTS TypeOK BuddiesAgree RateTold Streaming
