CONSTANTS
  MaxCalls = 4
SPECIFICATION FairMessengerSpec
INVARIANTS MessengerTypeOK MessageAlive
PROPERTIES EveryCallReturns ImplementsSyncCall
CHECK_DEADLOCK FALSE
