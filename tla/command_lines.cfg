CONSTANTS
  Tables <- AllTables
  Calls <- AllCalls
SPECIFICATION Spec
INVARIANTS
  TypeOK
  FindsItsCommand
  ParsesByRoles
  ForcedOnPurpose
  LuaCallsRoundTrip
  FailuresAreTold
CHECK_DEADLOCK FALSE
