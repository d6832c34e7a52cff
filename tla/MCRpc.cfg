CONSTANTS
  Boxes = {0, 1, 2}
  Threads = {"c", "d", "e", "r"}
  BoxOf <- MCBoxOf
  NumOut = 2
  NumIn = 2
  NumGroups = 1
  Calls <- MCCalls
  Serves <- MCServes
  MaxCalls <- MCMaxCalls
SPECIFICATION Spec
INVARIANTS
  TypeOK
  InFlight
  ResultMatches
  RunAtMostOnce
  RunsOwnGroup
  WaiterUnique
  FreeSlotsQuiet
PROPERTIES
  MessagesNotLost
