CONSTANTS
  Boxes = {0, 1}
  Threads = {"a", "s", "t"}
  BoxOf <- MCBoxOf
  NumOut = 2
  NumIn = 2
  NumGroups = 1
  Calls <- MCCalls
  Serves <- MCServes
  MaxCalls <- MCMaxCalls
SPECIFICATION Spec
INVARIANTS
  RunAtMostOnce
