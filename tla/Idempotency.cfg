SPECIFICATION LiveSpec
CONSTANTS
  Requests = {r1, r2, r3}
  Slow = FALSE
  NoRequest = NoRequest
INVARIANT OneProcesses
PROPERTIES AnswersAreKept LocksEnd
