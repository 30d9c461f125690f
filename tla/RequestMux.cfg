SPECIFICATION FairSpec
CONSTANTS
  Threads = {ui, mem}
  Ui = ui
  UiKinds = {"find_pattern", "get_modules"}
  Subjects = {a1, a2}
  Unset = unset
  Failed = failed
  MaxRequests = 2
  MaxConnects = 2
  StaleAge = 1
  ScanWait = 1
INVARIANT TypeOK
INVARIANT ReplyMatchesRequest
INVARIANT UiWaitKeepsItsRequest
PROPERTY ImplementsRequestReply
PROPERTY AnswersInOrder
PROPERTY EveryRequestLeavesTheTable
PROPERTY EveryWaitEnds
