SPECIFICATION Spec
CONSTANTS
  Threads = {ui, mem}
  Ui = ui
  UiKinds = {"rvm", "find_pattern", "get_modules"}
  Subjects = {a1}
  Unset = unset
  Failed = failed
  MaxRequests = 1
  MaxConnects = 1
  StaleAge = 1
  ScanWait = 1
INVARIANT CallbackTargetAlive
