SPECIFICATION Spec
CONSTANTS
  MaxPosts = 1
  MaxTickets = 2
  ATTEMPTS = 2
  Scenarios <- SafetyPages
  MaxLoads = 2
  EDGE = 1
  THRESHOLD = 2
  THROW = 2
  Viewports = {6, 9}
INVARIANTS
  ShowsItsState
  ToastYields
  FeedSource
  LauncherOnScreen
PROPERTIES
  SilentAfterDestroy
CHECK_DEADLOCK FALSE
