\* Two tabs, with and without the lock, one failing request; one tab's feed,
\* two connections lost; no sign-out overlapping GET user or a renewal that begins in it.
SPECIFICATION ClientSpec
CONSTANTS
  left = left
  right = right
  note = note
  timer = timer
  Tabs <- TwoTabs
  Slots <- TwoSlots
  MaxToken = 4
  MaxFaults = 1
  Events <- TwoEvents
  Sockets <- ThreeSockets
  MaxLost = 2
  MaxPending = 2
INVARIANTS
  SignedOutHasNoToken
  OneRefreshPerTab
  FeedIsCurrent
PROPERTIES
  StoredMovesForward
  RefreshesSettle
  FeedComesBack
CONSTRAINT Undisturbed
CHECK_DEADLOCK FALSE
