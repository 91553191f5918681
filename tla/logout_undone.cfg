\* A request that fails as the user signs out.
SPECIFICATION Spec
CONSTANTS
  left = left
  right = right
  Tabs <- TwoTabs
  Slots <- TwoSlots
  MaxToken = 5
  MaxFaults = 1
INVARIANTS
  LogoutIsFinal
CHECK_DEADLOCK FALSE
