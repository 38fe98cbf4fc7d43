SPECIFICATION Spec
\* One window, two edits after what was there.
CONSTANTS
  Windows = {w1}
  Entries = {a, b}
  NoList = NoList
  MaxEdits = 3
  MaxReloads = 0
INVARIANT SavesKeepOrder
\* The user may stop, and the bounds stop every behaviour.
CHECK_DEADLOCK FALSE
