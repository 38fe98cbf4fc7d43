SPECIFICATION Spec
\* Two windows, two entries, two edits after what was there, and reloads.
CONSTANTS
  Windows = {w1, w2}
  Entries = {a, b}
  NoList = NoList
  MaxEdits = 3
  MaxReloads = 1
INVARIANT TypeOK
INVARIANT ServerFollows
\* The user may stop, and the bounds stop every behaviour.
CHECK_DEADLOCK FALSE
