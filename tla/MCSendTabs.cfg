SPECIFICATION Spec
\* Two tabs open at once, and an id for one that is deleted or new.
CONSTANTS
  Tabs = {t1, t2, t3}
  MaxOpen = 2
  Sends = {s1}
  Gets = {g1}
  Entries = {e1}
  Blank = Blank
  Opened = Opened
  Failed = Failed
SYMMETRY Symmetry
VIEW View
INVARIANT TypedKept
INVARIANT LandsHome
INVARIANT ShownIsActive
PROPERTY InactiveKept
