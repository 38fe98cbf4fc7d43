SPECIFICATION Spec
\* Two workers, two lists of two blocks; uploads may be cut off.
CONSTANTS
  a = a  b = b
  w1 = w1  w2 = w2
  i1 = i1  i2 = i2  i3 = i3
  None = None
  Workers <- MC2Workers
  Inodes <- MC3Inodes
  Bodies <- MCBodies
  Blocks = 2
  CutUploads = TRUE
SYMMETRY Symmetry
INVARIANT ListsKept
