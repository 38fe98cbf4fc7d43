SPECIFICATION FairSpec
\* Two workers, a list of one block.
CONSTANTS
  a = a  b = b
  w1 = w1  w2 = w2
  i1 = i1  i2 = i2  i3 = i3
  None = None
  Workers <- MC2Workers
  Inodes <- MC3Inodes
  Bodies <- MCOneBody
  Blocks = 1
  CutUploads = FALSE
PROPERTY CallsEnd
