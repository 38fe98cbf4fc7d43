SPECIFICATION Spec
CONSTANTS
  i1 = i1  i2 = i2  i3 = i3
  u1 = u1
  Ids = {i1, i2, i3}
  Urls = {u1}
  Names <- MCNames
  Trimmed <- MCTrimmed
  NoText = NoText
  NoId = NoId
  Uncategorized = "U"
  Own = {"bearer", "basic"}
  Starts <- MCStarts
  Imports <- MCImports
  MaxDepth = 2
  MaxList = 4
  MaxOps = 3
INVARIANT IdsUnique
INVARIANT ViewsAgree
INVARIANT InheritsAsShown
PROPERTY FolderOpsExact
CHECK_DEADLOCK FALSE
