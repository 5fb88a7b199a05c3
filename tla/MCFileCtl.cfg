SPECIFICATION Spec
CONSTANTS
  Dirs = {root, d1}
  Root = root
  Names = {n1, n2}
  n1 = n1
  n2 = n2
  d1 = d1
  Places <- MCPlaces
  Stock = {s1, s2}
  Ids = {i1, i2}
  Size = 1
  None = None
SYMMETRY Symmetry
CONSTRAINT FewFiles
INVARIANTS LibraryComplete TrashRestorable
PROPERTIES NoSilentLoss StoreSpec
