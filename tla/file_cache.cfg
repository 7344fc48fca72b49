\* a key that one client sets and purges and both read, and a key beyond max_zoom
CONSTANTS
  c1 = c1
  c2 = c2
  k1 = k1
  k2 = k2
  short = short
  long = long
  Clients = {c1, c2}
  Keys = {k1, k2}
  Vals = {short, long}
  Beyond = {k2}
  MayWrite <- OneWriter
  Inodes = {i1, i2, i3, i4}
  Size <- Sizes
  Absent = Absent
  Unsampled = Unsampled
  NoInode = NoInode
SPECIFICATION Spec
SYMMETRY InodeSymmetry
INVARIANTS
  TilesWhole
  HitsWhole
  
PROPERTY ImplementsStore
