SPECIFICATION Spec
CONSTANTS
  f1 = f1
  f2 = f2
  k1 = k1
  v1 = v1
  v2 = v2
  d1 = d1
  d2 = d2
  Dirs = {d1, d2}
  Fields = {f1, f2}
  Keys = {k1}
  Values = {v1, v2}
  Null = Null
  NoDir = NoDir
  NoFile = NoFile
  Tombstone = Tombstone
  Torn = Torn
  MaxFaults = 1
SYMMETRY Sym
INVARIANTS StorageTypeOK WriteThrough
PROPERTY IsPersistentMap
