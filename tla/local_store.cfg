CONSTANTS
  NoDoc = NoDoc
  d1 = d1
  d2 = d2
  r1 = r1
  x1 = x1
  x2 = x2
  Docs = {d1, d2}
  MaxBlocks = 2
  Readers = {r1}
  Deleters = {x1, x2}
SPECIFICATION Spec
SYMMETRY StoreSymmetry
INVARIANTS
  TypeOK
  ReadersGetWholeFiles
  DeletedIsRemoved
PROPERTIES
  RefusedLeavesNoFile
  ImplementsStore
