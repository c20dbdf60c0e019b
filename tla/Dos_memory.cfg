SPECIFICATION Spec
CONSTANTS
  MEM_FIRST = 8
  MEM_LAST = 20
  Images <- SmallImages
  PspSize = 1
  EnvSize = 1
  Sizes = {2}
  MaxProcs = 3
  MaxGiven = 1
  Strategies = {2}
  Vectors = {"timer"}
INVARIANTS
  TypeOK
  HeapStands
  NoDanglingVector
PROPERTIES
  MemoryComesBack
