SPECIFICATION BenchSpec
CONSTANTS
  Benches = {"vector", "owners", "fields", "vectors", "triples", "trees", "damaged", "wide",
             "scalars", "maps", "nested", "long"}
  Byte = {0, 1}
  Zero = 0
  Junk = Junk
  InitialSize = 2
  MinAlign = 2
  MaxSize = 3
  MaxLen = 2
  Vectors = {v1, v2}
  Boxes = {d1, d2}
  Blocks = {b1, b2}
  Allocators = {a1, a2}
  NoBlock = NoBlock
  Default = Default
  Nobody = Nobody
  StructSize = 8
  StructAlign = 4
  Schema <- DamagedSchema
  max_depth = 2
  max_tables = 3
  Is64Aware = FALSE
  ForceDefaults = FALSE
  DedupVtables = TRUE
  Chars <- DamagedChars
  Numbers = {7}
  Identifier <- RKNN
  MaxObjects = 2
  MaxFields = 2
  MaxElements = 0
  Damage = {0, 2, 255}
INVARIANTS
  OneHolder
  BackToItsMaker
  BuildersReadBack
  BuildersInPlace
  BuildersShare
  VerifiersAccept
  AcceptedIsSafe
  FlexReadsBack
PROPERTIES
  ActsAsTwoStacks
CHECK_DEADLOCK FALSE
