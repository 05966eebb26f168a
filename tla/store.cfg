SPECIFICATION Spec
CONSTANTS
  a = a
  b = b
  c = c
  x = x
  w1 = w1
  w2 = w2
  Order <- MCOrder
  ModelOf <- MCModelOf
  StageOf <- MCStageOf
  Vars = {x}
  Contents <- MCContents
  Typed <- MCTyped
  Shaders <- MCShaders
  Workers = {w1, w2}
  MaxGen = 3
  Null = Null
SYMMETRY AnyWorker
INVARIANTS
  PatchIsReference
  OneResult
  ShownIsApplied
PROPERTY SavedIsRestored
