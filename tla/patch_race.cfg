SPECIFICATION Spec
CONSTANTS
  p1 = p1
  p2 = p2
  h1 = h1
  w1 = w1
  w2 = w2
  c1 = c1
  o1 = o1
  l1 = l1
  Pipelines = {p1, p2}
  Handles = {h1}
  Handle <- OneHandle
  Workers = {w1, w2}
  Creators = {c1}
  Overlays = {o1}
  Loaders = {l1}
  MaxGen = 2
  D3D11 = TRUE
  Effect <- RaceEffects
  NoPipeline = NoPipeline
CHECK_DEADLOCK FALSE
INVARIANT TypeOK
INVARIANT CountsExact
INVARIANT OneOwner
INVARIANT NoneLost
