SPECIFICATION FairSpec
CONSTANTS
  p1 = p1
  p2 = p2
  w1 = w1
  main = main
  Pipelines = {p1, p2}
  Handles = {p1, p2}
  Handle <- OwnHandle
  Workers = {w1}
  Creators = {main}
  Overlays = {main}
  Loaders = {main}
  MaxGen = 3
  D3D11 = TRUE
  Effect <- ConvergeEffects
  NoPipeline = NoPipeline
CHECK_DEADLOCK FALSE
INVARIANT OwnersArePublished
PROPERTY Converges
