SPECIFICATION Spec
CONSTANTS
  p = p
  c = c
  p1 = p1
  p2 = p2
  c1 = c1
  v = v
  v1 = v1
  a = a
  Graphics = {"pixel"}
  Compute = {"compute"}
  Slots <- MCSlots
  Pipelines = {p, c}
  StageOf <- MCStageOf
  Replacements = {p1, p2, c1}
  Original <- MCOriginal
  Binds <- MCBinds
  Objects = {a}
  Counts = {2}
  Allowed = {}
  Null = Null
INVARIANT NoStrayObject
PROPERTY GameUnaffected
PROPERTY OffAtNextDraw
INVARIANT FrameEndsWithGameBindings
