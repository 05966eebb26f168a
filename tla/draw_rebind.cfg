SPECIFICATION Spec
CONSTANTS
  p = p
  c = c
  p1 = p1
  p2 = p2
  c1 = c1
  v = v
  v1 = v1
  a = a
  Graphics = {"vertex", "pixel"}
  Compute = {}
  Slots <- MCSlots
  Pipelines = {v, p}
  StageOf <- MCStageOf
  Replacements = {v1, p1, p2}
  Original <- MCOriginal
  Binds <- MCBinds
  Objects = {a}
  Counts = {1}
  Allowed = {"rebind_slot", "release"}
  Null = Null
INVARIANT DrawnWithResources
