SPECIFICATION Spec
CONSTANTS
  g = g
  c = c
  L1 = L1
  L2 = L2
  T1 = T1
  T2 = T2
  Pipelines = {g, c}
  Compute = {c}
  Layouts = {L1, L2}
  LayoutOf <- MCLayoutOf
  Signatures <- MCSignatures
  BindsAt <- MCBindsAt
  Injected <- MCInjected
  InjectMode = "auto"
  Unbounded = Unbounded
  Wants <- MCWants
  Tables = {T1, T2}
  Params = {1, 2, 3, 4}
  Allowed = {}
  Null = Null
INVARIANTS
  ExtensionSound
  IndicesKept
  DescriptorsReachShader
  GameHeapsAtDraw
PROPERTY ListUnaffected
