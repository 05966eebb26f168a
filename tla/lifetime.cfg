SPECIFICATION FairSpec
CONSTANTS
  d1 = d1
  l1 = l1
  r1 = r1
  s1 = s1
  p1 = p1
  j1 = j1
  j2 = j2
  g1 = g1
  s2 = s2
  w1 = w1
  ui = ui
  Devices = {d1}
  Workers = {w1}
  Overlay = ui
  Games = {g1}
  Records = {p1}
  Jobs = {j1, j2}
  Lists = {l1}
  Replacements = {r1}
  Sets = {s1, s2}
  DeviceOf <- MCDeviceOf
  RetireFrames = 2
  Window = 1
  MaxFrame = 2
  Allowed = {}
  Null = Null
CHECK_DEADLOCK FALSE
INVARIANT GpuObjectsAlive
INVARIANT NothingOutlivesDevice
PROPERTY TeardownEnds
