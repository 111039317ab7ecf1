SPECIFICATION FairSpec
CONSTANTS
  o1 = o1
  o2 = o2
  p1 = p1
  k1 = k1
  k2 = k2
  s1 = s1
  d1 = d1
  d2 = d2
  Nobody = Nobody
  Ops = {o1}
  Probes = {p1}
  Tasks = {k1, k2}
  Setters = {s1}
  Devices = {d1}
INVARIANTS
  OneDescriptor
  GateAndRegistryAgree
  TaskKeepsDrive
PROPERTIES
  UsesDriveProperly
  GateIsGivenBack
  StopEndsTasks
  ShortOpsEnd
