SPECIFICATION Spec
CONSTANTS
  f1 = f1
  f2 = f2
  media = media
  home = home
  docs = docs
  Files = {f1, f2}
  Jobs = {media}
  Under <- MediaPaths
  Mirrors = {media}
  MaxStamp = 2
  MaxNum = 3
INVARIANTS
  FullIsComplete
CHECK_DEADLOCK FALSE
