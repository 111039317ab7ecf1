SPECIFICATION Spec
CONSTANTS
  f1 = f1
  f2 = f2
  media = media
  home = home
  docs = docs
  Files = {f1}
  Jobs = {media, home, docs}
  Under <- SharedPath
  Mirrors = {media, docs}
  MaxStamp = 2
  MaxNum = 2
INVARIANTS
  TypeOK
  SessionsAddUp
  NoTombstoneOfLiveFile
CHECK_DEADLOCK FALSE
