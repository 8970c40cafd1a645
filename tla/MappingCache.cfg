\* Two mice and two profiles, three writes.
CONSTANTS
  mx = mx
  rog = rog
  AllDefault = AllDefault
  remapped = remapped
  Garbled = Garbled
  Missing = Missing
  Mouse = {mx, rog}
  Profile = {AllDefault, remapped}
  Refused = Refused
  MaxWrites = 3
SPECIFICATION Spec
INVARIANTS
  ActsOnTheFile
PROPERTY
  OthersKept
