\* A terminal and a browser; a keyboard with two failing writes, one fallback, one edit, one crash.
CONSTANTS
  konsole = konsole
  firefox = firefox
  NoWindow = NoWindow
  Broken = Broken
  Window = {konsole, firefox}
  Terminal = {konsole}
  Uncoded = {"plain"}
  Fallbacks = 1
  MaxQueue = 1
  MaxFaults = 2
  MaxEdits = 1
  MaxCrashes = 1
SPECIFICATION Spec
INVARIANTS
  NothingHeld
  OnlyWholeShortcuts
  ContextIsCurrent
PROPERTY
  ActionsEnd
