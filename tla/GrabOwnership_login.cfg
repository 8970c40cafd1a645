SPECIFICATION Spec
CONSTANTS
  Installed = TRUE
  SlowSystemd = FALSE
  GuiMayCrash = FALSE
  MaxCrashes = 0
  MaxDialogs = 0
  MaxRestarts = 0
INVARIANT SingleOwner
CHECK_DEADLOCK FALSE
