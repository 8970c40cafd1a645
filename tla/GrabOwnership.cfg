SPECIFICATION Spec
CONSTANTS
  Installed = TRUE
  SlowSystemd = TRUE
  GuiMayCrash = TRUE
  MaxCrashes = 1
  MaxDialogs = 2
  MaxRestarts = 1
INVARIANTS TypeOK PointerVisible DialogWithoutDaemon
PROPERTIES DialogReleases DaemonReturns MouseServed
CHECK_DEADLOCK FALSE
