CONSTANTS
  File <- MCFile
  Known <- MCKnown
  Program <- MCProgram
  Fixed <- MCFixed
  Icons = {"entry"}
  GuiOnly <- MCGuiOnly
  Shortcuts = {"shortcut"}
  GuiParts = {"gui", "shortcut"}
  Checked = {"gui", "entry", "autostart"}
  Daemon = "daemon"
  Gui = "gui"
  Autostart = "autostart"
  OldManifests <- MCOldManifests
  MaxVersion = 2
  MaxBreaks = 1
SPECIFICATION Spec
INVARIANTS
  Accounted
  UpdateRuns
PROPERTIES
  SuccessIsComplete
  UserFilesKept
