SPECIFICATION Spec
CONSTANTS
  ydotool = ydotool
  cups = cups
  filters = filters
  core = core
  printing = printing
  Package = {ydotool, cups, filters}
  Depends <- MCDepends
  Profile = {core, printing}
  PackagesOf <- MCPackagesOf
  RuntimeCore = core
  Edition = {core, printing}
  Runtime = {ydotool}
  Protected = {}
INVARIANTS
  NothingForgotten
PROPERTIES
  PreexistingKept
  CoreKept
