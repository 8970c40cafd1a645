\* A shared node, one with side buttons only and one with the pointer only; one
\* side button; one edit, one unplug and one crash in any order.
CONSTANTS
  pointer = pointer
  thumb = thumb
  wheel = wheel
  back = back
  Broken = Broken
  Node = {pointer, thumb, wheel}
  SideNode = {pointer, thumb}
  MotionNode = {pointer, wheel}
  Button = {back}
  SideButton = {back}
  MaxEdits = 1
  MaxUnplugs = 1
  MaxCrashes = 1
SPECIFICATION Spec
INVARIANTS
  RemappedNeverNative
  GrabOnlyForSideButtons
PROPERTIES
  KeepsMonitorContract
  WaitingDaemonStarts
  StaleMonitorsClose
