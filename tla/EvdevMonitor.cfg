\* A shared interface: one primary and one side button on the node that moves
\* the pointer, and a kernel buffer that two events fill.
CONSTANTS
  left = left
  back = back
  Button = {left, back}
  SideButton = {back}
  Shared = TRUE
  BufferSize = 2
  Faults = {"write", "foreign grab"}
SPECIFICATION Spec
INVARIANTS
  PointerNeverSwallowed
  AllOrNothing
  RelayFaithful
PROPERTIES
  RelayKeepsUp
  DeadNodeReleased
  ImplementsContract
