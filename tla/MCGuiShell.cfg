CONSTANTS
  Output <- MCOutput
  Number <- MCNumber
  Dense = {"eDP-1"}
  Similar <- MCSimilar
  Scale <- MCScale
  Unknown = Unknown
  MaxOrders = 2
  MaxChanges = 2
SPECIFICATION Spec
PROPERTIES
  WindowReachable
  ScaleSettles
  OrdinaryNotDoubled
