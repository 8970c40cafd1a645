CONSTANTS
  Mouse <- MCMouse
  Button <- MCButton
  Inferred <- MCInferred
  Node <- MCNode
  Compatible <- MCCompatible
  Nobody = Nobody
  Missing = Missing
  Garbled = Garbled
  MaxSaves = 3
SPECIFICATION Spec
INVARIANTS
  RemapsOnlyProven
  ParametersFit
  TableIsWhole
PROPERTY
  SavedAsShown
