SPECIFICATION Spec
CONSTANTS
  Envs = {"a", "b", "c"}
  First = "a"
  UserPages <- Layout
  ReadOnly = {"text"}
  Image <- LayoutImage
  Stack = "stack"
  Values = {0, 1}
  NFrames = 5
INVARIANTS
  TypeOK
  RefcountsAreExact
  SharedIsReadOnly
  FaultsAreHandled
PROPERTIES
  ImplementsForkByCopy
CHECK_DEADLOCK FALSE
