SPECIFICATION Spec
CONSTANT
  Lines = {0, 1, 7, 8, 14}
INVARIANTS
  NeverResets
  OnlyHandledVectors
PROPERTIES
  StubsDoNotNest
  KeyboardHeard
