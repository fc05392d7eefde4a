SPECIFICATION Spec
CONSTANTS
  N = 2
  Data = {0, 1}
  Entry = 0
  Late = 7
  Dead = Dead
  Lost = Lost
INVARIANT TypeOK
PROPERTY ContextSpec
