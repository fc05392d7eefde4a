SPECIFICATION Spec
CONSTANTS
  Frame = {f1, f2, f3, f4}
  Low = 1
  High = 1
  PageSize = 2
  Value = {0, 1}
  rax = rax
  Others <- OneOther
  Base = rcx
  Vector = {v1, v2}
  Video = video
  None = none
SYMMETRY Symmetry
INVARIANTS
  TypeOK
  FramesApart
PROPERTY GuestSpec
CHECK_DEADLOCK FALSE
