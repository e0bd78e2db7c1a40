\* Two required and four optional hooks: every subset of the optional ones
\* may fail, and the loader may stop at the first or at a later required one.
SPECIFICATION Spec
CONSTANTS
  Required = 2
  Optional = 4
INVARIANTS
  TypeOK
  ReleasedAll
  NothingOutlivesItsObject
  RequiredDecide
CHECK_DEADLOCK FALSE
