\* Two adders, a history of two flows: the map is purged at its fifth key.
\* The window is shorter than the clock's range, so that entries expire and an
\* adder can be overtaken by a purge; six adds are one more than the keys.
SPECIFICATION Spec
CONSTANTS
  Adders = {a1, a2}
  Keys = {k1, k2, k3, k4, k5}
  Cap = 2
  Window = 1
  MaxTime = 3
  MaxAdds = 6
SYMMETRY Interchangeable
INVARIANTS
  TypeOK
  RetainsNewest
  AdmittedAreSpaced
  DedupHoldsOneWindow
PROPERTY SuppressedHasTwin
CHECK_DEADLOCK FALSE
