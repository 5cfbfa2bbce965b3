\* Two delayed and two periodic jobs share the counter.
SPECIFICATION Spec
CONSTANTS
  Onces = {o1, o2}
  Repeats = {r1, r2}
  MaxIds = 6
PROPERTY CancelHitsOwn
CHECK_DEADLOCK FALSE
