CONSTANTS
  t1 = t1  t2 = t2  a1 = a1  a2 = a2
  Threads = {t1, t2}
  Arenas = {a1, a2}
  MaxLoads = 2
  MaxRounds = 2
  None = None
SPECIFICATION Spec
SYMMETRY Symmetry
INVARIANTS OwnValue ArenasOwned
PROPERTIES ReservationsPermanent
