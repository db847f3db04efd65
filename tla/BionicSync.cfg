CONSTANTS
  t1 = t1  t2 = t2  t3 = t3  o1 = o1  o2 = o2  o3 = o3  o4 = o4
  m1 = m1  c1 = c1  r1 = r1
  Threads = {t1, t2, t3}
  Objects = {o1, o2, o3, o4}
  Mutexes = {m1}
  Rwlocks = {r1}
  Conds = {c1}
  Static = Static
SPECIFICATION Spec
SYMMETRY Symmetry
INVARIANTS MutualExclusion ReachedThroughWord ObjectsOwnedOnce
