CONSTANTS
  t1 = t1  t2 = t2  i1 = i1  i2 = i2  p1 = p1  p2 = p2
  d1 = d1  d2 = d2  s1 = s1  s2 = s2
  Threads = {t1, t2}
  Instances = {i1, i2}
  Physicals = {p1, p2}
  Devices = {d1, d2}
  Surfaces = {s1, s2}
  Nothing = Nothing
  MaxGen = 3
SPECIFICATION Spec
SYMMETRY Symmetry
INVARIANTS
  RegistryMatchesDriver PhysicalsOnce WindowsOwnedOnce DependentsLive
