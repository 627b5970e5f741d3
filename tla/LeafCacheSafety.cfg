SPECIFICATION CacheSpec
CONSTANTS
  a = a
  b = b
  c = c
  nobody = nobody
  Threads = {t1, t2}
  Names <- ClientNames
  Hosts = {a, b, c, nobody}
  Canon <- ClientCanon
  EmptyHost = nobody
  NoCert = NoCert
  MaxEntries = 2
  Lifetime = 1
  MaxClock = 3
SYMMETRY ThreadSymmetry
INVARIANTS BoundedWhileNamed RightHost
PROPERTIES LeafStable
