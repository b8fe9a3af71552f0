CONSTANTS
  Hashes = {h1, h2, h3}
  Peers = {p1, p2, p3}
  MaxConn = 2
  MaxCopies = 2
SYMMETRY Symmetry
SPECIFICATION Spec
INVARIANTS
  TypeOK
  SlotsExact
  OneConnPerPeer
  HashListedOnce
  ListedIsNeeded
  FoundExact
PROPERTY
  NeverSilent
