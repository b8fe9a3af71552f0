CONSTANTS
  Hashes = {h1, h2}
  Peers = {p1, p2}
  MaxConn = 2
  MaxCopies = 2
SYMMETRY Symmetry
SPECIFICATION Spec
INVARIANT GotFileMeansWritten
