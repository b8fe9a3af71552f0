CONSTANTS
  Nodes = {n1, n2, n3, n4}
  Lists = {"tosend", "sent", "downloading", "uploading", "uploaded"}
  NULL = NULL
  Peers = {p1, p2}
  MaxConn = 3
SYMMETRY Symmetry
SPECIFICATION Spec
INVARIANTS
  TypeOK
  ListsSound
  NoCrash
  OneGetPerPass
  PassesComplete
