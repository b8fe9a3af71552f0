CONSTANTS
  Hashes = {h1, h2, h3}
  Has = {h1, h2}
  Peers = {p1, p2, p3}
  MaxConn = 2
  MaxUploaded = 4
SPECIFICATION Spec
INVARIANTS
  TypeOK
  OneUploadPerPeer
  SlotsCoverUploads
