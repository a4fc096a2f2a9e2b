\* Three handlers at a time: one user, two photos, three files.
SPECIFICATION Spec
CONSTANTS
  Users = {u1}
  Photos = {p1, p2}
  Files = {f1, f2, f3}
  Descriptions = {d1, d2}
  Requests = {r1, r2, r3}
  None = none
  MaxInFlight = 3
SYMMETRY Symmetry
INVARIANTS
  PhotosTypeOK
  NoBrokenLinks
  NoStrayFiles
