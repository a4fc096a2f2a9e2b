\* Two handlers at a time: one user, two addresses, two links, three refresh tokens.
SPECIFICATION Spec
CONSTANTS
  Users = {u1}
  Emails = {e1, e2}
  Tokens = {1, 2}
  Sessions = {s1, s2, s3}
  Requests = {r1, r2}
  None = none
  Staff = {}
  Managed = {}
  MaxInFlight = 2
SYMMETRY Symmetry
INVARIANTS
  OneSessionPerLogin
  VerifiedMeansConfirmed
