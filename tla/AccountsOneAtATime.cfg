\* One handler at a time: a user and an admin, two addresses, two links, two refresh tokens.
SPECIFICATION Spec
CONSTANTS
  Users = {u1, a1}
  Emails = {e1, e2}
  Tokens = {1, 2}
  Sessions = {s1, s2}
  Requests = {r1}
  None = none
  Staff = {a1}
  Managed = {u1}
  MaxInFlight = 1
SYMMETRY Symmetry
INVARIANTS
  AccountsTypeOK
  VerifiedMeansConfirmed
  OneLinkPerPurpose
  DeletedStayNameless
  LoggedOutStaysOut
PROPERTIES
  OnlyTheLatestLinkWorks
