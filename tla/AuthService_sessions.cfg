SPECIFICATION Spec
CONSTANTS
  ann = ann  bob = bob  r1 = r1  r2 = r2  c1 = c1  c2 = c2
  Users = {ann, bob}
  Admins = {ann}
  DirectoryUsers = {bob}
  Protected = {ann}
  SignedIn = {bob}
  Requests = {r1, r2}
  Codes = {c1}
  MaxRequests = 3
  MaxSetups = 3
SYMMETRY Symmetry
INVARIANT SessionsStayEnded
CHECK_DEADLOCK FALSE
