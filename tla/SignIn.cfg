SPECIFICATION MCSpec
CONSTANTS
  ann = ann  bob = bob  r1 = r1  r2 = r2  c1 = c1  c2 = c2
  Users = {ann, bob}
  Admins = {ann}
  DirectoryUsers = {bob}
  Protected = {ann}
  SignedIn = {bob}
  Requests = {r1, r2}
  Codes = {c1}
  MaxRequests = 3
  MaxSetups = 3
  KeyUsers = {ann}
  OtherMethod = {ann}
  Keys = {k1}
  Ceremonies = {1, 2, 3}
  Attempts = {a1, a2}
  CounterPolicy = "deny"
  MaxSigns = 2
  MaxHandles = 1
  MaxSaves = 1
SYMMETRY Symmetry
INVARIANTS SecondFactorGiven EnabledWasProven EndedUnlessRaced CeremonyTriedOnce RevokedSignsNobodyIn
CHECK_DEADLOCK FALSE
