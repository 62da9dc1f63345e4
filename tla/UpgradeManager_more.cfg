SPECIFICATION Spec
CONSTANTS
  r1 = r1  r2 = r2  adm = adm  usr = usr  rel1 = rel1  rel2 = rel2  c1 = c1  nobody = nobody  None = None
  Replicas = {r1}
  Users = {adm, usr}
  Admins = {adm}
  NoUser = nobody
  Releases = {rel1}
  Charts = {c1}
  MaxGrants = 2
  MaxRequests = 4
  MaxEvents = 1
  Uploaders = {usr}
  Slots = {1, 2}
  Masked = {usr}
  Critical <- Crit
INVARIANT TypeOK
PROPERTY CriticalNeedsAdmin
CHECK_DEADLOCK FALSE
