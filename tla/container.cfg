CONSTANTS
  Configs <- SomeConfigs
  Accounts = {a1, a2, a3}
  Certs = {k1, k2}
  Admin = Admin
  None = None
  Wait = 1
SPECIFICATION Spec
INVARIANTS TypeOK
PROPERTIES Recovers NoDaemonStaysDead LostTrustIsNoticed RecordFollowsHost LeaveIsHonest KeepsItsPhases
