CONSTANTS
  Configs <- SomeConfigs
  Accounts = {a1, a2}
  Certs = {k1}
  Admin = Admin
  None = None
  Wait = 0
SPECIFICATION ConsoleSpec
PROPERTIES CrashLoopIsNotSuccess CrashLoopStands VerdictIsReached
