CONSTANTS
  Names = {s1, s2, s3}
  Groups = {wifi, teachers}
  Wifi = wifi
  Vlans = {v10}
  None = None
  MaxSsids = 3
SPECIFICATION Spec
INVARIANTS NoStrangerAdmitted EntitledIsAdmitted PreviewDenialIsTrue PreviewIsExact
\* One request: the server is done with its answer.
CHECK_DEADLOCK FALSE
