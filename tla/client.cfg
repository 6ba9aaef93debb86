SPECIFICATION ClientSpec
CONSTANTS
  c1 = c1
  c2 = c2
  u1 = u1
  u2 = u2
  u3 = u3
  t1 = t1
  t2 = t2
  n1 = n1
  p1 = p1
  p2 = p2
  Calls = {c1, c2}
  NoCall = NoCall
  Configs <- MCConfigs
  Retries = 1
  Users = {u1, u2, u3}
  Nobody = Nobody
  RoleOf <- MCRoleOf
  SecondFactor = {u2}
  Tabs = {t1, t2}
  Opens <- MCOpens
  Secrets = {s1, s2}
  Devices = {d1}
  None = None
  Notes = {n1}
  Polls = {p1, p2}
  Errors = 1
  Attempts = 2
  Failures <- MCFailures
INVARIANTS
  AppliedOnce
  InflightIsLive
  ShownIsSignedIn
  EnabledSecretIsScanned
PROPERTIES
  CallsSettle
  BadgeCatchesUp
