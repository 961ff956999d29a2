SPECIFICATION Spec
CONSTANTS
  Tabs = {t1, t2}
  f1 = f1
  f2 = f2
  Flows = {f1, f2}
  Sessions = {s1, s2}
  Codes = {c1}
  Users = {u1}
  Pushed <- PushedInstance
  IalMaxOf <- IalMaxInstance
  AcrsOf <- AcrsInstance
  None = None
INVARIANTS
  TypeOK
  CodesMeetRequest
PROPERTIES
  RequestsSingleUse
  ImplementsSignIn
  NoRedirectLoop
CHECK_DEADLOCK FALSE
