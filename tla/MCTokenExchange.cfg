SPECIFICATION Spec
CONSTANTS
  Requests = {t1, t2}
  c1 = c1
  c2 = c2
  sp1 = sp1
  sp2 = sp2
  a1 = a1
  Codes = {c1, c2}
  Providers = {sp1, sp2}
  Assertions = {a1}
  SpOf <- SpOfInstance
  IssuerOf <- IssuerInstance
  Pkce = Pkce
  CodeTtl = 1
  Nobody = Nobody
INVARIANTS
  TypeOK
  SingleUse
  TokenBound
PROPERTIES
  ImplementsGrant
