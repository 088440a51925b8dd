SPECIFICATION Spec
CONSTANTS
  CookieAuth = FALSE
  Roles = {"USER", "ADMIN"}
  Lifetime = 2
  MaxTime = 3
  NoCookie = NoCookie
PROPERTY CookieOpensPages
CHECK_DEADLOCK FALSE
