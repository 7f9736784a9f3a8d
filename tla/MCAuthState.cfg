\* Two users, two sessions, two calls in the air, a page that changes its
\* identity up to four times.
CONSTANTS
  User = {u1, u2}
  Token = {t1, t2}
  Call = {c1, c2}
  MaxVersion = 4
  NoUser = NoUser
  NoToken = NoToken
SPECIFICATION Spec
INVARIANTS
  IdentityIsConsistent
  LogoutForgetsToken
  StreamsAreCurrent
PROPERTIES
  OnlyRevokedIdentityCleared
  LoadingEnds
