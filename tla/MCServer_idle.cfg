SPECIFICATION LiveSpec
CONSTANTS
  StoreKind = "postgres"
  u1 = u1
  u2 = u2
  Users = {u1}
  Conns = {c1}
  Owner <- OneOwner
  IdleTimeout = 1
  Reviews = {v1}
INVARIANTS TypeOK CountIsExact
PROPERTIES CondemnsOnlyTheIdle SessionEnds  ReviewEnds
