CONSTANTS
  c1 = c1  c2 = c2  k1 = k1  k2 = k2  v1 = v1  v2 = v2  e1 = e1  e2 = e2
  Client = {c1, c2}
  Key = {k1, k2}
  Value = {v1, v2}
  Nil = Nil
  Command <- MCCRDT
  Queued <- MCCRDT
  MaxCmds = 5
  MaxQueue = 2
SPECIFICATION Spec
INVARIANT EffectHasItsArguments
