CONSTANTS
  Proc = {p1, p2}
  Racers = {p1, p2, p3}
  Calls = 2
  Key = {k1}
  Free = Free
  Scopes = {"no_external_effects", "stage"}
  Attempts = 2
  Effect = {e1, e2}
  Res = {r1, r2}
  NoRes = NoRes
  Instant <- Distinct
  Amount <- Estimates
  Charge = {1, 3}
  MaxTotal = 3
  MaxPerRequest = 2
  Capped = {e1}
  Identified = {e2}
  Releasing = FALSE
SPECIFICATION MCSpec
INVARIANTS NeverOvercommitted NoSecondCall NoChargeIsLost CallsAreCovered OneReservationPerEffect
PROPERTIES UnknownBlocksGrant TerminalIsFinal
SYMMETRY Symmetry
