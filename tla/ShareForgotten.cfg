SPECIFICATION Spec
CONSTANTS
  own = own
  relayed = relayed
  None = None
  Pictures = {own, relayed}
  Relayed = {relayed}
  Tokens = {1, 2, 3, 4, 5}
  Mixes <- MCDeaths
INVARIANT SweepRecovers
\* The bounds run out.
CHECK_DEADLOCK FALSE
