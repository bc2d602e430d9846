SPECIFICATION FairSpec
CONSTANTS
  own = own
  relayed = relayed
  None = None
  Pictures = {own, relayed}
  Relayed = {relayed}
  Tokens = {1, 2, 3, 4, 5}
  Mixes <- MCMixes
INVARIANTS TypeOK Mirrored ToldIsCovered DeadShareIsBare EndsAgree
PROPERTIES FrozenSet NeverBackInTime DeliveryRecovers
\* The bounds run out.
CHECK_DEADLOCK FALSE
