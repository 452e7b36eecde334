SPECIFICATION PublishSpec
CONSTANTS
  Publishers = {p1, p2}
  Stamps = {t1, t2}
  NoDirectory = NoDirectory
  MaxPowerLosses = 1
INVARIANT PublicationIsAtomic
PROPERTY PublishedIsKept
CHECK_DEADLOCK FALSE
