SPECIFICATION Spec
CONSTANTS
  m1 = m1
  m2 = m2
  a1 = a1
  a2 = a2
  Managers = {m1, m2}
  Admins = {a1, a2}
  None = None
  kReservationChunkSize = 8
  kSizeDummyEntry = 2
  Den = 10
  SizeMod = 64
  Setups <- AllSetups
INVARIANTS TypeOK SplitExact NoSpike PlaceholdersCounted ReservationTracks
