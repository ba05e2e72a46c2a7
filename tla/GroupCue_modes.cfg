CONSTANTS
  c1 = c1
  c2 = c2
  c3 = c3
  Child = {c1, c2, c3}
  NoCue = NoCue
  Length <- ShortAndLong
  Shows <- OneOfEachKind
  MaxActs = 4
SPECIFICATION Spec
INVARIANTS
  PlaylistExclusive
  OncePerRound
PROPERTIES
  LostOnlyByClock
  GoFiresShownChild
  CancelledAdvanceStays
  Settles
