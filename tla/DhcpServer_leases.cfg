CONSTANTS
  h1 = h1
  h2 = h2
  h3 = h3
  Host = {h1, h2, h3}
  None = None
  Slots = 2
  Half = 8
  Coarse = 4
  LeaseTime = 3
SYMMETRY Hosts
SPECIFICATION Spec
INVARIANTS
  TypeOK
  AddressNotShared
  OfferNotInUse
  IgnoredOnlyWhenHeld
