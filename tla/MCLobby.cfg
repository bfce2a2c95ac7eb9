SPECIFICATION FairSpec
CONSTANTS
  ann = ann
  bob = bob
  guest = guest
  Users = {ann, bob, guest}
  None = None
  SocketIds = {1, 2, 3}
  home = home
  away = away
  Addresses = {home, away}
  AddressOf <- MCAddressOf
  MaxRooms = 2
  MaxRoomsPerIp = 1
  MaxGraceRoomsPerIp = 2
  Chips <- MCChips
  RatingOf <- MCRatings
  Guests = {guest}
  WindowStart = 1
  WindowStep = 1
  WindowOpen = 2
  MaxOutgoing = 1
  OfferIds = {1, 2, 3}
INVARIANTS
  NobodyWaitsBesideAMatch
  OffersAreNotified
PROPERTIES
  PlacesAreLostForARoom
  WaitersMeet
