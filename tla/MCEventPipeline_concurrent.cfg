SPECIFICATION Spec
CONSTANTS
  zero = zero
  accounts = accounts
  tokens = tokens
  pools = pools
  alice = alice
  bob = bob
  carol = carol
  token = token
  pool = pool
  quoter = quoter
  fresh = fresh
  basket = basket
  nobody = nobody
  Address <- AllAddresses
  ZeroAddress = zero
  NoAddress = nobody
  Entries <- Indexes
  PoolIndexes <- Pools
  IndexOrder <- ReadingOrder
  Parts <- PoolParts
  Watchlist <- Watched
  Blacklist <- Barred
  Chain <- Mixed
  FirstHead = 1
  GenesisMembers <- KnownPool
  Worker = {w1, w2}
  QuietStart = FALSE
  MaxFaults = 1
  MaxRestarts = 1
  MaxExpiries = 0
SYMMETRY Alike
INVARIANTS
  TypeOK
  NoneSuppressed
  IndexedAddressesCached
  RemovedAddressesGone
PROPERTIES
  SureEventsDelivered
