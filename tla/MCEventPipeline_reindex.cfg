SPECIFICATION Spec
CONSTANTS
  zero = zero
  accounts = accounts
  tokens = tokens
  pools = pools
  alice = alice
  bob = bob
  carol = carol
  token = token
  pool = pool
  quoter = quoter
  fresh = fresh
  basket = basket
  nobody = nobody
  Address <- AllAddresses
  ZeroAddress = zero
  NoAddress = nobody
  Entries <- Indexes
  PoolIndexes <- Pools
  IndexOrder <- ReadingOrder
  Parts <- PoolParts
  Watchlist <- NoAddresses
  Blacklist <- NoAddresses
  Chain <- Swapped
  FirstHead = 1
  GenesisMembers <- KnownToken
  Worker = {w1}
  QuietStart = TRUE
  MaxFaults = 0
  MaxRestarts = 0
  MaxExpiries = 0
INVARIANTS
  NoSurplus
