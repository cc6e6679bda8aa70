---------------------------- MODULE AddressCache ----------------------------
(***************************************************************************)
(* src/internal/cache: the set of addresses that decides which logs and    *)
(* calls are looked at.  It lives in memory, is filled from the on-chain   *)
(* registry at start up and updated by handlers afterwards.                *)
(***************************************************************************)
EXTENDS FiniteSets

CONSTANTS Address,      \* all addresses
          ZeroAddress,  \* the zero address
          Entries,      \* what start up adds for the registry: its indexes,
                        \* its proxies and the system account it looks up
          PoolIndexes,  \* those of the entries that list pools
          Parts,        \* quoter, token index and its tokens of each pool,
                        \* the same whenever they are read
          Watchlist,
          Blacklist

ASSUME CacheAssumption ==
  /\ ZeroAddress \in Address
  /\ Entries \subseteq Address /\ PoolIndexes \subseteq Entries
  /\ Watchlist \subseteq Address /\ Blacklist \subseteq Address
  /\ Parts \in [Address -> SUBSET Address]

VARIABLE cache

AddAddress(a)    == cache' = cache \union {a}
RemoveAddress(a) == cache' = cache \ {a}
Exists(a)        == a \in cache

\* The token is cached and so is one of the two parties.  The code loads them
\* one after the other; here the answer is that of one moment.
ExistsNetwork(token, parties) == token \in cache /\ parties \cap cache # {}

(***************************************************************************)
(* bootstrapCache, call by call.  The chain goes on between the calls.     *)
(***************************************************************************)
\* The entries of the registry are read into an empty cache.
ReadRegistry == cache' = Entries \ {ZeroAddress}

\* A slip: the members of an index are not read.
ReadIndexItself(index, members) == cache' = cache \union {index}

\* The members of one index are read, those of a pool index with their parts.
ReadIndex(index, members) ==
  LET listed == members \ {ZeroAddress}
  IN  cache' = cache \union {index} \union listed
                 \union (IF index \in PoolIndexes THEN UNION {Parts[a] : a \in listed} ELSE {})

\* The configured lists are applied, the blacklist last.
ApplyLists == cache' = (cache \union Watchlist) \ (Blacklist \union {ZeroAddress})
=============================================================================
