SPECIFICATION FairSpec
CONSTANTS
  book = book
  web = web
  friend = friend
  stranger = stranger
  Number = {friend, stranger}
  Resolver = {book, web}
  Online = {web}
  Knows <- MCKnows
  Initial <- MCInitial
  MaxRequests = 3
INVARIANTS TypeOK TokensPayForWork NoEmptyPop OnlineOnlyIfAllowed
PROPERTIES FirstMatchWins Implements EveryRequestServed ShutdownCompletes
CHECK_DEADLOCK FALSE
