\* Two accounts and two addresses, one row of the outbox at a time: an address
\* is given to another player, an account comes back, and both queues overflow.
CONSTANTS
  Addr = {a1, a2}
  Acct = {p1, p2}
  Free = Free
  MaxPending = 2
  MaxEvents = 2
  BatchLimit = 1
  MaxMatches = 2
  MaxScore = 2
  MaxJoins = 2
SPECIFICATION FairResultSpec
INVARIANTS ResultTypeOK CompletedIsExact RecordsAreOwned
PROPERTIES ImplementsAccountCredit StoredUntilAcknowledged ResultsArrive
