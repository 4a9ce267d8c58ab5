SPECIFICATION Spec
CONSTANTS
  Clients = {c1, c2}
  alice = alice
  bob = bob
  Names = {alice, bob}
  AdminLists <- MCAdminLists
  MaxMessages = 2
  Listener = listener
  None = none
  NULL = null
PROPERTY NameIsAnnounced
\* Once somebody keeps the mutex, or the process has ended, nothing moves.
CHECK_DEADLOCK FALSE
