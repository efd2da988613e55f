CONSTANTS
  alice = alice
  bob = bob
  a1 = a1
  b1 = b1
  Users <- MCUsers
  Clients <- MCClients
  UserOf <- MCUserOf
  Names <- MCNames
  Setups <- MCSetups
  Losses <- MCLosses
CHECK_DEADLOCK FALSE
SPECIFICATION FairSpec
INVARIANTS InOrder ContactsAsTold LogsAgree RegisteredOnce
PROPERTY WaitersAnswered
