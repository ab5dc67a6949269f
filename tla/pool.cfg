SPECIFICATION PoolFairSpec
CONSTANTS
  anna = anna
  olga = olga
  omar = omar
  Nobody = Nobody
  NoRequest = NoRequest
  NoTicket = NoTicket
  ExternalId = {anna, olga, omar}
  Operators = {olga, omar}
  Requests = {r1, r2, r3}
  Threads = 2
  PoolSize = 1
  Hanging = {"userService", "notifications"}
  Faults = {"crash", "database", "userService", "notifications"}
  InitialUsers <- KnownUsers
  InitialTickets <- KnownTickets
  Inputs <- PoolInputs
  SubOf <- SubIsProfileId
INVARIANTS
  ConnectionsAreGivenBack
  NotificationsAreTrue
  NotifiedAtMostOnce
  
PROPERTIES
  AnsweredUnlessHung
  ImplementsHelpDesk
  WorkRunsOut
