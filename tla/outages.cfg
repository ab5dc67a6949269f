SPECIFICATION ApartSpec
CONSTANTS
  anna = anna
  olga = olga
  omar = omar
  Nobody = Nobody
  NoRequest = NoRequest
  NoTicket = NoTicket
  ExternalId = {anna, olga, omar}
  Operators = {olga, omar}
  Requests = {r1, r2, r3}
  Threads = 3
  Faults = {"crash", "database", "userService", "notifications"}
  InitialUsers <- TwoUsers
  InitialTickets <- AssignedTickets
  Inputs <- ApartInputs
  SubOf <- SubIsProfileId
SYMMETRY Symmetry
INVARIANTS
  OneRowPerPerson
  AcknowledgedUpdatesHold
PROPERTY ImplementsStatusJournal
