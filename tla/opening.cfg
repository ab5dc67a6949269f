SPECIFICATION Spec
CONSTANTS
  anna = anna
  olga = olga
  omar = omar
  Nobody = Nobody
  NoRequest = NoRequest
  NoTicket = NoTicket
  ExternalId = {anna, olga, omar}
  Operators = {olga, omar}
  Requests = {r1, r2, r3, r4}
  Threads = 3
  Faults = {"database", "crash", "userService"}
  InitialUsers <- TwoUsers
  InitialTickets <- NoRows
  Inputs <- OpenInputs
  SubOf <- SubIsProfileId
SYMMETRY Symmetry
INVARIANTS
  MyTicketsAreListed
