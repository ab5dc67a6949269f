SPECIFICATION Spec
CONSTANTS
  anna = anna
  olga = olga
  omar = omar
  Nobody = Nobody
  NoRequest = NoRequest
  NoTicket = NoTicket
  ExternalId = {anna, olga, omar}
  Operators = {olga, omar}
  Requests = {r1, r2, r3}
  Threads = 3
  Faults = {}
  InitialUsers <- TwoUsers
  InitialTickets <- NoRows
  Inputs <- RacingOpenings
  SubOf <- SubIsProfileId
INVARIANT EverybodyCanOpenTickets
