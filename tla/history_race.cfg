SPECIFICATION Spec
CONSTANTS
  anna = anna
  olga = olga
  omar = omar
  Nobody = Nobody
  NoRequest = NoRequest
  NoTicket = NoTicket
  ExternalId = {anna, olga, omar}
  Operators = {olga, omar}
  Requests = {r1, r2}
  Threads = 2
  Faults = {}
  InitialUsers <- TwoUsers
  InitialTickets <- AnnasTicket
  Inputs <- RacingUpdates
  SubOf <- SubIsProfileId
INVARIANT HistoryIsChain
