SPECIFICATION Spec
CONSTANTS
  anna = anna
  olga = olga
  omar = omar
  Nobody = Nobody
  NoRequest = NoRequest
  NoTicket = NoTicket
  ExternalId = {anna, olga, omar}
  Operators = {olga, omar}
  Requests = {r1}
  Threads = 1
  Faults = {}
  InitialUsers <- TwoUsers
  InitialTickets <- AnnasTicket
  Inputs <- UpdateInputs
  SubOf <- SubIsProfileId
INVARIANT InvalidStatusIsAnswered400
