SPECIFICATION ReadSpec
CONSTANTS
  anna = anna
  olga = olga
  omar = omar
  Nobody = Nobody
  NoRequest = NoRequest
  NoTicket = NoTicket
  NoSub = NoSub
  NoRead = NoRead
  ExternalId = {anna, olga, omar}
  Subject = {anna, olga, omar}
  Operators = {olga, omar}
  Requests = {r1}
  Threads = 1
  Faults = {}
  InitialUsers <- KnownUsers
  InitialTickets <- KnownTickets
  Inputs <- WriteInputs
  SubOf <- SubIsProfileId
  Sessions = {c1}
  ReadInputs <- TokenInputs
  MaxReads = 1
INVARIANT ValidTokensAreGivenTheList
