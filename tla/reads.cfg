SPECIFICATION ReadSpec
CONSTANTS
  anna = anna
  olga = olga
  omar = omar
  Nobody = Nobody
  NoRequest = NoRequest
  NoTicket = NoTicket
  NoSub = NoSub
  NoRead = NoRead
  ExternalId = {anna, olga, omar}
  Subject = {anna, olga, omar}
  Operators = {olga, omar}
  Requests = {r1, r2}
  Threads = 2
  Faults = {"database", "crash"}
  InitialUsers <- KnownUsers
  InitialTickets <- KnownTickets
  Inputs <- WriteInputs
  SubOf <- SubIsProfileId
  Sessions = {c1}
  ReadInputs <- AllReads
  MaxReads = 2
INVARIANTS
  HistoryExplainsShownStatus
  AnsweredRowsAreListed
PROPERTY AsciiTokensAreServed
