-------------------------- MODULE HelpDeskInvariants --------------------------
(***************************************************************************)
(* The inductive invariant behind the safety properties of HelpDesk: what   *)
(* each thread may rely on at each step of its handler, although the tables *)
(* change under it.                                                         *)
(***************************************************************************)
EXTENDS HelpDesk

\* Steps that only a handler with a given request reaches.
ThreadOK(r) ==
  LET th == thread[r]
      q == th.req
  IN
  /\ th.pc # "idle" => q \in Inputs
  /\ th.pc \in {"findUser", "saveUser", "saveTicket"} =>
       q.op = "createTicket" /\ q.caller \in ExternalId
  /\ th.pc = "saveTicket" => th.creatoDa \in DOMAIN userTable
  /\ th.pc = "saveAssignment" => q.op = "assegnaOperatore"
  /\ th.pc \in {"saveHistory", "saveStatus"} =>
       q.op = "updateTicketStatus" /\ q.caller \in ExternalId /\ q.stato \in TicketStatus
  /\ th.pc = "saveMessage" => q.op = "sendMessage" /\ q.caller \in ExternalId
  /\ th.pc \in {"notify", "posted"} =>
       q.op \in {"updateTicketStatus", "sendMessage"} /\ q.caller \in ExternalId

ThreadsOK == \A r \in Requests : ThreadOK(r)

\* Whether the handler of r has loaded a ticket and is still running.
HoldsTicket(r) ==
  \/ thread[r].pc \in {"saveAssignment", "saveHistory", "saveStatus", "saveMessage",
                       "notify", "posted"}
  \/ thread[r].pc = "profile" /\ thread[r].req.op # "createTicket"

\* The Ticket entity of a running handler agrees with its row in all but the
\* status.  This is why a write of the whole row from an old entity destroys no
\* more than a status.
EntityOK(r) ==
  LET ticket == thread[r].ticket
      t == thread[r].req.ticketId
  IN
  HoldsTicket(r) =>
    /\ t \in DOMAIN ticketTable
    /\ ticket \in TicketRow
    /\ ticket.creatoDa = ticketTable[t].creatoDa
    /\ ticket.assegnatoA = ticketTable[t].assegnatoA

EntitiesOK == \A r \in Requests : EntityOK(r)

\* The status in the entity of a running handler was one of the ticket's, and
\* before an update writes its ticket, its history row is there.
HeldStatusOK(r) ==
  LET t == thread[r].req.ticketId IN
  /\ HoldsTicket(r) => thread[r].ticket.ticketStatus \in SeenBefore(t, Rows + 1)
  /\ thread[r].pc = "saveStatus" =>
       \E i \in historyOf(t) : historyTable[i].statoSuccessivo = thread[r].req.stato

\* What updateTicketStatus is about to copy into its two rows is always
\* recorded, whoever changed the ticket since it was read.
HeldStatusesOK == \A r \in Requests : HeldStatusOK(r)

\* No ticket is ever deleted.
FirstTicketsStay == DOMAIN InitialTickets \subseteq DOMAIN ticketTable

\* Inductive on its own.
TypeInv == TypeOK /\ ThreadsOK /\ EntitiesOK

\* Inductive given TypeInv.
StatusInv ==
  /\ FirstTicketsStay
  /\ HeldStatusesOK
  /\ StatusIsRecorded
  /\ HistoryIsExplained

-----------------------------------------------------------------------------
(* What a request inserted. *)

\* A handler inserts its row once and remembers its key; the row says what the
\* request asked for, and the ticket of a createTicket is the caller's.
SavedOK(r) ==
  LET th == thread[r]
      q == th.req
  IN
  /\ th.pc \notin {"saveStatus", "notify", "posted", "done"} => th.saved = NoId
  /\ th.pc \in {"saveStatus", "notify", "posted"} => th.saved # NoId
  /\ th.pc # "done" => th.answer = "none"
  /\ th.answer \in Refusals => th.saved = NoId
  /\ Succeeded(r) => th.saved # NoId
  /\ th.pc = "saveTicket" => userTable[th.creatoDa].externalId = q.caller
  /\ th.pc \in {"notify", "posted"} /\ q.op = "updateTicketStatus" => th.ticket.ticketStatus = q.stato
  /\ th.saved # NoId =>
       \/ /\ q.op = "createTicket"
          /\ th.saved \in DOMAIN ticketTable
          /\ userTable[ticketTable[th.saved].creatoDa].externalId = q.caller
       \/ /\ q.op = "updateTicketStatus"
          /\ th.saved \in DOMAIN historyTable
          /\ historyTable[th.saved].ticket = q.ticketId
          /\ historyTable[th.saved].statoSuccessivo = q.stato
          /\ historyTable[th.saved].modificatoDa = q.caller
       \/ /\ q.op = "sendMessage"
          /\ th.saved \in DOMAIN messageTable
          /\ messageTable[th.saved].ticket = q.ticketId
          /\ messageTable[th.saved].autoreId = q.caller

\* No two requests of a kind share a row.
SavedApart ==
  \A op \in Op, r, s \in Requests :
    Asks(r, op) /\ Asks(s, op) /\ r # s /\ thread[r].saved = thread[s].saved
      => thread[r].saved = NoId

\* Each history row and each message is some request's.
RowsHaveRequests ==
  /\ \A i \in DOMAIN historyTable :
       \E r \in Requests : Asks(r, "updateTicketStatus") /\ thread[r].saved = i
  /\ \A m \in DOMAIN messageTable :
       \E r \in Requests : Asks(r, "sendMessage") /\ thread[r].saved = m

\* Inductive given TypeInv.
RowInv == (\A r \in Requests : SavedOK(r)) /\ SavedApart /\ RowsHaveRequests

-----------------------------------------------------------------------------
(* Who is told. *)

\* The requests whose POST has left.
Posted == underway \cup {delivered[k] : k \in DOMAIN delivered}

\* The entity of a request that inserted a history row or a message still agrees
\* with its ticket, so what it sends does not change any more.
KeptOK(r) ==
  LET ticket == thread[r].ticket
      t == thread[r].req.ticketId
  IN
  thread[r].req.op \in {"updateTicketStatus", "sendMessage"} /\ thread[r].saved # NoId =>
    /\ t \in DOMAIN ticketTable
    /\ ticket.creatoDa = ticketTable[t].creatoDa
    /\ ticket.assegnatoA = ticketTable[t].assegnatoA

\* A POST leaves once, late in its handler.
PostedOK(r) ==
  /\ thread[r].pc \in {"posted", "done"}
  /\ thread[r].req.op \in {"updateTicketStatus", "sendMessage"}
  /\ thread[r].saved # NoId
  /\ thread[r].req.op = "updateTicketStatus" => thread[r].ticket.ticketStatus = thread[r].req.stato

\* Inductive given TypeInv and RowInv.
MailInv ==
  /\ \A r \in Requests : KeptOK(r)
  /\ \A r \in Posted : PostedOK(r)
  /\ \A k, l \in DOMAIN delivered : delivered[k] = delivered[l] => k = l
  /\ \A k \in DOMAIN delivered : delivered[k] \notin underway

\* What was over when a request was taken is over.
EarlierOver == \A r \in Requests : thread[r].earlier \subseteq Over

\* Inductive given TypeInv, RowInv, MailInv and EarlierOver.
ToldInv ==
  /\ \A r \in Requests : thread[r].pc = "posted" => r \in Posted
  /\ ToldBeforeAnswered

-----------------------------------------------------------------------------
(* How old a status can be. *)

Updates(r, t) == Asks(r, "updateTicketStatus") /\ thread[r].req.ticketId = t

\* The updates of ticket t that have written it, or found nothing to write, and
\* have not failed since.
Settled(t) ==
  {a \in Requests : Updates(a, t) /\ (thread[a].pc \in {"notify", "posted"} \/ Succeeded(a))}

\* The updates of t that hold an entity whose status has been replaced.
Outdated(t) ==
  {a \in Requests :
     /\ Updates(a, t)
     /\ thread[a].pc \in {"profile", "saveHistory", "saveStatus"}
     /\ thread[a].ticket.ticketStatus # ticketTable[t].ticketStatus}

\* The status of a ticket is no older than any of these: the outdated ones are
\* included because a save of an unchanged entity writes nothing, but settles.
StatusIsUpToDate ==
  \A t \in DOMAIN ticketTable :
    MayFind(t, ticketTable[t].ticketStatus, Rows + 1, Settled(t) \cup Outdated(t))

\* So is what a handler has read, as far as its client can know.
EntitiesAreUpToDate ==
  \A r \in Requests :
    LET t == thread[r].req.ticketId IN
    Asks(r, "updateTicketStatus") /\ thread[r].pc \in {"profile", "saveHistory"} =>
      MayFind(t, thread[r].ticket.ticketStatus, Rows + 1, SuccessfulUpdates(t, thread[r].earlier))

\* Inductive given TypeInv, RowInv and EarlierOver.
UpToDateInv == StatusIsUpToDate /\ EntitiesAreUpToDate /\ HistoryIsUpToDate
=============================================================================
