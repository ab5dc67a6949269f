------------------------------- MODULE HelpDesk -------------------------------
(***************************************************************************)
(* The whole service: TicketService and MessageService run side by side, a  *)
(* thread per request, over the same tables.  The properties are stated     *)
(* here.                                                                    *)
(***************************************************************************)
EXTENDS MessageService

CONSTANT SubOf    \* the sub claim in the token of each person

ASSUME SubAssumption == SubOf \in [ExternalId -> ExternalId]

vars == <<dbVars, thread, mailVars>>

Init == DbInit /\ RequestsInit /\ NotificationsInit

Create(r) ==
  \/ createTicket(r) \/ createTicketProfile(r) \/ createTicketFindUser(r)
  \/ createTicketSaveUser(r) \/ createTicketSaveTicket(r)

Assegna(r) ==
  assegnaOperatore(r) \/ assegnaOperatoreProfile(r) \/ assegnaOperatoreSave(r)

UpdateStatus(r) ==
  \/ updateTicketStatus(r) \/ updateTicketStatusProfile(r)
  \/ updateTicketStatusSaveHistory(r) \/ updateTicketStatusSave(r)

Message(r) == sendMessage(r) \/ sendMessageProfile(r) \/ sendMessageSave(r)

Notify(r) ==
  \/ NothingToNotify(r) \/ inviaNotifica(r)
  \/ inviaNotificaReturns(r) \/ inviaNotificaFails(r)

Surroundings(r) ==
  /\ Accept(r) \/ getUserProfileFails(r) \/ DatabaseFails(r)
  /\ UNCHANGED mailVars

Step(r) ==
  \/ Create(r) \/ Assegna(r) \/ UpdateStatus(r) \/ Message(r)
  \/ Notify(r) \/ Surroundings(r)

\* Every request has been answered: the clients of the model have no more to send.
AllAnswered ==
  /\ \A r \in Requests : thread[r].pc = "done"
  /\ UNCHANGED vars

Next ==
  \/ \E r \in Requests : Step(r) \/ Received(r)
  \/ Crash /\ UNCHANGED mailVars
  \/ AllAnswered

Spec == Init /\ [][Next]_vars

-----------------------------------------------------------------------------
(* Vocabulary of the properties. *)

Refusals == {"400", "401", "403", "404"}

Succeeded(r) == thread[r].answer \in {"200", "201"}

Asks(r, op) == thread[r].pc # "idle" /\ thread[r].req.op = op

\* The status a ticket had before any change the history table can know of.
StartStatus(t) ==
  IF t \in DOMAIN InitialTickets THEN InitialTickets[t].ticketStatus ELSE "PRESO_IN_CARICO"

\* The statuses a ticket was set to by its history rows with an id below n.
SeenBefore(t, n) ==
  {StartStatus(t)} \cup
  {historyTable[i].statoSuccessivo : i \in {j \in historyOf(t) : j < n}}

Rows == Len(historyTable)

-----------------------------------------------------------------------------
(* Safety of every instance: any interleaving, any fault.                    *)

\* Tables hold well-formed rows with valid foreign keys, and a thread holds
\* what its next step needs.
TypeOK ==
  /\ DbTypeOK
  /\ thread \in [Requests -> Thread]
  /\ underway \subseteq Requests
  /\ delivered \in Seq(Requests)

\* No status without a trace: the status of a ticket is the one it began with
\* or one that a history row records.  updateTicketStatus inserts the row
\* before it writes the ticket, in two transactions.
StatusIsRecorded ==
  \A t \in DOMAIN ticketTable : ticketTable[t].ticketStatus \in SeenBefore(t, Rows + 1)

\* The previous status a history row claims is one the ticket began with or was
\* set to by an earlier row, although it comes from an entity read before other
\* requests changed the ticket.
HistoryIsExplained ==
  \A i \in DOMAIN historyTable :
    historyTable[i].statoPrecedente \in SeenBefore(historyTable[i].ticket, i)

\* Each history row and each message was inserted by exactly one request, which
\* asked for just that; a refused request (4xx) inserted nothing, and a
\* successful one inserted its row.
EveryRowHasOneRequest ==
  /\ \A i \in DOMAIN historyTable : \E r \in Requests :
       /\ Asks(r, "updateTicketStatus")
       /\ thread[r].saved = i
       /\ historyTable[i].ticket = thread[r].req.ticketId
       /\ historyTable[i].statoSuccessivo = thread[r].req.stato
       /\ historyTable[i].modificatoDa = thread[r].req.caller
  /\ \A m \in DOMAIN messageTable : \E r \in Requests :
       /\ Asks(r, "sendMessage")
       /\ thread[r].saved = m
       /\ messageTable[m].ticket = thread[r].req.ticketId
       /\ messageTable[m].autoreId = thread[r].req.caller
  /\ \A op \in Op, r, s \in Requests :
       Asks(r, op) /\ Asks(s, op) /\ r # s /\ thread[r].saved = thread[s].saved
         => thread[r].saved = NoId
  /\ \A r \in Requests :
       /\ thread[r].answer \in Refusals => thread[r].saved = NoId
       /\ Succeeded(r) => thread[r].saved # NoId

\* None of the requests A was sent after s was over, so that what s wrote may have
\* been written after them.
NotReplaced(s, A) == \A a \in A : s \notin thread[a].earlier

\* Whether a reader of ticket t who comes after the successful updates A may find
\* v: the status it began with, if there are none, or what an update that has a
\* row below id n asked for, unless one of A came after it.
MayFind(t, v, n, A) ==
  \/ A = {} /\ v = StartStatus(t)
  \/ \E s \in Requests :
       /\ Asks(s, "updateTicketStatus")
       /\ thread[s].req.ticketId = t
       /\ thread[s].saved \in 1 .. n - 1
       /\ thread[s].req.stato = v
       /\ NotReplaced(s, A)

\* The updates of ticket t among requests E that were answered with success.
SuccessfulUpdates(t, E) ==
  {a \in E : Asks(a, "updateTicketStatus") /\ thread[a].req.ticketId = t /\ Succeeded(a)}

\* However updates overlap and whatever fails, a history row never starts from a
\* status that had been replaced for good: no update that was acknowledged before
\* its request was sent came after the one it starts from.  The entity is read
\* two calls before the row is inserted, and a save may write nothing or lose
\* what another wrote.
HistoryIsUpToDate ==
  \A r \in Requests :
    LET q == thread[r].req
        i == thread[r].saved
    IN Asks(r, "updateTicketStatus") /\ i # NoId =>
         MayFind(q.ticketId, historyTable[i].statoPrecedente, i,
                 SuccessfulUpdates(q.ticketId, thread[r].earlier))

\* What r posts is about the row it inserted and for somebody it concerns.
NotificationIsTrue(r) ==
  LET i == thread[r].saved IN
  \A n \in notifica(r) :
    LET ticket == ticketTable[n.referenceId] IN
    /\ n.type = "STATUS_UPDATE" =>
         /\ n.userId = creatore(ticket)
         /\ i \in historyOf(n.referenceId)
         /\ historyTable[i].statoSuccessivo = n.stato
         /\ historyTable[i].modificatoDa # n.userId
    /\ n.type = "NEW_MESSAGE" =>
         /\ ticket.assegnatoA # NoId
         /\ i \in messagesOf(n.referenceId)
         /\ \/ n.userId \in {creatore(ticket), assegnatario(ticket)} \ {messageTable[i].autoreId}
            \/ n.userId = creatore(ticket) /\ n.userId = assegnatario(ticket)

\* A STATUS_UPDATE tells the creator of the ticket about the history row of its
\* update, which somebody else made.  A NEW_MESSAGE is about the stored message of
\* an assigned ticket, and reaches its author only where creator and assignee are
\* one person.
NotificationsAreTrue == \A k \in DOMAIN delivered : NotificationIsTrue(delivered[k])

\* Nobody is told twice about one history row or one message, lost answers and
\* late arrivals included.
NotifiedAtMostOnce ==
  \A k, l \in DOMAIN delivered :
    LET r == delivered[k]
        s == delivered[l]
    IN thread[r].req.op = thread[s].req.op /\ thread[r].saved = thread[s].saved => k = l

\* A request that was answered with success has told whom it had to tell, before
\* anybody is told by a request that was sent after the answer.  What overlaps
\* with it, failed or was lost may be told in any order or never.
ToldBeforeAnswered ==
  \A r \in Requests :
    /\ Asks(r, "updateTicketStatus") \/ Asks(r, "sendMessage")
    /\ Succeeded(r)
    /\ notifica(r) # {}
    => \E k \in DOMAIN delivered :
         /\ delivered[k] = r
         /\ \A l \in DOMAIN delivered : r \in thread[delivered[l]].earlier => k < l

\* A ticket somebody opened is in the list getMyTickets shows them, even after
\* concurrent requests gave them several rows in app_user.
MyTicketsAreListed ==
  \A r \in Requests :
    Asks(r, "createTicket") /\ Succeeded(r)
      => thread[r].saved \in getMyTickets(SubOf[thread[r].req.caller])

-----------------------------------------------------------------------------
(* What else holds when updates of one ticket do not overlap, nor openings   *)
(* of one person (HelpDeskApart).                                            *)

\* A person has one row in app_user, as the Optional of findByExternalId assumes.
OneRowPerPerson ==
  \A u, v \in DOMAIN userTable : userTable[u].externalId = userTable[v].externalId => u = v

\* The newest row of a ticket below id n, or NoId.
RowBefore(t, n) ==
  LET older == {j \in historyOf(t) : j < n}
  IN IF older = {} THEN NoId ELSE CHOOSE j \in older : \A k \in older : k <= j

StatusAfterRow(t, i) == IF i = NoId THEN StartStatus(t) ELSE historyTable[i].statoSuccessivo

\* The history of a ticket is a chain: each row starts from the status the row
\* before it ended in.  Needs that neither a crash nor the database cuts an
\* update short.
HistoryIsChain ==
  \A i \in DOMAIN historyTable :
    LET t == historyTable[i].ticket
    IN historyTable[i].statoPrecedente = StatusAfterRow(t, RowBefore(t, i))

\* While no update of a ticket is running, its newest history row tells its
\* status.  Needs the same.
HistoryTellsStatus ==
  \A t \in DOMAIN ticketTable :
    \/ \E r \in InFlight : Asks(r, "updateTicketStatus") /\ thread[r].req.ticketId = t
    \/ ticketTable[t].ticketStatus = StatusAfterRow(t, RowBefore(t, Rows + 1))

\* The update that inserted history row i was answered with success.
Acknowledged(i) ==
  \E r \in Requests :
    Asks(r, "updateTicketStatus") /\ thread[r].saved = i /\ Succeeded(r)

\* What history row i leaves open about the status of ticket t.
EndStatuses(t, i) ==
  {StatusAfterRow(t, i)} \cup
  IF i = NoId \/ Acknowledged(i) THEN {} ELSE {historyTable[i].statoPrecedente}

\* Whatever crashes and fails: an update that was answered with success stays
\* until the next history row, and one that was not has happened or has not.
\* The history leaves no more than that open about a ticket, and the next row
\* starts from whichever it was.
AcknowledgedUpdatesHold ==
  /\ \A t \in DOMAIN ticketTable :
       ticketTable[t].ticketStatus \in EndStatuses(t, RowBefore(t, Rows + 1))
  /\ \A i \in DOMAIN historyTable :
       LET t == historyTable[i].ticket
       IN historyTable[i].statoPrecedente \in EndStatuses(t, RowBefore(t, i))
=============================================================================
