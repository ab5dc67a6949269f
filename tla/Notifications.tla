----------------------------- MODULE Notifications -----------------------------
(***************************************************************************)
(* NotificationService and NotificationClient: the last step of the three   *)
(* handlers that tell somebody about what they did, a blocking POST to the  *)
(* notification service inside the request.  The POST leaves, the service   *)
(* receives it, and the call returns; a call that throws, or is lost in a   *)
(* crash, leaves open whether and when its POST is received.                *)
(***************************************************************************)
EXTENDS Requests

\* A handler posts at most one notification, notifica(r), of an entity no later
\* step changes; the request stands for it here.
VARIABLES
  underway,     \* the requests whose POST has left and has not been received
  delivered     \* those whose notification the service has received, in order

mailVars == <<underway, delivered>>

Notification == [userId : ExternalId, type : {"TICKET_ASSIGNED", "STATUS_UPDATE", "NEW_MESSAGE"},
                 referenceId : Nat, stato : TicketStatus \cup {"null"}]

NotificationsInit == underway = {} /\ delivered = <<>>

creatore(ticket) == userTable[ticket.creatoDa].externalId
assegnatario(ticket) == userTable[ticket.assegnatoA].externalId

-----------------------------------------------------------------------------
(* What each method sends: a set of no or one notification. *)

inviaNotificaAssegnazione(id, ticket) ==
  IF ticket.assegnatoA = NoId THEN {}
  ELSE {[userId |-> assegnatario(ticket), type |-> "TICKET_ASSIGNED",
         referenceId |-> id, stato |-> "null"]}

inviaNotificaCambioStato(id, ticket, modificatoDa) ==
  IF creatore(ticket) = modificatoDa THEN {}
  ELSE {[userId |-> creatore(ticket), type |-> "STATUS_UPDATE",
         referenceId |-> id, stato |-> ticket.ticketStatus]}

\* Mutant of inviaNotificaMessaggio: the two branches are swapped.
inviaNotificaMessaggioSwapped(id, ticket, autore) ==
  IF ticket.assegnatoA = NoId THEN {}
  ELSE {[userId |-> IF autore = assegnatario(ticket) THEN assegnatario(ticket)
                                                     ELSE creatore(ticket),
         type |-> "NEW_MESSAGE", referenceId |-> id, stato |-> "null"]}

inviaNotificaMessaggio(id, ticket, autore) ==
  IF ticket.assegnatoA = NoId THEN {}
  ELSE {[userId |-> IF autore = assegnatario(ticket) THEN creatore(ticket)
                                                     ELSE assegnatario(ticket),
         type |-> "NEW_MESSAGE", referenceId |-> id, stato |-> "null"]}

\* What the handler of r sends, from the entity it has in memory.
notifica(r) ==
  LET q == thread[r].req
      ticket == thread[r].ticket
  IN CASE q.op = "assegnaOperatore" -> inviaNotificaAssegnazione(q.ticketId, ticket)
       [] q.op = "updateTicketStatus" -> inviaNotificaCambioStato(q.ticketId, ticket, q.caller)
       [] q.op = "sendMessage" -> inviaNotificaMessaggio(q.ticketId, ticket, q.caller)

\* The answer of a handler that ran to its end.
Success(q) == IF q.op = "sendMessage" THEN "201" ELSE "200"

-----------------------------------------------------------------------------
\* Nobody is to be told: the handler returns.
NothingToNotify(r) ==
  /\ thread[r].pc = "notify"
  /\ notifica(r) = {}
  /\ Reply(r, Success(thread[r].req))
  /\ UNCHANGED <<dbVars, mailVars>>

\* NotificationClient.inviaNotifica: the POST leaves.
inviaNotifica(r) ==
  /\ thread[r].pc = "notify"
  /\ notifica(r) # {}
  /\ Goto(r, "posted")
  /\ underway' = underway \cup {r}
  /\ UNCHANGED <<dbVars, delivered>>

\* The notification service receives the POST, which may be long after the call
\* that sent it threw or was lost in a crash.
Received(r) ==
  /\ r \in underway
  /\ underway' = underway \ {r}
  /\ delivered' = Append(delivered, r)
  /\ UNCHANGED <<dbVars, thread>>

\* Mutant of inviaNotificaReturns: the POST is not waited for (an @Async client).
inviaNotificaAsync(r) ==
  /\ thread[r].pc = "posted"
  /\ Reply(r, Success(thread[r].req))
  /\ UNCHANGED <<dbVars, mailVars>>

\* postForEntity returns: the service has received the notification.
inviaNotificaReturns(r) ==
  /\ thread[r].pc = "posted"
  /\ r \notin underway
  /\ Reply(r, Success(thread[r].req))
  /\ UNCHANGED <<dbVars, mailVars>>

\* Mutant of inviaNotificaFails: the client tries again after an exception.
inviaNotificaRetried(r) ==
  /\ "notifications" \in Faults
  /\ thread[r].pc = "posted"
  /\ underway' = underway \cup {r}
  /\ UNCHANGED <<dbVars, delivered, thread>>

\* postForEntity throws: the POST was received and its answer did not come back,
\* or it was not, and may still be or never be.  The request fails, and nothing
\* is sent again.
inviaNotificaFails(r) ==
  /\ "notifications" \in Faults
  /\ thread[r].pc = "posted"
  /\ Reply(r, "500")
  /\ UNCHANGED <<dbVars, mailVars>>
=============================================================================
