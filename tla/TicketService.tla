----------------------------- MODULE TicketService -----------------------------
(***************************************************************************)
(* TicketService: createTicket, assegnaOperatore and updateTicketStatus,    *)
(* cut at the points where another request can run: before and after every  *)
(* repository call and every call of the user service.                      *)
(***************************************************************************)
EXTENDS Notifications

-----------------------------------------------------------------------------
(* createTicket *)

createTicket(r) ==
  /\ At(r, "start", "createTicket")
  /\ IF validateToken(thread[r].req) THEN Goto(r, "profile") ELSE Reply(r, "401")
  /\ UNCHANGED <<dbVars, mailVars>>

createTicketProfile(r) ==
  /\ getUserProfile(r, "createTicket")
  /\ Goto(r, "findUser")
  /\ UNCHANGED <<dbVars, mailVars>>

\* Mutant of createTicketFindUser: the row is not looked up before it is saved.
createTicketNoLookup(r) ==
  /\ thread[r].pc = "findUser"
  /\ Goto(r, "saveUser")
  /\ UNCHANGED <<dbVars, mailVars>>

\* Mutant of createTicketFindUser: the first row is taken, whosever it is.
createTicketFirstUser(r) ==
  /\ thread[r].pc = "findUser"
  /\ thread' = [thread EXCEPT ![r] = [@ EXCEPT !.pc = "saveTicket", !.creatoDa = 1]]
  /\ UNCHANGED <<dbVars, mailVars>>

\* findByExternalId returns an Optional: empty, the only row, or an exception
\* when the query selects several.
createTicketFindUser(r) ==
  LET found == findByExternalId(thread[r].req.caller) IN
  /\ thread[r].pc = "findUser"
  /\ \/ /\ found = {}
        /\ Goto(r, "saveUser")
     \/ \E u \in found :
          /\ found = {u}
          /\ thread' = [thread EXCEPT ![r] = [@ EXCEPT !.pc = "saveTicket", !.creatoDa = u]]
     \/ /\ Cardinality(found) > 1
        /\ Reply(r, "500")
  /\ UNCHANGED <<dbVars, mailVars>>

createTicketSaveUser(r) ==
  /\ thread[r].pc = "saveUser"
  /\ insertUser([externalId |-> thread[r].req.caller])
  /\ thread' = [thread EXCEPT ![r] = [@ EXCEPT !.pc = "saveTicket", !.creatoDa = Len(userTable) + 1]]
  /\ UNCHANGED <<ticketTable, historyTable, messageTable, mailVars>>

\* TicketMapper.toEntity throws when the category names no Categoria.
createTicketSaveTicket(r) ==
  /\ thread[r].pc = "saveTicket"
  /\ \/ /\ thread[r].req.body = "present"
        /\ insertTicket([ticketStatus |-> "PRESO_IN_CARICO",
                         creatoDa |-> thread[r].creatoDa, assegnatoA |-> NoId])
        /\ thread' = [thread EXCEPT ![r] =
                         [@ EXCEPT !.pc = "done", !.answer = "200", !.saved = Len(ticketTable) + 1]]
     \/ /\ thread[r].req.body = "missing"
        /\ Reply(r, "500")
        /\ UNCHANGED ticketTable
  /\ UNCHANGED <<userTable, historyTable, messageTable, mailVars>>

-----------------------------------------------------------------------------
(* assegnaOperatore *)

assegnaOperatore(r) ==
  LET t == thread[r].req.ticketId IN
  /\ At(r, "start", "assegnaOperatore")
  /\ \/ /\ t \notin DOMAIN ticketTable
        /\ Reply(r, "404")
     \/ /\ t \in DOMAIN ticketTable
        /\ ticketTable[t].assegnatoA # NoId
        /\ Reply(r, "400")
     \/ /\ t \in DOMAIN ticketTable
        /\ ticketTable[t].assegnatoA = NoId
        /\ thread' = [thread EXCEPT ![r] = [@ EXCEPT !.pc = "profile", !.ticket = ticketTable[t]]]
  /\ UNCHANGED <<dbVars, mailVars>>

assegnaOperatoreProfile(r) ==
  /\ getUserProfile(r, "assegnaOperatore")
  /\ IF thread[r].req.caller \in Operators THEN Goto(r, "saveAssignment") ELSE Reply(r, "403")
  /\ UNCHANGED <<dbVars, mailVars>>

\* The operator is a User built with new and never saved, so the flush of the
\* ticket that references it is refused.
assegnaOperatoreSave(r) ==
  LET loaded == thread[r].ticket
      ticket == [loaded EXCEPT !.assegnatoA = Transient, !.ticketStatus = "IN_LAVORAZIONE"]
  IN
  /\ thread[r].pc = "saveAssignment"
  /\ IF Flushable(ticket)
     THEN /\ updateTicket(thread[r].req.ticketId, loaded, ticket)
          /\ thread' = [thread EXCEPT ![r] = [@ EXCEPT !.pc = "notify", !.ticket = ticket]]
     ELSE /\ Reply(r, "500")
          /\ UNCHANGED ticketTable
  /\ UNCHANGED <<userTable, historyTable, messageTable, mailVars>>

-----------------------------------------------------------------------------
(* updateTicketStatus *)

\* Token check and findById, the same in updateTicketStatus and sendMessage.
LoadTicket(r) ==
  LET t == thread[r].req.ticketId IN
  \/ /\ ~validateToken(thread[r].req)
     /\ Reply(r, "401")
  \/ /\ validateToken(thread[r].req)
     /\ t \notin DOMAIN ticketTable
     /\ Reply(r, "404")
  \/ /\ validateToken(thread[r].req)
     /\ t \in DOMAIN ticketTable
     /\ thread' = [thread EXCEPT ![r] = [@ EXCEPT !.pc = "profile", !.ticket = ticketTable[t]]]

updateTicketStatus(r) ==
  /\ At(r, "start", "updateTicketStatus")
  /\ LoadTicket(r)
  /\ UNCHANGED <<dbVars, mailVars>>

\* Mutant of updateTicketStatusProfile: the name is not checked against the enum.
updateTicketStatusUnchecked(r) ==
  /\ getUserProfile(r, "updateTicketStatus")
  /\ IF thread[r].req.caller \in Operators THEN Goto(r, "saveHistory") ELSE Reply(r, "403")
  /\ UNCHANGED <<dbVars, mailVars>>

\* Mutant of updateTicketStatusProfile: the history row is forgotten.
updateTicketStatusUnlogged(r) ==
  /\ getUserProfile(r, "updateTicketStatus")
  /\ IF thread[r].req.caller \in Operators /\ thread[r].req.stato \in TicketStatus
     THEN Goto(r, "saveStatus") ELSE Reply(r, "403")
  /\ UNCHANGED <<dbVars, mailVars>>

\* TicketStatus.valueOf throws IllegalArgumentException, which is caught, on an
\* unknown name, and NullPointerException, which is not, on null.
updateTicketStatusProfile(r) ==
  LET q == thread[r].req IN
  /\ getUserProfile(r, "updateTicketStatus")
  /\ \/ /\ q.caller \notin Operators
        /\ Reply(r, "403")
     \/ /\ q.caller \in Operators
        /\ q.stato = "null"
        /\ Reply(r, "500")
     \/ /\ q.caller \in Operators
        /\ q.stato \notin TicketStatus \cup {"null"}
        /\ Reply(r, "400")
     \/ /\ q.caller \in Operators
        /\ q.stato \in TicketStatus
        /\ Goto(r, "saveHistory")
  /\ UNCHANGED <<dbVars, mailVars>>

\* Mutant of updateTicketStatusSaveHistory: the entity takes its new status
\* before the row copies the previous one from it.
updateTicketStatusSetFirst(r) ==
  LET q == thread[r].req IN
  /\ thread[r].pc = "saveHistory"
  /\ insertHistory([ticket |-> q.ticketId, statoPrecedente |-> q.stato,
                    statoSuccessivo |-> q.stato, modificatoDa |-> q.caller])
  /\ thread' = [thread EXCEPT ![r] = [@ EXCEPT !.pc = "saveStatus", !.saved = Len(historyTable) + 1]]
  /\ UNCHANGED <<userTable, ticketTable, messageTable, mailVars>>

\* Mutant of updateTicketStatusSaveHistory: the row names the ticket's creator.
updateTicketStatusWrongAuthor(r) ==
  LET q == thread[r].req IN
  /\ thread[r].pc = "saveHistory"
  /\ insertHistory([ticket |-> q.ticketId,
                    statoPrecedente |-> thread[r].ticket.ticketStatus,
                    statoSuccessivo |-> q.stato, modificatoDa |-> creatore(thread[r].ticket)])
  /\ thread' = [thread EXCEPT ![r] = [@ EXCEPT !.pc = "saveStatus", !.saved = Len(historyTable) + 1]]
  /\ UNCHANGED <<userTable, ticketTable, messageTable, mailVars>>

updateTicketStatusSaveHistory(r) ==
  LET q == thread[r].req IN
  /\ thread[r].pc = "saveHistory"
  /\ insertHistory([ticket |-> q.ticketId,
                    statoPrecedente |-> thread[r].ticket.ticketStatus,
                    statoSuccessivo |-> q.stato, modificatoDa |-> q.caller])
  /\ thread' = [thread EXCEPT ![r] = [@ EXCEPT !.pc = "saveStatus", !.saved = Len(historyTable) + 1]]
  /\ UNCHANGED <<userTable, ticketTable, messageTable, mailVars>>

\* Mutant of updateTicketStatusSave: the entity is changed but never saved.
updateTicketStatusUnsaved(r) ==
  /\ thread[r].pc = "saveStatus"
  /\ thread' = [thread EXCEPT ![r] =
                   [@ EXCEPT !.pc = "notify", !.ticket.ticketStatus = thread[r].req.stato]]
  /\ UNCHANGED <<dbVars, mailVars>>

updateTicketStatusSave(r) ==
  LET q == thread[r].req
      ticket == [thread[r].ticket EXCEPT !.ticketStatus = q.stato]
  IN
  /\ thread[r].pc = "saveStatus"
  /\ updateTicket(q.ticketId, thread[r].ticket, ticket)
  /\ thread' = [thread EXCEPT ![r] = [@ EXCEPT !.pc = "notify", !.ticket = ticket]]
  /\ UNCHANGED <<userTable, historyTable, messageTable, mailVars>>

-----------------------------------------------------------------------------
(* getMyTickets and getTicketHistory only read; they are state functions. *)

\* The ids of the tickets listed to the person whose token has the given sub claim.
getMyTickets(sub) == findByCreatoDa_ExternalId(sub)

\* The ids of the history rows listed for a ticket.
getTicketHistory(t) == historyOf(t)
=============================================================================
