----------------------------- MODULE HelpDeskClaims -----------------------------
(***************************************************************************)
(* What the API annotations, the README and a repository signature say of   *)
(* the service and its code does not do.  Each is refuted by a run.         *)
(***************************************************************************)
EXTENDS HelpDesk

Done(r, op) == Asks(r, op) /\ thread[r].pc = "done"

\* Whether r is a status update by an operator of a ticket that was there from
\* the start.
OperatorUpdates(r) ==
  /\ Asks(r, "updateTicketStatus")
  /\ thread[r].req.caller \in Operators
  /\ thread[r].req.ticketId \in DOMAIN InitialTickets

\* "Permette all'utente autenticato di creare un ticket" (TicketController:44):
\* with all services up, a well-formed createTicket of an authenticated person
\* succeeds.
EverybodyCanOpenTickets ==
  \A r \in Requests :
    Done(r, "createTicket") /\ thread[r].req.caller # Nobody /\ thread[r].req.body = "present"
      => thread[r].answer = "200"

\* "Permette agli operatori di assegnarsi un ticket non ancora assegnato"
\* (TicketController:89): with all services up, assegnaOperatore of an operator
\* never ends in a server error.
OperatorsCanTakeTickets ==
  \A r \in Requests :
    Done(r, "assegnaOperatore") /\ thread[r].req.caller \in Operators
      => thread[r].answer # "500"

\* "400 Stato non valido" (TicketController:108): an operator's update that names
\* no status of the enum is answered 400.
InvalidStatusIsAnswered400 ==
  \A r \in Requests :
    Done(r, "updateTicketStatus") /\ OperatorUpdates(r) /\ thread[r].req.stato \notin TicketStatus
      => thread[r].answer = "400"
=============================================================================
