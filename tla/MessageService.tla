----------------------------- MODULE MessageService -----------------------------
(***************************************************************************)
(* MessageService: sendMessage, cut like the handlers of TicketService, and *)
(* the listing of a ticket's messages as a state function.                  *)
(***************************************************************************)
EXTENDS TicketService

sendMessage(r) ==
  /\ At(r, "start", "sendMessage")
  /\ LoadTicket(r)
  /\ UNCHANGED <<dbVars, mailVars>>

sendMessageProfile(r) ==
  /\ getUserProfile(r, "sendMessage")
  /\ Goto(r, "saveMessage")
  /\ UNCHANGED <<dbVars, mailVars>>

\* TicketMapper.toEntity copies the content unchecked; save inserts the message.
sendMessageSave(r) ==
  LET q == thread[r].req IN
  /\ thread[r].pc = "saveMessage"
  /\ insertMessage([ticket |-> q.ticketId, autoreId |-> q.caller, contenuto |-> q.body])
  /\ thread' = [thread EXCEPT ![r] = [@ EXCEPT !.pc = "notify", !.saved = Len(messageTable) + 1]]
  /\ UNCHANGED <<userTable, ticketTable, historyTable, mailVars>>

\* The ids of the messages listed for a ticket.
getMessagesByTicket(t) == messagesOf(t)
=============================================================================
