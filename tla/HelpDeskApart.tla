----------------------------- MODULE HelpDeskApart -----------------------------
(***************************************************************************)
(* HelpDesk among clients that keep apart: updates of one ticket do not     *)
(* overlap, nor do the openings of one person.  Everything else does.  The  *)
(* code does not provide for this; clients who wait for an answer, or its   *)
(* loss, before somebody asks again, do.                                    *)
(***************************************************************************)
EXTENDS HelpDeskRefinement, HelpDeskInvariants

Running(op) == {r \in InFlight : thread[r].req.op = op}

UpdatesApart ==
  \A r, s \in Running("updateTicketStatus") :
    thread[r].req.ticketId = thread[s].req.ticketId => r = s

\* Requests whose token does not verify are nobody's.
OpeningsApart ==
  \A r, s \in Running("createTicket") :
    thread[r].req.caller = thread[s].req.caller /\ thread[r].req.caller # Nobody => r = s

ApartNext == Next /\ UpdatesApart' /\ OpeningsApart'

ApartSpec == Init /\ [][ApartNext]_vars

-----------------------------------------------------------------------------
(* The inductive invariant behind what holds of ApartSpec. *)

\* A person has no row yet when createTicket is about to insert theirs.
NewPersonInv ==
  /\ OneRowPerPerson
  /\ \A r \in Requests :
       thread[r].pc = "saveUser" =>
         \A u \in DOMAIN userTable : userTable[u].externalId # thread[r].req.caller

\* An update that ended between its two transactions and would have changed its ticket.
CutShort(r) ==
  /\ thread[r].pc = "done"
  /\ thread[r].req.op = "updateTicketStatus"
  /\ thread[r].saved # NoId
  /\ thread[r].ticket.ticketStatus # thread[r].req.stato

\* Whether status is what ticket t has after history row i: the one the row ends
\* in, or, where its update was cut short, the one it starts from.
EndsIn(t, i, status) ==
  \/ status = StatusAfterRow(t, i)
  \/ /\ i # NoId
     /\ \E r \in Requests : CutShort(r) /\ thread[r].saved = i
     /\ status = historyTable[i].statoPrecedente

NewestRow(t) == RowBefore(t, Rows + 1)

\* A half done update.
Pending(r, t) == thread[r].pc = "saveStatus" /\ thread[r].req.ticketId = t

\* Each row starts where the one before it left its ticket.
ChainOK ==
  \A i \in DOMAIN historyTable :
    LET t == historyTable[i].ticket
    IN EndsIn(t, RowBefore(t, i), historyTable[i].statoPrecedente)

\* A ticket is where its newest row left it, unless its update is half done.
WrittenOK ==
  \A t \in DOMAIN ticketTable :
    \/ EndsIn(t, NewestRow(t), ticketTable[t].ticketStatus)
    \/ \E r \in Requests : Pending(r, t)

\* The row of an update that is not answered yet is its ticket's newest, and starts
\* from the entity while the update is half done.
PendingOK ==
  \A r \in Requests :
    /\ thread[r].pc \in {"saveStatus", "notify", "posted"} /\ thread[r].req.op = "updateTicketStatus" =>
         thread[r].saved = NewestRow(thread[r].req.ticketId)
    /\ thread[r].pc = "saveStatus" =>
         historyTable[thread[r].saved].statoPrecedente = thread[r].ticket.ticketStatus

\* The entity of a running update is not old.
CurrentOK ==
  \A r \in Requests :
    HoldsTicket(r) /\ thread[r].req.op = "updateTicketStatus" =>
      thread[r].ticket.ticketStatus = ticketTable[thread[r].req.ticketId].ticketStatus

\* Only a crash or the database cuts an update short, and its client knows.
CutOK ==
  \A r \in Requests :
    CutShort(r) => ~Succeeded(r) /\ ("crash" \in Faults \/ "database" \in Faults)

\* Inductive given TypeInv, StatusInv and RowInv.
ApartInv == ChainOK /\ WrittenOK /\ PendingOK /\ CurrentOK /\ CutOK
=============================================================================
