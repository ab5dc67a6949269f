--------------------------- MODULE HelpDeskRefinement ---------------------------
(***************************************************************************)
(* HelpDesk implements AuditTrail, always, and StatusJournal when updates   *)
(* of one ticket do not overlap (HelpDeskApart).                            *)
(***************************************************************************)
EXTENDS HelpDesk

FirstStatuses == [t \in DOMAIN InitialTickets |-> InitialTickets[t].ticketStatus]

\* The status column and the history table, as the abstract specifications see them.
StatusColumn == [t \in DOMAIN ticketTable |-> ticketTable[t].ticketStatus]

HistoryLog ==
  [i \in DOMAIN historyTable |->
     [ticket |-> historyTable[i].ticket, from |-> historyTable[i].statoPrecedente,
      to |-> historyTable[i].statoSuccessivo]]

\* The status column once the update that has inserted its history row, and not
\* yet written its ticket, has done so.
StatusAfterPendingUpdate ==
  [t \in DOMAIN ticketTable |->
     LET pending == {r \in Requests : thread[r].pc = "saveStatus" /\ thread[r].req.ticketId = t}
     IN IF pending = {} THEN ticketTable[t].ticketStatus
        ELSE thread[CHOOSE r \in pending : TRUE].req.stato]

\* The history rows of updates that were answered with success.
AcknowledgedRows == {i \in DOMAIN historyTable : Acknowledged(i)}

Trail == INSTANCE AuditTrail WITH
  Status <- TicketStatus, OpeningStatus <- "PRESO_IN_CARICO", FirstStatus <- FirstStatuses,
  status <- StatusColumn, log <- HistoryLog

Journal == INSTANCE StatusJournal WITH
  Status <- TicketStatus, OpeningStatus <- "PRESO_IN_CARICO", FirstStatus <- FirstStatuses,
  status <- StatusAfterPendingUpdate, log <- HistoryLog, confirmed <- AcknowledgedRows

\* Under every interleaving and fault the history table is an audit trail of the
\* status column (updateTicketStatus: history first, ticket second).
ImplementsAuditTrail == Trail!Spec

\* Where the updates of a ticket do not overlap, they change status and history as
\* one, although a crash or the database may come between their two transactions:
\* an update that is cut short was not acknowledged, and turns out void before the
\* next one begins.
ImplementsStatusJournal == Journal!Spec
=============================================================================
