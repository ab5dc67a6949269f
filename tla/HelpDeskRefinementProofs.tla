------------------------ MODULE HelpDeskRefinementProofs ------------------------
(***************************************************************************)
(* Proof that HelpDesk implements AuditTrail for every value of the         *)
(* constants: opening a ticket is Open, the insert of a history row is      *)
(* Record, the write of the ticket is Apply, all else is stuttering.        *)
(***************************************************************************)
EXTENDS HelpDeskRefinement, HelpDeskStatusProofs

TrailVars == <<StatusColumn, HistoryLog>>

\* The entries of the abstract log.
Entry == [ticket : Nat, from : TicketStatus, to : TicketStatus]

LEMMA InitTrail == Init => Trail!Init
  BY DEF Init, DbInit, Trail!Init, StatusColumn, HistoryLog, FirstStatuses

LEMMA IsSeq ==
  ASSUME NEW T, NEW n \in Nat, NEW f \in [1 .. n -> T]
  PROVE  f \in Seq(T) /\ Len(f) = n
  OBVIOUS

LEMMA IsAppend ==
  ASSUME NEW T, NEW s \in Seq(T), NEW e \in T
  PROVE  Append(s, e) = [i \in 1 .. Len(s) + 1 |-> IF i = Len(s) + 1 THEN e ELSE s[i]]
<1> DEFINE a == Append(s, e)
<1>1. a \in Seq(T) /\ Len(a) = Len(s) + 1 /\ DOMAIN a = 1 .. Len(s) + 1
  BY AppendRow
<1>2. \A i \in 1 .. Len(s) + 1 : a[i] = IF i = Len(s) + 1 THEN e ELSE s[i]
  BY AppendRow
<1>3. a = [i \in DOMAIN a |-> a[i]]
  <2> HIDE DEF a
  <2>. QED
    BY <1>1
<1>. QED
  BY <1>1, <1>2, <1>3

\* The mapped tables are sequences of the tables' lengths.
LEMMA Columns ==
  ASSUME TypeInv
  PROVE  /\ StatusColumn \in Seq(TicketStatus) /\ Len(StatusColumn) = Len(ticketTable)
         /\ HistoryLog \in Seq(Entry)
         /\ Len(HistoryLog) = Rows
<1> USE DEF TypeInv, TypeOK, DbTypeOK
<1>1. /\ StatusColumn = [t \in DOMAIN ticketTable |-> StatusColumn[t]]
      /\ \A t \in DOMAIN ticketTable : StatusColumn[t] \in TicketStatus
  <2>1. \A t \in DOMAIN ticketTable : ticketTable[t] \in TicketRow
    BY Elements
  <2>. QED
    BY <2>1 DEF StatusColumn, TicketRow
<1>2. StatusColumn \in Seq(TicketStatus) /\ Len(StatusColumn) = Len(ticketTable)
  <2>1. Len(ticketTable) \in Nat /\ DOMAIN ticketTable = 1 .. Len(ticketTable)
    OBVIOUS
  <2>2. StatusColumn \in [1 .. Len(ticketTable) -> TicketStatus]
    BY <1>1, <2>1
  <2>. QED
    BY <2>1, <2>2, IsSeq
<1>3. /\ HistoryLog = [i \in DOMAIN historyTable |-> HistoryLog[i]]
      /\ \A i \in DOMAIN historyTable : HistoryLog[i] \in Entry
  <2>1. \A i \in DOMAIN historyTable : historyTable[i] \in HistoryRow
    BY Elements
  <2>. QED
    BY <2>1 DEF HistoryLog, HistoryRow, Entry
<1>4. HistoryLog \in Seq(Entry) /\ Len(HistoryLog) = Len(historyTable)
  <2>1. Len(historyTable) \in Nat /\ DOMAIN historyTable = 1 .. Len(historyTable)
    OBVIOUS
  <2>2. HistoryLog \in [1 .. Len(historyTable) -> Entry]
    BY <1>3, <2>1
  <2>. QED
    BY <2>1, <2>2, IsSeq
<1>. QED
  BY <1>2, <1>4 DEF Rows

\* What the abstract log gives a ticket is what the history rows recorded.
LEMMA GivenIsRecorded ==
  ASSUME TypeInv, NEW t
  PROVE  Trail!Given(t) = {historyTable[i].statoSuccessivo : i \in historyOf(t)}
  BY DEF TypeInv, TypeOK, DbTypeOK, HistoryRow, Trail!Given, HistoryLog, historyOf

LEMMA KnownIsSeen ==
  ASSUME TypeInv, NEW t \in DOMAIN ticketTable
  PROVE  Trail!Known(t) = SeenBefore(t, Rows + 1)
<1>1. \A i \in historyOf(t) : i < Rows + 1
  BY DEF TypeInv, TypeOK, DbTypeOK, historyOf, Rows
<1>. QED
  BY <1>1, GivenIsRecorded
  DEF Trail!Known, SeenBefore, StartStatus, FirstStatuses

LEMMA OpenIsOpen ==
  ASSUME TypeInv, TypeInv', NEW r \in Requests, OpenStep(r) PROVE Trail!Open
<1> DEFINE row == [ticketStatus |-> "PRESO_IN_CARICO",
                   creatoDa |-> thread[r].creatoDa, assegnatoA |-> NoId]
<1>1. ticketTable' = Append(ticketTable, row) /\ UNCHANGED historyTable
  BY DEF OpenStep, createTicketSaveTicket, insertTicket
<1>2. ticketTable \in Seq(TicketRow) /\ row \in TicketRow
  BY DEF OpenStep, TypeInv, TypeOK, DbTypeOK, Thread, TicketRow, TicketStatus, NoId
<1>3. /\ Len(ticketTable) \in Nat
      /\ DOMAIN ticketTable = 1 .. Len(ticketTable)
      /\ (DOMAIN ticketTable)' = 1 .. Len(ticketTable) + 1
      /\ \A t \in DOMAIN ticketTable : ticketTable'[t] = ticketTable[t]
      /\ ticketTable'[Len(ticketTable) + 1].ticketStatus = "PRESO_IN_CARICO"
  BY <1>1, <1>2, AppendRow
<1>4. StatusColumn' = [t \in 1 .. Len(ticketTable) + 1 |->
                         IF t = Len(ticketTable) + 1 THEN "PRESO_IN_CARICO" ELSE StatusColumn[t]]
  BY <1>3 DEF StatusColumn
<1>5. StatusColumn' = Append(StatusColumn, "PRESO_IN_CARICO")
  <2>1. StatusColumn \in Seq(TicketStatus) /\ Len(StatusColumn) = Len(ticketTable)
    BY Columns
  <2>2. "PRESO_IN_CARICO" \in TicketStatus
    BY DEF TicketStatus
  <2>. QED
    BY <1>4, <2>1, <2>2, IsAppend
<1>. QED
  BY <1>1, <1>5 DEF Trail!Open, HistoryLog

LEMMA SaveHistoryIsRecord ==
  ASSUME TypeInv, StatusInv, NEW r \in Requests, updateTicketStatusSaveHistory(r)
  PROVE  \E t \in DOMAIN StatusColumn, from, to \in TicketStatus : Trail!Record(t, from, to)
<1> DEFINE row == [ticket |-> thread[r].req.ticketId,
                   statoPrecedente |-> thread[r].ticket.ticketStatus,
                   statoSuccessivo |-> thread[r].req.stato,
                   modificatoDa |-> thread[r].req.caller]
           entry == [ticket |-> row.ticket, from |-> row.statoPrecedente,
                     to |-> row.statoSuccessivo]
<1>1. /\ thread[r].pc = "saveHistory"
      /\ historyTable' = Append(historyTable, row)
      /\ UNCHANGED ticketTable
  BY DEF updateTicketStatusSaveHistory, insertHistory
<1>2. /\ row.ticket \in DOMAIN ticketTable
      /\ row.statoPrecedente \in TicketStatus /\ row.statoSuccessivo \in TicketStatus
      /\ historyTable \in Seq(HistoryRow) /\ row \in HistoryRow
  <2>1. /\ thread[r].req.ticketId \in DOMAIN ticketTable /\ thread[r].ticket \in TicketRow
        /\ thread[r].req.stato \in TicketStatus /\ thread[r].req.caller \in ExternalId
    BY <1>1 DEF TypeInv, ThreadsOK, ThreadOK, EntitiesOK, EntityOK, HoldsTicket
  <2>2. thread[r].req.ticketId \in Nat
    BY <2>1, Keys DEF TypeInv, TypeOK, DbTypeOK
  <2>. QED
    BY <2>1, <2>2 DEF TypeInv, TypeOK, DbTypeOK, HistoryRow, TicketRow
<1>3. row.statoPrecedente \in Trail!Known(row.ticket)
  BY <1>1, <1>2, KnownIsSeen DEF StatusInv, HeldStatusesOK, HeldStatusOK, HoldsTicket
<1>4. HistoryLog' = Append(HistoryLog, entry)
  <2>1. /\ Rows \in Nat
        /\ DOMAIN historyTable = 1 .. Rows
        /\ (DOMAIN historyTable)' = 1 .. Rows + 1
        /\ \A i \in DOMAIN historyTable : historyTable'[i] = historyTable[i]
        /\ historyTable'[Rows + 1] = row
    BY <1>1, <1>2, AppendRow DEF Rows
  <2> HIDE DEF row
  <2>2. HistoryLog' = [i \in 1 .. Rows + 1 |-> IF i = Rows + 1 THEN entry ELSE HistoryLog[i]]
    BY <2>1 DEF HistoryLog
  <2>3. HistoryLog \in Seq(Entry) /\ Len(HistoryLog) = Rows
    BY Columns
  <2>4. entry \in Entry
    <3>1. row.ticket \in Nat
      BY <1>2, Keys DEF TypeInv, TypeOK, DbTypeOK
    <3>. QED
      BY <1>2, <3>1 DEF Entry
  <2> HIDE DEF entry
  <2>. QED
    BY <2>2, <2>3, <2>4, IsAppend
<1>5. UNCHANGED StatusColumn
  BY <1>1 DEF StatusColumn
<1>6. Trail!Record(row.ticket, row.statoPrecedente, row.statoSuccessivo)
  BY <1>3, <1>4, <1>5 DEF Trail!Record
<1>7. row.ticket \in DOMAIN StatusColumn
  BY <1>2 DEF StatusColumn
<1>. QED
  BY <1>2, <1>6, <1>7

LEMMA SaveIsApply ==
  ASSUME TypeInv, StatusInv, NEW r \in Requests, updateTicketStatusSave(r)
  PROVE  \/ \E t \in DOMAIN StatusColumn, to \in TicketStatus : Trail!Apply(t, to)
         \/ UNCHANGED TrailVars
<1> DEFINE t == thread[r].req.ticketId
           to == thread[r].req.stato
           ticket == [thread[r].ticket EXCEPT !.ticketStatus = to]
<1>1. /\ thread[r].pc = "saveStatus"
      /\ ticketTable' \in {ticketTable, [ticketTable EXCEPT ![t] = ticket]}
      /\ UNCHANGED historyTable
  BY DEF updateTicketStatusSave, updateTicket
<1>2. /\ thread[r].ticket \in TicketRow /\ to \in TicketStatus /\ t \in DOMAIN ticketTable
      /\ ticketTable \in Seq(TicketRow)
  BY <1>1 DEF TypeInv, TypeOK, DbTypeOK, ThreadsOK, ThreadOK, EntitiesOK, EntityOK, HoldsTicket
<1>3. ticket.ticketStatus = to
  BY <1>2 DEF TicketRow
<1>4. UNCHANGED HistoryLog
  BY <1>1 DEF HistoryLog
<1>5. CASE UNCHANGED ticketTable
  BY <1>4, <1>5 DEF TrailVars, StatusColumn
<1>6. CASE ticketTable' = [ticketTable EXCEPT ![t] = ticket]
  <2>1. to \in Trail!Given(t)
    BY <1>1, GivenIsRecorded DEF StatusInv, HeldStatusesOK, HeldStatusOK
  <2> HIDE DEF t, to, ticket
  <2>2. StatusColumn' = [StatusColumn EXCEPT ![t] = to]
    BY <1>2, <1>3, <1>6 DEF StatusColumn
  <2>3. Trail!Apply(t, to) /\ t \in DOMAIN StatusColumn
    BY <1>2, <1>4, <2>1, <2>2 DEF Trail!Apply, StatusColumn
  <2>. QED
    BY <1>2, <2>3
<1>. QED
  BY <1>1, <1>5, <1>6

LEMMA NextTrail ==
  ASSUME TypeInv, StatusInv, TypeInv', [Next]_vars PROVE [Trail!Next]_TrailVars
<1>1. CASE UNCHANGED <<ticketTable, historyTable>>
  BY <1>1 DEF TrailVars, StatusColumn, HistoryLog
<1>2. ASSUME NEW r \in Requests, Step(r) PROVE [Trail!Next]_TrailVars
  <2>1. KnownKind(r)
    BY <1>2, StepKinds
  <2>2. CASE QuietStep(r) \/ LoadStep(r)
    BY <1>1, <2>2 DEF QuietStep, LoadStep
  <2>3. CASE OpenStep(r)
    BY <2>3, OpenIsOpen DEF Trail!Next
  <2>4. CASE updateTicketStatusSaveHistory(r)
    BY <2>4, SaveHistoryIsRecord DEF Trail!Next
  <2>5. CASE updateTicketStatusSave(r)
    BY <2>5, SaveIsApply DEF Trail!Next
  <2>. QED
    BY <2>1, <2>2, <2>3, <2>4, <2>5 DEF KnownKind
<1>. QED
  BY <1>1, <1>2 DEF Next, Received, Crash, AllAnswered, vars, dbVars

\* Under every interleaving and fault the history table is an audit trail of the
\* status column: each step of HelpDesk is a step of AuditTrail or changes neither.
THEOREM HistoryIsAuditTrail == Spec => ImplementsAuditTrail
<1>1. Init => Trail!Init
  BY InitTrail
<1>2. TypeInv /\ StatusInv /\ TypeInv' /\ [Next]_vars => [Trail!Next]_TrailVars
  BY NextTrail
<1>3. TrailVars = <<StatusColumn, HistoryLog>>
  BY DEF TrailVars
<1>. QED
  BY <1>1, <1>2, <1>3, ThreadsCorrect, StatusInvariant, PTL
  DEF Spec, ImplementsAuditTrail, Trail!Spec, TrailVars
=============================================================================
