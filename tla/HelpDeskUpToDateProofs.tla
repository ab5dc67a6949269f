------------------------- MODULE HelpDeskUpToDateProofs -------------------------
(***************************************************************************)
(* Proof that no history row starts from a status that was replaced for     *)
(* good before its request was sent, however updates overlap and whatever   *)
(* fails.                                                                    *)
(***************************************************************************)
EXTENDS HelpDeskStatusProofs, HelpDeskRowProofs

USE DEF mailVars

\* MayFind as a function of the threads.
May(th, t, v, n, A) ==
  \/ A = {} /\ v = StartStatus(t)
  \/ \E s \in Requests :
       /\ th[s].pc # "idle" /\ th[s].req.op = "updateTicketStatus"
       /\ th[s].req.ticketId = t
       /\ th[s].saved \in 1 .. n - 1
       /\ th[s].req.stato = v
       /\ \A a \in A : s \notin th[a].earlier

LEMMA MayIs ==
  ASSUME NEW t, NEW v, NEW n, NEW A
  PROVE  MayFind(t, v, n, A) <=> May(thread, t, v, n, A)
  BY DEF MayFind, May, Asks, NotReplaced

\* What could be found can be found as long as no new update came after it.
LEMMA MayStays ==
  ASSUME TypeInv, RowInv, [Next]_vars, NEW t, NEW v, NEW n \in Nat, NEW m \in Nat, n <= m,
         NEW A \in SUBSET Requests, NEW B \in SUBSET A, \A a \in B : thread[a].pc # "idle",
         May(thread, t, v, n, A)
  PROVE  May(thread', t, v, m, B)
<1>1. CASE A = {} /\ v = StartStatus(t)
  BY <1>1 DEF May
<1>2. ASSUME NEW s \in Requests,
             thread[s].pc # "idle" /\ thread[s].req.op = "updateTicketStatus",
             thread[s].req.ticketId = t, thread[s].saved \in 1 .. n - 1, thread[s].req.stato = v,
             \A a \in A : s \notin thread[a].earlier
      PROVE  May(thread', t, v, m, B)
  <2>1. thread[s].saved # NoId
    BY <1>2 DEF NoId
  <2>2. /\ thread'[s].pc # "idle" /\ thread'[s].req = thread[s].req
        /\ thread'[s].saved = thread[s].saved
    BY <1>2, <2>1, Remembers
  <2>3. thread'[s].saved \in 1 .. m - 1
    BY <1>2, <2>2
  <2>4. \A a \in B : s \notin thread'[a].earlier
    BY <1>2, Remembers
  <2>. QED
    BY <1>2, <2>2, <2>3, <2>4 DEF May
<1>. QED
  BY <1>1, <1>2 DEF May

\* The history never shrinks.
LEMMA NextHistory ==
  ASSUME TypeInv, RowInv, TypeInv', [Next]_vars
  PROVE  /\ Rows \in Nat /\ Rows' \in Nat /\ Rows <= Rows'
         /\ DOMAIN historyTable = 1 .. Rows /\ (DOMAIN historyTable)' = 1 .. Rows'
         /\ \A i \in DOMAIN historyTable : historyTable'[i] = historyTable[i]
<1>1. /\ Rows \in Nat /\ Rows' \in Nat
      /\ DOMAIN historyTable = 1 .. Rows /\ (DOMAIN historyTable)' = 1 .. Rows'
  BY DEF TypeInv, TypeOK, DbTypeOK, Rows
<1>2. \A i \in DOMAIN historyTable : i \in (DOMAIN historyTable)' /\ historyTable'[i] = historyTable[i]
  BY NextRowsStay DEF RowsStay
<1>3. Rows # 0 => Rows \in (DOMAIN historyTable)'
  BY <1>1, <1>2
<1>. QED
  BY <1>1, <1>2, <1>3

\* What a client knew when it sent its request does not change.
LEMMA KnownStays ==
  ASSUME TypeInv, RowInv, EarlierOver, [Next]_vars, NEW r \in Requests, thread[r].pc # "idle", NEW t
  PROVE  /\ SuccessfulUpdates(t, thread[r].earlier)' = SuccessfulUpdates(t, thread[r].earlier)
         /\ SuccessfulUpdates(t, thread[r].earlier) \in SUBSET Requests
         /\ \A a \in SuccessfulUpdates(t, thread[r].earlier) : thread[a].pc # "idle"
<1>1. thread'[r].earlier = thread[r].earlier /\ thread[r].earlier \subseteq Over
  BY Remembers DEF EarlierOver
<1>2. \A a \in thread[r].earlier : a \in Requests /\ thread[a].pc = "done" /\ thread'[a] = thread[a]
  BY <1>1, EndedStays DEF Over
<1>. QED
  BY <1>1, <1>2 DEF SuccessfulUpdates, Asks, Succeeded

\* An update that inserts its history row does so in updateTicketStatusSaveHistory.
LEMMA HistoryInsert ==
  ASSUME TypeInv, RowInv, RowInv', TypeInv', NEW r \in Requests, Step(r),
         thread'[r].req.op = "updateTicketStatus", thread[r].saved = NoId, thread'[r].saved # NoId
  PROVE  updateTicketStatusSaveHistory(r) /\ thread[r].pc = "saveHistory"
         /\ thread'[r].pc = "saveStatus" /\ thread'[r].saved = Rows + 1
         /\ thread'[r].ticket = thread[r].ticket /\ thread'[r].req = thread[r].req
<1>1. RowStep(r) /\ KnownKind(r)
  BY StepRows, StepKinds DEF RowInv
<1>2. InsertsHistory(r) /\ thread'[r].req = thread[r].req
  BY <1>1 DEF RowStep, KeepsSaved, Inserts, InsertsTicket, InsertsMessage, InsertsHistory
<1>3. thread'[r].saved \in (DOMAIN historyTable)' /\ thread'[r].saved \notin DOMAIN historyTable
  <2>1. SavedOK(r)' /\ thread'[r].saved = Len(historyTable) + 1
    BY <1>2 DEF RowInv, InsertsHistory
  <2>. QED
    BY <2>1, NextKey DEF SavedOK, TypeInv, TypeOK, DbTypeOK
<1>4. historyTable' # historyTable
  BY <1>3
<1>5. updateTicketStatusSaveHistory(r)
  <2>1. ~ QuietStep(r) /\ ~ LoadStep(r)
    BY <1>4 DEF QuietStep, LoadStep
  <2>2. ~ OpenStep(r) /\ ~ updateTicketStatusSave(r)
    BY <1>4 DEF OpenStep, createTicketSaveTicket, updateTicketStatusSave
  <2>. QED
    BY <1>1, <2>1, <2>2 DEF KnownKind
<1>6. /\ thread[r].pc = "saveHistory" /\ thread'[r].pc = "saveStatus"
      /\ thread'[r].ticket = thread[r].ticket
  BY <1>5 DEF updateTicketStatusSaveHistory, TypeInv, TypeOK, Thread
<1>. QED
  BY <1>2, <1>5, <1>6 DEF InsertsHistory, Rows

\* The row inserted copies its previous status from the entity.
LEMMA InsertedRow ==
  ASSUME TypeInv, NEW r \in Requests, updateTicketStatusSaveHistory(r)
  PROVE  historyTable'[Rows + 1].statoPrecedente = thread[r].ticket.ticketStatus
<1> DEFINE row == [ticket |-> thread[r].req.ticketId,
                   statoPrecedente |-> thread[r].ticket.ticketStatus,
                   statoSuccessivo |-> thread[r].req.stato,
                   modificatoDa |-> thread[r].req.caller]
<1>1. thread[r].pc = "saveHistory" /\ historyTable' = Append(historyTable, row)
  BY DEF updateTicketStatusSaveHistory, insertHistory
<1>2. historyTable \in Seq(HistoryRow) /\ row \in HistoryRow
  <2>1. /\ thread[r].req.ticketId \in DOMAIN ticketTable /\ thread[r].ticket \in TicketRow
        /\ thread[r].req.stato \in TicketStatus /\ thread[r].req.caller \in ExternalId
    BY <1>1 DEF TypeInv, ThreadsOK, ThreadOK, EntitiesOK, EntityOK, HoldsTicket
  <2>2. thread[r].req.ticketId \in Nat
    BY <2>1, Keys DEF TypeInv, TypeOK, DbTypeOK
  <2>. QED
    BY <2>1, <2>2 DEF TypeInv, TypeOK, DbTypeOK, HistoryRow, TicketRow
<1>3. historyTable'[Rows + 1] = row
  BY <1>1, <1>2, AppendRow DEF Rows
<1>. QED
  BY <1>3

-----------------------------------------------------------------------------
(* History rows. *)

LEMMA NextRowsUpToDate ==
  ASSUME TypeInv, RowInv, EarlierOver, UpToDateInv, TypeInv', RowInv', [Next]_vars
  PROVE  HistoryIsUpToDate'
<1> SUFFICES ASSUME NEW r \in Requests, Asks(r, "updateTicketStatus")', thread'[r].saved # NoId
             PROVE  MayFind(thread[r].req.ticketId, historyTable[thread[r].saved].statoPrecedente,
                            thread[r].saved,
                            SuccessfulUpdates(thread[r].req.ticketId, thread[r].earlier))'
  BY DEF HistoryIsUpToDate
<1>1. PICK t, i, A, v :
        /\ t = thread'[r].req.ticketId /\ i = thread'[r].saved
        /\ A = SuccessfulUpdates(thread[r].req.ticketId, thread[r].earlier)'
        /\ v = historyTable'[i].statoPrecedente
  OBVIOUS
<1>2. SUFFICES May(thread', t, v, i, A)
  BY <1>1 DEF MayFind, May, Asks, NotReplaced
<1>3. CASE thread[r].saved # NoId
  <2>1. /\ thread[r].pc # "idle" /\ SavedOK(r)
    BY <1>3 DEF RowInv, SavedOK
  <2>2. thread'[r].saved = thread[r].saved /\ thread'[r].req = thread[r].req
    BY <1>3, <2>1, Remembers
  <2>3. i \in DOMAIN historyTable /\ v = historyTable[i].statoPrecedente /\ i \in Nat
    BY <1>1, <2>1, <2>2, <1>3, NextHistory DEF SavedOK, Asks
  <2>4. /\ A = SuccessfulUpdates(t, thread[r].earlier)
        /\ A \in SUBSET Requests /\ \A a \in A : thread[a].pc # "idle"
    BY <1>1, <2>1, <2>2, KnownStays DEF SuccessfulUpdates, Asks, Succeeded
  <2>5. May(thread, t, v, i, A)
    BY <1>1, <1>3, <2>1, <2>2, <2>3, <2>4 DEF UpToDateInv, HistoryIsUpToDate, MayFind, May,
       Asks, NotReplaced
  <2>. QED
    BY <2>3, <2>4, <2>5, MayStays
<1>4. CASE thread[r].saved = NoId
  <2>1. Step(r)
    BY <1>4, NextIs, StepTypeInv, CrashKeeps DEF OnlyThread
  <2>2. /\ updateTicketStatusSaveHistory(r) /\ thread[r].pc = "saveHistory"
        /\ i = Rows + 1 /\ thread'[r].req = thread[r].req
    BY <1>1, <1>4, <2>1, HistoryInsert DEF Asks
  <2>3. v = thread[r].ticket.ticketStatus
    BY <1>1, <2>2, InsertedRow
  <2>4. /\ A = SuccessfulUpdates(t, thread[r].earlier)
        /\ A \in SUBSET Requests /\ \A a \in A : thread[a].pc # "idle"
    BY <1>1, <2>2, KnownStays DEF SuccessfulUpdates, Asks, Succeeded
  <2>5. May(thread, t, v, i, A)
    BY <1>1, <2>2, <2>3, <2>4 DEF UpToDateInv, EntitiesAreUpToDate, MayFind, May, Asks, NotReplaced
  <2>6. i \in Nat
    BY <2>2, NextHistory
  <2>. QED
    BY <2>4, <2>5, <2>6, MayStays
<1>. QED
  BY <1>3, <1>4

-----------------------------------------------------------------------------
(* What handlers have read. *)

\* Where the three kinds of steps that write tickets or history leave their handler.
LEMMA WriteSteps ==
  ASSUME TypeInv, NEW r \in Requests
  PROVE  /\ OpenStep(r) => thread'[r].pc = "done"
         /\ updateTicketStatusSaveHistory(r) =>
              thread[r].pc = "saveHistory" /\ thread'[r].pc = "saveStatus"
         /\ updateTicketStatusSave(r) => thread[r].pc = "saveStatus" /\ thread'[r].pc = "notify"
<1>1. thread[r] \in Thread /\ thread \in [Requests -> Thread]
  BY DEF TypeInv, TypeOK
<1>2. CASE OpenStep(r)
  <2>1. \/ thread'[r] = [thread[r] EXCEPT !.pc = "done", !.answer = "200",
                                          !.saved = Len(ticketTable) + 1]
        \/ thread'[r] = [thread[r] EXCEPT !.pc = "done", !.answer = "500"]
    BY <1>1, <1>2 DEF OpenStep, createTicketSaveTicket, Reply
  <2>2. thread'[r].pc = "done"
    BY <1>1, <2>1 DEF Thread
  <2>3. thread[r].pc = "saveTicket"
    BY <1>2 DEF OpenStep, createTicketSaveTicket
  <2>. QED
    BY <2>2, <2>3 DEF updateTicketStatusSaveHistory, updateTicketStatusSave
<1>3. CASE updateTicketStatusSaveHistory(r)
  <2>1. /\ thread[r].pc = "saveHistory"
        /\ thread'[r] = [thread[r] EXCEPT !.pc = "saveStatus", !.saved = Len(historyTable) + 1]
    BY <1>1, <1>3 DEF updateTicketStatusSaveHistory
  <2>2. thread'[r].pc = "saveStatus"
    BY <1>1, <2>1 DEF Thread
  <2>. QED
    BY <2>1, <2>2 DEF OpenStep, createTicketSaveTicket, updateTicketStatusSave
<1>4. CASE updateTicketStatusSave(r)
  <2>1. /\ thread[r].pc = "saveStatus"
        /\ \E x : thread'[r] = [thread[r] EXCEPT !.pc = "notify", !.ticket = x]
    BY <1>1, <1>4 DEF updateTicketStatusSave
  <2>2. thread'[r].pc = "notify"
    BY <1>1, <2>1 DEF Thread
  <2>. QED
    BY <2>1, <2>2 DEF OpenStep, createTicketSaveTicket, updateTicketStatusSaveHistory
<1>. QED
  BY <1>2, <1>3, <1>4

\* An update that holds a ticket and has not inserted its row had done neither
\* before, or has just loaded it.
LEMMA HoldingUpdate ==
  ASSUME TypeInv, RowInv, TypeInv', RowInv', NEW r \in Requests, Step(r),
         thread'[r].req.op = "updateTicketStatus", thread'[r].pc \in {"profile", "saveHistory"}
  PROVE  \/ /\ thread[r].pc \in {"profile", "saveHistory"}
            /\ thread'[r].ticket = thread[r].ticket /\ thread'[r].req = thread[r].req
         \/ LoadStep(r) /\ thread[r].pc # "idle"
<1>1. KnownKind(r)
  BY StepKinds
<1>2. thread[r].pc # "idle"
  <2>1. Accept(r) => thread'[r].pc = "start"
    BY DEF Accept, TypeInv, TypeOK, Thread
  <2>. QED
    BY <2>1, PointSteps
<1>3. CASE QuietStep(r)
  <2>1. /\ HoldsTicket(r) /\ thread'[r].ticket = thread[r].ticket
        /\ thread'[r].req = thread[r].req
    BY <1>3 DEF QuietStep, HoldsTicket
  <2>2. thread[r].pc \in {"profile", "saveHistory", "saveStatus", "notify", "posted"}
    BY <2>1 DEF HoldsTicket, TypeInv, ThreadsOK, ThreadOK
  <2>3. ASSUME thread[r].pc \in {"saveStatus", "notify", "posted"} PROVE FALSE
    <3>1. KeepsSaved(r) /\ thread[r].saved # NoId
      BY <2>3, StepRows DEF RowInv, SavedOK, RowStep, Inserts
    <3>2. thread'[r].saved = NoId
      BY DEF RowInv, SavedOK
    <3>. QED
      BY <3>1, <3>2 DEF KeepsSaved
  <2>. QED
    BY <2>1, <2>2, <2>3
<1>4. ~ OpenStep(r) /\ ~ updateTicketStatusSaveHistory(r) /\ ~ updateTicketStatusSave(r)
  BY WriteSteps
<1>. QED
  BY <1>1, <1>2, <1>3, <1>4 DEF KnownKind

LEMMA NextEntitiesUpToDate ==
  ASSUME TypeInv, RowInv, EarlierOver, UpToDateInv, TypeInv', RowInv', [Next]_vars
  PROVE  EntitiesAreUpToDate'
<1> SUFFICES ASSUME NEW r \in Requests, Asks(r, "updateTicketStatus")',
                    thread'[r].pc \in {"profile", "saveHistory"}
             PROVE  MayFind(thread[r].req.ticketId, thread[r].ticket.ticketStatus, Rows + 1,
                            SuccessfulUpdates(thread[r].req.ticketId, thread[r].earlier))'
  BY DEF EntitiesAreUpToDate
<1>1. PICK t, A, v :
        /\ t = thread'[r].req.ticketId /\ v = thread'[r].ticket.ticketStatus
        /\ A = SuccessfulUpdates(thread[r].req.ticketId, thread[r].earlier)'
  OBVIOUS
<1>2. SUFFICES May(thread', t, v, Rows' + 1, A)
  BY <1>1 DEF MayFind, May, Asks, NotReplaced
<1>3. Rows + 1 \in Nat /\ Rows' + 1 \in Nat /\ Rows + 1 <= Rows' + 1
  BY NextHistory
<1>4. CASE /\ thread[r].pc \in {"profile", "saveHistory"}
           /\ thread'[r].ticket = thread[r].ticket /\ thread'[r].req = thread[r].req
  <2>1. /\ A = SuccessfulUpdates(t, thread[r].earlier)
        /\ A \in SUBSET Requests /\ \A a \in A : thread[a].pc # "idle"
    BY <1>1, <1>4, KnownStays DEF SuccessfulUpdates, Asks, Succeeded
  <2>2. May(thread, t, v, Rows + 1, A)
    BY <1>1, <1>4, <2>1 DEF UpToDateInv, EntitiesAreUpToDate, MayFind, May, Asks, NotReplaced
  <2>. QED
    BY <1>3, <2>1, <2>2, MayStays
<1>5. CASE Step(r) /\ LoadStep(r) /\ thread[r].pc # "idle"
  <2> DEFINE W == Settled(t) \cup Outdated(t)
  <2>1. thread'[r].req = thread[r].req
    BY <1>5, Remembers
  <2>2. /\ A = SuccessfulUpdates(t, thread[r].earlier)
        /\ A \in SUBSET Requests /\ \A a \in A : thread[a].pc # "idle"
    BY <1>1, <1>5, <2>1, KnownStays DEF SuccessfulUpdates, Asks, Succeeded
  <2>3. A \subseteq W /\ W \in SUBSET Requests
    BY <2>2 DEF SuccessfulUpdates, Settled, Outdated, Updates
  <2>4. t \in DOMAIN ticketTable /\ v = ticketTable[t].ticketStatus
    BY <1>1, <1>5 DEF LoadStep
  <2>5. May(thread, t, v, Rows + 1, W)
    BY <2>4 DEF UpToDateInv, StatusIsUpToDate, MayFind, May, Asks, NotReplaced
  <2> HIDE DEF W
  <2>. QED
    BY <1>3, <2>2, <2>3, <2>5, MayStays
<1>6. CASE Step(r)
  BY <1>4, <1>5, <1>6, HoldingUpdate DEF Asks
<1>7. CASE thread'[r] = thread[r]
  BY <1>4, <1>7
<1>. QED
  BY <1>6, <1>7, NextIs, StepTypeInv, CrashKeeps DEF OnlyThread

-----------------------------------------------------------------------------
(* The status of a ticket. *)

\* An update settles by its save.
LEMMA SettledSteps ==
  ASSUME TypeInv, RowInv, TypeInv', RowInv', [Next]_vars, NEW t, NEW a \in Settled(t)'
  PROVE  /\ a \in Requests
         /\ \/ a \in Settled(t)
            \/ Step(a) /\ updateTicketStatusSave(a) /\ thread[a].req.ticketId = t
<1>1. a \in Requests /\ Updates(a, t)' /\ (thread'[a].pc \in {"notify", "posted"} \/ Succeeded(a)')
  BY DEF Settled
<1>2. CASE thread'[a] = thread[a]
  BY <1>1, <1>2 DEF Settled, Updates, Asks, Succeeded
<1>3. CASE Crash
  BY <1>1, <1>2, <1>3, CrashKeeps DEF Succeeded
<1>4. CASE Step(a)
  <2>1. thread[a].pc \notin {"idle", "done"}
    <3>1. Accept(a) => thread'[a].pc = "start" /\ thread'[a].answer = thread[a].answer
      BY <1>1 DEF Accept, TypeInv, TypeOK, Thread
    <3>2. thread[a].pc = "idle" => thread[a].answer = "none"
      BY <1>1 DEF RowInv, SavedOK
    <3>. QED
      BY <1>1, <1>4, <3>1, <3>2, PointSteps, StepRuns DEF Succeeded
  <2>2. Updates(a, t) /\ thread'[a].req = thread[a].req
    BY <1>1, <2>1, Remembers DEF Updates, Asks
  <2>3. CASE thread'[a].pc \in {"notify", "posted"}
    <3>1. thread'[a].saved # NoId
      BY <1>1, <2>3 DEF RowInv, SavedOK
    <3>2. thread[a].saved # NoId
      BY <1>1, <1>4, <2>2, <2>3, <3>1, HistoryInsert DEF Updates, Asks
    <3>3. thread[a].pc \in {"saveStatus", "notify", "posted"}
      BY <1>1, <2>1, <3>2 DEF RowInv, SavedOK
    <3>4. ~ Reply(a, "500")
      BY <1>1, <2>3 DEF Reply, TypeInv, TypeOK, Thread
    <3>. QED
      BY <1>1, <1>4, <2>2, <3>3, <3>4, PointSteps DEF Settled, Updates
  <2>4. CASE Succeeded(a)'
    <3>1. ~ Succeeded(a)
      BY <1>1, <2>1 DEF RowInv, SavedOK, Succeeded
    <3>2. ~ createTicketSaveTicket(a)
      BY <1>1, <2>2 DEF createTicketSaveTicket, TypeInv, ThreadsOK, ThreadOK, Updates, Asks
    <3>3. NothingToNotify(a) \/ inviaNotificaReturns(a)
      BY <1>1, <1>4, <2>4, <3>1, <3>2, SuccessSteps
    <3>. QED
      BY <1>1, <2>2, <3>3 DEF NothingToNotify, inviaNotificaReturns, Settled
  <2>. QED
    BY <1>1, <2>3, <2>4
<1>5. ASSUME NEW r \in Requests, Step(r), r # a PROVE thread'[a] = thread[a]
  BY <1>1, <1>5, StepTypeInv DEF OnlyThread
<1>. QED
  BY <1>1, <1>2, <1>3, <1>4, <1>5, NextIs

\* No entity gets out of date while the status of its ticket stays.
LEMMA OutdatedSteps ==
  ASSUME TypeInv, RowInv, TypeInv', RowInv', [Next]_vars, NEW t \in DOMAIN ticketTable,
         ticketTable'[t].ticketStatus = ticketTable[t].ticketStatus, NEW a \in Outdated(t)'
  PROVE  a \in Outdated(t)
<1>1. /\ a \in Requests /\ Updates(a, t)'
      /\ thread'[a].pc \in {"profile", "saveHistory", "saveStatus"}
      /\ thread'[a].ticket.ticketStatus # ticketTable[t].ticketStatus
  BY DEF Outdated
<1>2. CASE /\ thread[a].pc \in {"profile", "saveHistory", "saveStatus"}
           /\ thread'[a].ticket = thread[a].ticket /\ thread'[a].req = thread[a].req
  BY <1>1, <1>2 DEF Outdated, Updates, Asks
<1>3. CASE Step(a)
  <2>1. CASE thread'[a].pc \in {"profile", "saveHistory"}
    <3>1. ~ (LoadStep(a) /\ thread[a].pc # "idle")
      BY <1>1 DEF LoadStep, Updates
    <3>. QED
      BY <1>1, <1>2, <1>3, <2>1, <3>1, HoldingUpdate DEF Updates, Asks
  <2>2. CASE thread'[a].pc = "saveStatus"
    <3>1. CASE thread[a].saved = NoId
      <4>1. thread'[a].saved # NoId
        BY <1>1, <2>2 DEF RowInv, SavedOK
      <4>. QED
        BY <1>1, <1>2, <1>3, <3>1, <4>1, HistoryInsert DEF Updates, Asks
    <3>2. CASE thread[a].saved # NoId
      <4>1. thread[a].pc \in {"saveStatus", "notify", "posted"}
        BY <1>1, <1>3, <3>2, StepRuns DEF RowInv, SavedOK
      <4>2. thread[a].pc # "saveStatus"
        <5>1. ~ Reply(a, "500")
          BY <1>1, <2>2 DEF Reply, TypeInv, TypeOK, Thread
        <5>. QED
          BY <1>1, <1>3, <2>2, <5>1, WriteSteps, PointSteps
      <4>3. ~ QuietStep(a) /\ ~ LoadStep(a)
        BY <2>2 DEF QuietStep, LoadStep
      <4>. QED
        BY <1>1, <1>3, <2>2, <4>1, <4>2, <4>3, StepKinds, WriteSteps DEF KnownKind
    <3>. QED
      BY <3>1, <3>2
  <2>. QED
    BY <1>1, <2>1, <2>2
<1>4. CASE Crash
  BY <1>1, <1>2, <1>4, CrashKeeps
<1>5. ASSUME NEW r \in Requests, Step(r), r # a PROVE thread'[a] = thread[a]
  BY <1>1, <1>5, StepTypeInv DEF OnlyThread
<1>6. CASE thread'[a] = thread[a]
  BY <1>1, <1>2, <1>6
<1>. QED
  BY <1>1, <1>3, <1>4, <1>5, <1>6, NextIs

\* What the save of an update does to its ticket.
LEMMA SaveFields ==
  ASSUME TypeInv, NEW r \in Requests, updateTicketStatusSave(r)
  PROVE  /\ thread[r].pc = "saveStatus" /\ thread'[r].pc = "notify"
         /\ thread'[r].req = thread[r].req
         /\ (DOMAIN ticketTable)' = DOMAIN ticketTable
         /\ \A t \in DOMAIN ticketTable :
              \/ ticketTable'[t].ticketStatus = ticketTable[t].ticketStatus
              \/ t = thread[r].req.ticketId /\ ticketTable'[t].ticketStatus = thread[r].req.stato
         /\ \/ ticketTable'[thread[r].req.ticketId].ticketStatus = thread[r].req.stato
            \/ /\ ticketTable' = ticketTable
               /\ thread[r].ticket.ticketStatus = thread[r].req.stato
<1> DEFINE t == thread[r].req.ticketId
           to == thread[r].req.stato
           ticket == [thread[r].ticket EXCEPT !.ticketStatus = to]
<1>1. /\ thread[r].pc = "saveStatus"
      /\ ticketTable' = IF ticket = thread[r].ticket THEN ticketTable
                                                    ELSE [ticketTable EXCEPT ![t] = ticket]
      /\ thread' = [thread EXCEPT ![r] = [@ EXCEPT !.pc = "notify", !.ticket = ticket]]
  BY DEF updateTicketStatusSave, updateTicket
<1>2. /\ thread[r].ticket \in TicketRow /\ to \in TicketStatus /\ t \in DOMAIN ticketTable
      /\ ticketTable \in Seq(TicketRow)
  BY <1>1 DEF TypeInv, TypeOK, DbTypeOK, ThreadsOK, ThreadOK, EntitiesOK, EntityOK, HoldsTicket
<1>3. ticket.ticketStatus = to /\ ticket \in TicketRow
  BY <1>2 DEF TicketRow
<1>4. thread'[r].pc = "notify" /\ thread'[r].req = thread[r].req
  BY <1>1 DEF TypeInv, TypeOK, Thread
<1> HIDE DEF t, to, ticket
<1>5. CASE ticket = thread[r].ticket
  BY <1>1, <1>3, <1>4, <1>5 DEF t, to
<1>6. CASE ticket # thread[r].ticket
  <2>1. ticketTable' = [ticketTable EXCEPT ![t] = ticket]
    BY <1>1, <1>6
  <2>2. /\ (DOMAIN ticketTable)' = DOMAIN ticketTable
        /\ \A s \in DOMAIN ticketTable : ticketTable'[s] = IF s = t THEN ticket ELSE ticketTable[s]
    BY <1>2, <1>3, <2>1, UpdateRow
  <2>3. ticketTable'[t].ticketStatus = to
    BY <1>2, <1>3, <2>2
  <2>4. \A s \in DOMAIN ticketTable :
          s # t => ticketTable'[s].ticketStatus = ticketTable[s].ticketStatus
    BY <2>2
  <2>. QED
    BY <1>1, <1>4, <2>2, <2>3, <2>4 DEF t, to
<1>. QED
  BY <1>5, <1>6

\* Which tickets a step opens and which statuses it changes.
LEMMA TicketSteps ==
  ASSUME TypeInv, StatusInv, RowInv, [Next]_vars, NEW t \in (DOMAIN ticketTable)'
  PROVE  \/ /\ t \in DOMAIN ticketTable
            /\ ticketTable'[t].ticketStatus = ticketTable[t].ticketStatus
         \/ \E r \in Requests :
              /\ Step(r) /\ updateTicketStatusSave(r) /\ thread[r].req.ticketId = t
              /\ t \in DOMAIN ticketTable
              /\ ticketTable'[t].ticketStatus = thread[r].req.stato
         \/ \E r \in Requests :
              /\ Step(r) /\ OpenStep(r) /\ t \notin DOMAIN ticketTable
              /\ ticketTable'[t].ticketStatus = StartStatus(t)
<1>1. CASE ticketTable' = ticketTable
  BY <1>1
<1>2. ASSUME NEW r \in Requests, Step(r), OpenStep(r)
      PROVE  \/ t \in DOMAIN ticketTable /\ ticketTable'[t] = ticketTable[t]
             \/ /\ t \notin DOMAIN ticketTable
                /\ ticketTable'[t].ticketStatus = StartStatus(t)
  <2> DEFINE row == [ticketStatus |-> "PRESO_IN_CARICO",
                     creatoDa |-> thread[r].creatoDa, assegnatoA |-> NoId]
  <2>1. ticketTable' = Append(ticketTable, row)
    BY <1>2 DEF OpenStep, createTicketSaveTicket, insertTicket
  <2>2. ticketTable \in Seq(TicketRow) /\ row \in TicketRow
    BY DEF TypeInv, TypeOK, DbTypeOK, Thread, TicketRow, TicketStatus, NoId
  <2>3. \/ t \in DOMAIN ticketTable /\ ticketTable'[t] = ticketTable[t]
        \/ t \notin DOMAIN ticketTable /\ ticketTable'[t] = row
    BY <2>1, <2>2, AppendRow
  <2>4. t \notin DOMAIN ticketTable => StartStatus(t) = "PRESO_IN_CARICO"
    BY DEF StatusInv, FirstTicketsStay, StartStatus
  <2>. QED
    BY <2>3, <2>4
<1>3. ASSUME NEW r \in Requests, Step(r), updateTicketStatusSave(r)
      PROVE  /\ t \in DOMAIN ticketTable
             /\ \/ ticketTable'[t].ticketStatus = ticketTable[t].ticketStatus
                \/ /\ t = thread[r].req.ticketId
                   /\ ticketTable'[t].ticketStatus = thread[r].req.stato
  BY <1>3, SaveFields
<1>4. ASSUME NEW r \in Requests, Step(r), ticketTable' # ticketTable
      PROVE  OpenStep(r) \/ updateTicketStatusSave(r)
  BY <1>4, StepKinds DEF KnownKind, QuietStep, LoadStep, updateTicketStatusSaveHistory
<1>. QED
  BY <1>1, <1>2, <1>3, <1>4, NextIs DEF Crash, dbVars

\* Nobody has been asked to change a ticket that is not there yet.
LEMMA NewTicket ==
  ASSUME TypeInv, RowInv, TypeInv', RowInv', [Next]_vars, NEW t, t \notin DOMAIN ticketTable,
         NEW r \in Requests, Step(r), OpenStep(r)
  PROVE  Settled(t)' = {} /\ Outdated(t)' = {}
<1>1. thread[r].req.op = "createTicket" /\ thread'[r].req = thread[r].req
  BY DEF OpenStep, createTicketSaveTicket, TypeInv, TypeOK, ThreadsOK, ThreadOK, Thread
<1>2. SUFFICES ASSUME NEW a \in Requests, Updates(a, t)',
                      \/ thread'[a].pc \in {"profile", "saveHistory", "saveStatus", "notify", "posted"}
                      \/ Succeeded(a)'
               PROVE  FALSE
  BY DEF Settled, Outdated
<1>3. a # r
  BY <1>1, <1>2 DEF Updates, Asks
<1>4. thread'[a] = thread[a]
  BY <1>3, StepTypeInv DEF OnlyThread
<1>5. ~ HoldsTicket(a)
  BY <1>2, <1>4 DEF TypeInv, EntitiesOK, EntityOK, Updates
<1>6. Succeeded(a) /\ thread[a].req.op = "updateTicketStatus" /\ thread[a].req.ticketId = t
  BY <1>2, <1>4, <1>5 DEF HoldsTicket, Succeeded, Updates, Asks
<1>7. \E i \in DOMAIN historyTable : historyTable[i].ticket = t
  BY <1>6 DEF RowInv, SavedOK
<1>. QED
  BY <1>7 DEF TypeInv, TypeOK, DbTypeOK

\* What an update sets is newer than whatever was over when any request was taken.
LEMMA SaveIsNewest ==
  ASSUME TypeInv, RowInv, TypeInv', RowInv', EarlierOver', [Next]_vars,
         NEW r \in Requests, Step(r), updateTicketStatusSave(r),
         NEW A \in SUBSET Requests
  PROVE  May(thread', thread[r].req.ticketId, thread[r].req.stato, Rows' + 1, A)
<1>1. /\ thread'[r].pc = "notify" /\ thread'[r].req = thread[r].req
      /\ thread[r].req.op = "updateTicketStatus"
  BY SaveFields DEF TypeInv, ThreadsOK, ThreadOK
<1>2. thread'[r].saved \in 1 .. Rows'
  <2>1. SavedOK(r)'
    BY DEF RowInv
  <2>2. thread'[r].saved \in (DOMAIN historyTable)'
    BY <1>1, <2>1 DEF SavedOK
  <2>. QED
    BY <2>2, NextHistory
<1>3. thread'[r].saved \in 1 .. (Rows' + 1) - 1
  BY <1>2, NextHistory
<1>4. \A a \in A : r \notin thread'[a].earlier
  BY <1>1 DEF EarlierOver, Over
<1>. QED
  BY <1>1, <1>3, <1>4 DEF May

LEMMA NextStatusUpToDate ==
  ASSUME TypeInv, StatusInv, RowInv, EarlierOver, UpToDateInv, TypeInv', RowInv', EarlierOver',
         [Next]_vars
  PROVE  StatusIsUpToDate'
<1> SUFFICES ASSUME NEW t \in (DOMAIN ticketTable)'
             PROVE  MayFind(t, ticketTable[t].ticketStatus, Rows + 1, Settled(t) \cup Outdated(t))'
  BY DEF StatusIsUpToDate
<1>1. PICK B, v : B = (Settled(t) \cup Outdated(t))' /\ v = ticketTable'[t].ticketStatus
  OBVIOUS
<1>2. SUFFICES May(thread', t, v, Rows' + 1, B)
  BY <1>1 DEF MayFind, May, Asks, NotReplaced
<1>3. Rows + 1 \in Nat /\ Rows' + 1 \in Nat /\ Rows + 1 <= Rows' + 1
  BY NextHistory
<1>4. B \in SUBSET Requests
  BY <1>1 DEF Settled, Outdated
<1>5. CASE \E r \in Requests :
             /\ Step(r) /\ updateTicketStatusSave(r) /\ thread[r].req.ticketId = t
             /\ v = thread[r].req.stato
  BY <1>4, <1>5, SaveIsNewest
<1>6. CASE \E r \in Requests :
             /\ Step(r) /\ OpenStep(r) /\ t \notin DOMAIN ticketTable /\ v = StartStatus(t)
  BY <1>1, <1>6, NewTicket DEF May
<1>7. CASE /\ t \in DOMAIN ticketTable /\ v = ticketTable[t].ticketStatus
           /\ ~ \E r \in Requests :
                  /\ Step(r) /\ updateTicketStatusSave(r) /\ thread[r].req.ticketId = t
                  /\ v = thread[r].req.stato
  <2> DEFINE W == Settled(t) \cup Outdated(t)
  <2>1. ASSUME NEW a \in Outdated(t)' PROVE a \in W
    BY <1>1, <1>7, OutdatedSteps
  <2>2. ASSUME NEW a \in Settled(t)' PROVE a \in W
    <3>1. CASE a \in Requests /\ Step(a) /\ updateTicketStatusSave(a) /\ thread[a].req.ticketId = t
      <4>1. /\ thread[a].pc = "saveStatus" /\ thread[a].ticket.ticketStatus = thread[a].req.stato
            /\ v # thread[a].req.stato
        BY <1>1, <1>7, <3>1, SaveFields
      <4>2. thread[a].req.op = "updateTicketStatus"
        BY <3>1, <4>1 DEF TypeInv, ThreadsOK, ThreadOK
      <4>. QED
        BY <1>7, <3>1, <4>1, <4>2 DEF Outdated, Updates, Asks
    <3>. QED
      BY <3>1, SettledSteps
  <2>3. /\ B \in SUBSET W /\ W \in SUBSET Requests
        /\ \A a \in B : thread[a].pc # "idle"
    BY <1>1, <2>1, <2>2 DEF Settled, Outdated, Updates, Asks
  <2>4. May(thread, t, v, Rows + 1, W)
    BY <1>7 DEF UpToDateInv, StatusIsUpToDate, MayFind, May, Asks, NotReplaced
  <2> HIDE DEF W
  <2>. QED
    BY <1>3, <2>3, <2>4, MayStays
<1>. QED
  BY <1>1, <1>5, <1>6, <1>7, TicketSteps

-----------------------------------------------------------------------------
LEMMA InitUpToDate == Init => UpToDateInv
<1> SUFFICES ASSUME Init PROVE UpToDateInv
  OBVIOUS
<1>1. \A r \in Requests : thread[r].pc = "idle" /\ thread[r].saved = NoId
  BY DEF Init, RequestsInit, IdleThread
<1>2. \A t \in DOMAIN ticketTable :
        /\ Settled(t) \cup Outdated(t) = {}
        /\ ticketTable[t].ticketStatus = StartStatus(t)
  BY <1>1 DEF Init, DbInit, Settled, Outdated, Updates, Asks, StartStatus
<1>. QED
  BY <1>1, <1>2 DEF UpToDateInv, StatusIsUpToDate, EntitiesAreUpToDate, HistoryIsUpToDate, MayFind,
     Asks

LEMMA NextUpToDate ==
  /\ TypeInv /\ StatusInv /\ RowInv /\ EarlierOver /\ UpToDateInv
  /\ TypeInv' /\ RowInv' /\ EarlierOver' /\ [Next]_vars
  => UpToDateInv'
  BY NextStatusUpToDate, NextEntitiesUpToDate, NextRowsUpToDate DEF UpToDateInv

\* A history row never starts from a status that an acknowledged update had replaced
\* before the request of the row was sent, however updates overlap, are cut short or
\* lose their writes (findById, two saves later the row of updateTicketStatus).
THEOREM NoOutdatedHistory == Spec => []HistoryIsUpToDate
<1>1. UpToDateInv => HistoryIsUpToDate
  BY DEF UpToDateInv
<1>. QED
  BY <1>1, InitUpToDate, NextUpToDate, NextTypeInv, NextRowInv, NextEarlier, ThreadsCorrect,
     StatusInvariant, RowInvariant, EarlierInvariant, PTL DEF Spec
=============================================================================
