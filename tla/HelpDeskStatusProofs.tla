-------------------------- MODULE HelpDeskStatusProofs --------------------------
(***************************************************************************)
(* Proofs that every status and every history row is accounted for by the   *)
(* rows before it, whatever the interleaving and the faults.                *)
(***************************************************************************)
EXTENDS HelpDeskProofs

USE DEF mailVars

-----------------------------------------------------------------------------
(* Every step of a request is of one of five kinds. *)

\* Tickets and history stay, and so does what the handler holds of its ticket.
QuietStep(r) ==
  /\ UNCHANGED <<ticketTable, historyTable>>
  /\ thread'[r].pc # "saveStatus"
  /\ HoldsTicket(r)' => /\ HoldsTicket(r)
                        /\ thread'[r].ticket = thread[r].ticket
                        /\ thread'[r].req = thread[r].req

\* findById returns a ticket.
LoadStep(r) ==
  /\ UNCHANGED <<ticketTable, historyTable>>
  /\ thread'[r].pc = "profile"
  /\ thread'[r].req.ticketId \in DOMAIN ticketTable
  /\ thread'[r].ticket = ticketTable[thread'[r].req.ticketId]

OpenStep(r) == createTicketSaveTicket(r) /\ thread[r].req.body = "present"

KnownKind(r) ==
  \/ QuietStep(r) \/ LoadStep(r) \/ OpenStep(r)
  \/ updateTicketStatusSaveHistory(r) \/ updateTicketStatusSave(r)

LEMMA ReplyIsQuiet ==
  ASSUME TypeInv, NEW r \in Requests, NEW code, Reply(r, code),
         UNCHANGED <<ticketTable, historyTable>>
  PROVE  QuietStep(r)
  BY DEF TypeInv, TypeOK, Thread, Reply, QuietStep, HoldsTicket

LEMMA FindByIdLoads ==
  ASSUME TypeInv, NEW r \in Requests, UNCHANGED <<ticketTable, historyTable>>,
         NEW t \in DOMAIN ticketTable, t = thread[r].req.ticketId,
         thread' = [thread EXCEPT ![r] = [@ EXCEPT !.pc = "profile", !.ticket = ticketTable[t]]]
  PROVE  LoadStep(r)
<1>1. thread'[r] = [thread[r] EXCEPT !.pc = "profile", !.ticket = ticketTable[t]]
  BY DEF TypeInv, TypeOK
<1>2. /\ thread'[r].pc = "profile"
      /\ thread'[r].ticket = ticketTable[t]
      /\ thread'[r].req = thread[r].req
  BY <1>1 DEF TypeInv, TypeOK, Thread
<1>. QED
  BY <1>2 DEF LoadStep

LEMMA CreateKinds ==
  ASSUME TypeInv, NEW r \in Requests, Create(r) PROVE KnownKind(r)
<1> USE DEF TypeInv, TypeOK
<1>1. CASE createTicket(r) \/ createTicketProfile(r)
  <2>1. UNCHANGED <<ticketTable, historyTable>>
    BY <1>1 DEF createTicket, createTicketProfile, dbVars
  <2>2. CASE Reply(r, "401")
    BY <2>1, <2>2, ReplyIsQuiet DEF KnownKind
  <2>3. CASE Goto(r, "profile") \/ Goto(r, "findUser")
    BY <1>1, <2>1, <2>3 DEF createTicket, createTicketProfile, getUserProfile, At, Goto,
       Thread, KnownKind, QuietStep, HoldsTicket
  <2>. QED
    BY <1>1, <2>2, <2>3 DEF createTicket, createTicketProfile
<1>2. CASE createTicketFindUser(r)
  <2>1. UNCHANGED <<ticketTable, historyTable>>
    BY <1>2 DEF createTicketFindUser, dbVars
  <2>2. thread'[r].pc \in {"saveUser", "saveTicket", "done"}
    BY <1>2 DEF createTicketFindUser, Goto, Reply, Thread
  <2>. QED
    BY <2>1, <2>2 DEF KnownKind, QuietStep, HoldsTicket
<1>3. CASE createTicketSaveUser(r)
  BY <1>3 DEF createTicketSaveUser, Thread, KnownKind, QuietStep, HoldsTicket
<1>4. CASE createTicketSaveTicket(r)
  <2>1. CASE Reply(r, "500") /\ UNCHANGED ticketTable
    BY <1>4, <2>1, ReplyIsQuiet DEF createTicketSaveTicket, KnownKind
  <2>. QED
    BY <1>4, <2>1 DEF createTicketSaveTicket, KnownKind, OpenStep
<1>. QED
  BY <1>1, <1>2, <1>3, <1>4 DEF Create

LEMMA AssegnaKinds ==
  ASSUME TypeInv, NEW r \in Requests, Assegna(r) PROVE KnownKind(r)
<1> USE DEF TypeInv, TypeOK
<1>1. CASE assegnaOperatore(r)
  <2>1. UNCHANGED <<ticketTable, historyTable>>
    BY <1>1 DEF assegnaOperatore, dbVars
  <2>2. CASE \E code \in {"404", "400"} : Reply(r, code)
    BY <2>1, <2>2, ReplyIsQuiet DEF KnownKind
  <2>3. CASE ~ \E code \in {"404", "400"} : Reply(r, code)
    BY <1>1, <2>1, <2>3, FindByIdLoads DEF assegnaOperatore, KnownKind
  <2>. QED
    BY <2>2, <2>3
<1>2. CASE assegnaOperatoreProfile(r)
  <2>1. UNCHANGED <<ticketTable, historyTable>>
    BY <1>2 DEF assegnaOperatoreProfile, dbVars
  <2>2. CASE Reply(r, "403")
    BY <2>1, <2>2, ReplyIsQuiet DEF KnownKind
  <2>3. CASE Goto(r, "saveAssignment")
    BY <1>2, <2>1, <2>3 DEF assegnaOperatoreProfile, getUserProfile, At, Goto, Thread,
       KnownKind, QuietStep, HoldsTicket
  <2>. QED
    BY <1>2, <2>2, <2>3 DEF assegnaOperatoreProfile
<1>3. CASE assegnaOperatoreSave(r)
  <2>1. Reply(r, "500") /\ UNCHANGED <<ticketTable, historyTable>>
    BY <1>3, AssegnaOperatoreIsRefused DEF dbVars
  <2>. QED
    BY <2>1, ReplyIsQuiet DEF KnownKind
<1>. QED
  BY <1>1, <1>2, <1>3 DEF Assegna

LEMMA LoadTicketKinds ==
  ASSUME TypeInv, NEW r \in Requests, LoadTicket(r), UNCHANGED <<ticketTable, historyTable>>
  PROVE  KnownKind(r)
<1>1. CASE \E code \in {"401", "404"} : Reply(r, code)
  BY <1>1, ReplyIsQuiet DEF KnownKind
<1>2. CASE ~ \E code \in {"401", "404"} : Reply(r, code)
  BY <1>2, FindByIdLoads DEF LoadTicket, KnownKind
<1>. QED
  BY <1>1, <1>2

LEMMA UpdateStatusKinds ==
  ASSUME TypeInv, NEW r \in Requests, UpdateStatus(r) PROVE KnownKind(r)
<1> USE DEF TypeInv, TypeOK
<1>1. CASE updateTicketStatus(r)
  BY <1>1, LoadTicketKinds DEF updateTicketStatus, dbVars
<1>2. CASE updateTicketStatusProfile(r)
  <2>1. UNCHANGED <<ticketTable, historyTable>>
    BY <1>2 DEF updateTicketStatusProfile, dbVars
  <2>2. CASE \E code \in {"400", "403", "500"} : Reply(r, code)
    BY <2>1, <2>2, ReplyIsQuiet DEF KnownKind
  <2>3. CASE Goto(r, "saveHistory")
    BY <1>2, <2>1, <2>3 DEF updateTicketStatusProfile, getUserProfile, At, Goto, Thread,
       KnownKind, QuietStep, HoldsTicket
  <2>. QED
    BY <1>2, <2>2, <2>3 DEF updateTicketStatusProfile
<1>. QED
  BY <1>1, <1>2 DEF UpdateStatus, KnownKind

LEMMA MessageKinds ==
  ASSUME TypeInv, NEW r \in Requests, Message(r) PROVE KnownKind(r)
<1> USE DEF TypeInv, TypeOK
<1>1. CASE sendMessage(r)
  BY <1>1, LoadTicketKinds DEF sendMessage, dbVars
<1>2. CASE sendMessageProfile(r)
  BY <1>2 DEF sendMessageProfile, getUserProfile, At, Goto, Thread, KnownKind, QuietStep,
     HoldsTicket, dbVars
<1>3. CASE sendMessageSave(r)
  BY <1>3 DEF sendMessageSave, Thread, KnownKind, QuietStep, HoldsTicket
<1>. QED
  BY <1>1, <1>2, <1>3 DEF Message

LEMMA StepKinds ==
  ASSUME TypeInv, NEW r \in Requests, Step(r) PROVE KnownKind(r)
<1>1. CASE Notify(r)
  <2>1. UNCHANGED <<ticketTable, historyTable>>
    BY <1>1 DEF Notify, NothingToNotify, inviaNotifica, inviaNotificaReturns,
       inviaNotificaFails, dbVars
  <2>2. CASE \E code : Reply(r, code)
    BY <2>1, <2>2, ReplyIsQuiet DEF KnownKind
  <2>3. CASE inviaNotifica(r)
    BY <2>1, <2>3 DEF inviaNotifica, Goto, TypeInv, TypeOK, Thread, KnownKind, QuietStep,
       HoldsTicket
  <2>. QED
    BY <1>1, <2>2, <2>3 DEF Notify, NothingToNotify, inviaNotificaReturns, inviaNotificaFails
<1>2. CASE Surroundings(r)
  <2>1. UNCHANGED <<ticketTable, historyTable>>
    BY <1>2 DEF Surroundings, Accept, getUserProfileFails, DatabaseFails, dbVars
  <2>2. CASE Reply(r, "500")
    BY <2>1, <2>2, ReplyIsQuiet DEF KnownKind
  <2>3. CASE Accept(r)
    BY <2>1, <2>3 DEF Accept, TypeInv, TypeOK, Thread, KnownKind, QuietStep, HoldsTicket
  <2>. QED
    BY <1>2, <2>2, <2>3 DEF Surroundings, getUserProfileFails, DatabaseFails
<1>. QED
  BY <1>1, <1>2, CreateKinds, AssegnaKinds, UpdateStatusKinds, MessageKinds DEF Step

-----------------------------------------------------------------------------
(* The history only grows, and with it what it has recorded. *)

HistoryGrows ==
  /\ Rows \in Nat /\ Rows' \in Nat /\ Rows <= Rows'
  /\ DOMAIN historyTable = 1 .. Rows
  /\ (DOMAIN historyTable)' = 1 .. Rows'
  /\ \A i \in DOMAIN historyTable : historyTable'[i] = historyTable[i]

LEMMA SameHistory ==
  ASSUME TypeInv, UNCHANGED historyTable PROVE HistoryGrows
  BY DEF TypeInv, TypeOK, DbTypeOK, HistoryGrows, Rows

\* What was seen stays seen; what the newest row records is seen.
LEMMA SeenGrows ==
  ASSUME HistoryGrows, NEW t
  PROVE  /\ SeenBefore(t, Rows + 1) \subseteq SeenBefore(t, Rows + 1)'
         /\ \A n \in 1 .. Rows + 1 : SeenBefore(t, n) \subseteq SeenBefore(t, n)'
<1> SUFFICES ASSUME NEW n \in Nat, NEW m \in Nat, n <= m, n <= Rows + 1
             PROVE  SeenBefore(t, n) \subseteq
                      {StartStatus(t)} \cup
                      {historyTable'[i].statoSuccessivo :
                         i \in {j \in (DOMAIN historyTable)' : historyTable'[j].ticket = t /\ j < m}}
  BY DEF HistoryGrows, SeenBefore, historyOf
<1>. QED
  BY DEF HistoryGrows, SeenBefore, historyOf

RowIsExplained(i) == historyTable[i].statoPrecedente \in SeenBefore(historyTable[i].ticket, i)

\* The status invariant is kept by a step that, at most, opens a ticket or sets
\* a status that is recorded, and inserts a history row that is explained.
LEMMA StatusFrame ==
  ASSUME TypeInv, StatusInv, NEW r \in Requests, OnlyThread(r), TablesGrow, HistoryGrows,
         \A t \in (DOMAIN ticketTable)' :
           \/ /\ t \in DOMAIN ticketTable
              /\ \/ ticketTable'[t].ticketStatus = ticketTable[t].ticketStatus
                 \/ ticketTable'[t].ticketStatus \in SeenBefore(t, Rows + 1)
           \/ /\ t \notin DOMAIN ticketTable
              /\ ticketTable'[t].ticketStatus = "PRESO_IN_CARICO",
         \A i \in (DOMAIN historyTable)' \ DOMAIN historyTable : RowIsExplained(i)',
         HeldStatusOK(r)'
  PROVE  StatusInv'
<1>1. FirstTicketsStay'
  BY DEF StatusInv, FirstTicketsStay, TablesGrow
<1>2. HeldStatusesOK'
  <2> SUFFICES ASSUME NEW s \in Requests, s # r PROVE HeldStatusOK(s)'
    BY DEF HeldStatusesOK
  <2>1. HeldStatusOK(s) /\ thread'[s] = thread[s]
    BY DEF StatusInv, HeldStatusesOK, OnlyThread
  <2>2. PICK t : t = thread[s].req.ticketId
    OBVIOUS
  <2>3. SeenBefore(t, Rows + 1) \subseteq SeenBefore(t, Rows + 1)'
    BY SeenGrows
  <2>4. \A i \in historyOf(t) : i \in historyOf(t)' /\ historyTable'[i] = historyTable[i]
    BY DEF HistoryGrows, historyOf
  <2>. QED
    BY <2>1, <2>2, <2>3, <2>4 DEF HeldStatusOK, HoldsTicket, SeenBefore, historyOf
<1>3. StatusIsRecorded'
  <2> SUFFICES ASSUME NEW t \in (DOMAIN ticketTable)'
               PROVE  ticketTable'[t].ticketStatus \in SeenBefore(t, Rows + 1)'
    BY DEF StatusIsRecorded
  <2>1. CASE t \in DOMAIN ticketTable
    BY <2>1, SeenGrows DEF StatusInv, StatusIsRecorded
  <2>2. CASE t \notin DOMAIN ticketTable
    <3>1. StartStatus(t) = "PRESO_IN_CARICO"
      BY <2>2 DEF StatusInv, FirstTicketsStay, StartStatus
    <3>. QED
      BY <2>2, <3>1 DEF SeenBefore
  <2>. QED
    BY <2>1, <2>2
<1>4. HistoryIsExplained'
  <2> SUFFICES ASSUME NEW i \in DOMAIN historyTable PROVE RowIsExplained(i)'
    BY DEF HistoryIsExplained, RowIsExplained
  <2>1. historyTable'[i] = historyTable[i] /\ i \in 1 .. Rows + 1
    BY DEF HistoryGrows
  <2>2. PICK t : t = historyTable[i].ticket
    OBVIOUS
  <2>3. historyTable[i].statoPrecedente \in SeenBefore(t, i)
    BY <2>2 DEF StatusInv, HistoryIsExplained
  <2>4. SeenBefore(t, i) \subseteq SeenBefore(t, i)'
    BY <2>1, SeenGrows
  <2>. QED
    BY <2>1, <2>2, <2>3, <2>4 DEF RowIsExplained, SeenBefore, historyOf
<1>. QED
  BY <1>1, <1>2, <1>3, <1>4 DEF StatusInv

LEMMA InitStatusInv == Init => StatusInv
  BY InitialRowsAssumption
  DEF Init, DbInit, RequestsInit, IdleThread, StatusInv, FirstTicketsStay, HeldStatusesOK,
      HeldStatusOK, HoldsTicket, StatusIsRecorded, HistoryIsExplained,
      SeenBefore, StartStatus

LEMMA QuietStatusInv ==
  ASSUME TypeInv, StatusInv, NEW r \in Requests, OnlyThread(r), TablesGrow, QuietStep(r)
  PROVE  StatusInv'
<1>1. HistoryGrows
  BY SameHistory DEF QuietStep
<1>2. HeldStatusOK(r)'
  BY DEF StatusInv, HeldStatusesOK, HeldStatusOK, QuietStep, SeenBefore, historyOf, Rows
<1>. QED
  BY <1>1, <1>2, StatusFrame DEF QuietStep

LEMMA LoadStatusInv ==
  ASSUME TypeInv, StatusInv, NEW r \in Requests, OnlyThread(r), TablesGrow, LoadStep(r)
  PROVE  StatusInv'
<1>1. HistoryGrows
  BY SameHistory DEF LoadStep
<1>2. HeldStatusOK(r)'
  BY DEF StatusInv, StatusIsRecorded, HeldStatusOK, LoadStep, SeenBefore, historyOf, Rows
<1>. QED
  BY <1>1, <1>2, StatusFrame DEF LoadStep

LEMMA OpenStatusInv ==
  ASSUME TypeInv, StatusInv, NEW r \in Requests, OnlyThread(r), TablesGrow, OpenStep(r)
  PROVE  StatusInv'
<1> DEFINE row == [ticketStatus |-> "PRESO_IN_CARICO",
                   creatoDa |-> thread[r].creatoDa, assegnatoA |-> NoId]
<1>1. /\ ticketTable' = Append(ticketTable, row)
      /\ UNCHANGED historyTable
      /\ thread' = [thread EXCEPT ![r] =
                      [@ EXCEPT !.pc = "done", !.answer = "200", !.saved = Len(ticketTable) + 1]]
  BY DEF OpenStep, createTicketSaveTicket, insertTicket
<1>2. HistoryGrows
  BY <1>1, SameHistory
<1>3. HeldStatusOK(r)'
  BY <1>1 DEF TypeInv, TypeOK, Thread, HeldStatusOK, HoldsTicket
<1>4. ticketTable \in Seq(TicketRow) /\ row \in TicketRow
  BY DEF TypeInv, TypeOK, DbTypeOK, Thread, TicketRow, TicketStatus, NoId
<1>5. \A t \in (DOMAIN ticketTable)' :
        \/ t \in DOMAIN ticketTable /\ ticketTable'[t] = ticketTable[t]
        \/ t \notin DOMAIN ticketTable /\ ticketTable'[t] = row
  BY <1>1, <1>4, AppendRow
<1>. QED
  BY <1>1, <1>2, <1>3, <1>5, StatusFrame

\* The row inserted is explained by what the entity was read from.
LEMMA SaveHistoryStatusInv ==
  ASSUME TypeInv, StatusInv, NEW r \in Requests, OnlyThread(r), TablesGrow,
         updateTicketStatusSaveHistory(r)
  PROVE  StatusInv'
<1> DEFINE row == [ticket |-> thread[r].req.ticketId,
                   statoPrecedente |-> thread[r].ticket.ticketStatus,
                   statoSuccessivo |-> thread[r].req.stato,
                   modificatoDa |-> thread[r].req.caller]
<1>1. /\ thread[r].pc = "saveHistory"
      /\ historyTable' = Append(historyTable, row)
      /\ UNCHANGED ticketTable
      /\ thread' = [thread EXCEPT ![r] =
                      [@ EXCEPT !.pc = "saveStatus", !.saved = Len(historyTable) + 1]]
  BY DEF updateTicketStatusSaveHistory, insertHistory
<1>2. historyTable \in Seq(HistoryRow) /\ row \in HistoryRow
  <2>1. /\ thread[r].req.ticketId \in DOMAIN ticketTable /\ thread[r].ticket \in TicketRow
        /\ thread[r].req.stato \in TicketStatus /\ thread[r].req.caller \in ExternalId
    BY <1>1 DEF TypeInv, ThreadsOK, ThreadOK, EntitiesOK, EntityOK, HoldsTicket
  <2>2. thread[r].req.ticketId \in Nat
    BY <2>1, Keys DEF TypeInv, TypeOK, DbTypeOK
  <2>. QED
    BY <2>1, <2>2 DEF TypeInv, TypeOK, DbTypeOK, HistoryRow, TicketRow
<1>3. HistoryGrows /\ Rows' = Rows + 1 /\ historyTable'[Rows + 1] = row
  BY <1>1, <1>2, AppendRow DEF HistoryGrows, Rows
<1>4. PICK t : t = thread[r].req.ticketId
  OBVIOUS
<1>5. thread[r].ticket.ticketStatus \in SeenBefore(t, Rows + 1)
  BY <1>1, <1>4 DEF StatusInv, HeldStatusesOK, HeldStatusOK, HoldsTicket
<1>6. thread[r].ticket.ticketStatus \in SeenBefore(t, Rows + 1)'
  BY <1>5, SeenGrows, <1>3
<1>7. \E i \in historyOf(t)' : historyTable'[i].statoSuccessivo = thread[r].req.stato
  <2>1. Rows + 1 \in (DOMAIN historyTable)'
    BY <1>3 DEF HistoryGrows
  <2>. QED
    BY <1>3, <1>4, <2>1 DEF historyOf
<1>8. HeldStatusOK(r)'
  <2>1. /\ thread'[r].req.ticketId = t /\ thread'[r].ticket = thread[r].ticket
        /\ thread'[r].req.stato = thread[r].req.stato
    BY <1>1, <1>4 DEF TypeInv, TypeOK, Thread
  <2>. QED
    BY <1>6, <1>7, <2>1 DEF HeldStatusOK, SeenBefore, historyOf
<1>9. ASSUME NEW i \in (DOMAIN historyTable)' \ DOMAIN historyTable PROVE RowIsExplained(i)'
  <2>1. i = Rows + 1
    BY <1>3 DEF HistoryGrows
  <2>2. thread[r].ticket.ticketStatus \in
          {StartStatus(t)} \cup {historyTable'[k].statoSuccessivo :
             k \in {j \in (DOMAIN historyTable)' : historyTable'[j].ticket = t /\ j < i}}
    BY <1>3, <1>5, <2>1 DEF SeenBefore, historyOf, HistoryGrows
  <2>3. historyTable'[i] = row
    BY <1>3, <2>1
  <2>. QED
    BY <1>4, <2>2, <2>3 DEF RowIsExplained, SeenBefore, historyOf
<1>. QED
  BY <1>1, <1>3, <1>8, <1>9, StatusFrame

\* The status written is the one the handler's history row recorded, and nothing
\* else of the row changes.
LEMMA SaveStatusInv ==
  ASSUME TypeInv, StatusInv, NEW r \in Requests, OnlyThread(r), TablesGrow,
         updateTicketStatusSave(r)
  PROVE  StatusInv'
<1> DEFINE ticket == [thread[r].ticket EXCEPT !.ticketStatus = thread[r].req.stato]
<1>1. /\ thread[r].pc = "saveStatus"
      /\ ticketTable' \in {ticketTable, [ticketTable EXCEPT ![thread[r].req.ticketId] = ticket]}
      /\ UNCHANGED historyTable
      /\ thread' = [thread EXCEPT ![r] = [@ EXCEPT !.pc = "notify", !.ticket = ticket]]
  BY DEF updateTicketStatusSave, updateTicket
<1>2. HistoryGrows /\ Rows' = Rows
  BY <1>1, SameHistory DEF Rows
<1>3. /\ thread[r].ticket \in TicketRow
      /\ thread[r].req.stato \in TicketStatus
      /\ thread[r].req.ticketId \in DOMAIN ticketTable
      /\ ticketTable \in Seq(TicketRow)
  BY <1>1 DEF TypeInv, TypeOK, DbTypeOK, ThreadsOK, ThreadOK, EntitiesOK, EntityOK, HoldsTicket
<1>4. ticket \in TicketRow /\ ticket.ticketStatus = thread[r].req.stato
  BY <1>3 DEF TicketRow
<1>5. PICK t : t = thread[r].req.ticketId
  OBVIOUS
<1>6. thread[r].req.stato \in SeenBefore(t, Rows + 1)
  BY <1>1, <1>2, <1>5 DEF StatusInv, HeldStatusesOK, HeldStatusOK, SeenBefore, historyOf,
     HistoryGrows
<1>7. HeldStatusOK(r)'
  <2>1. thread'[r].req.ticketId = t /\ thread'[r].ticket = ticket /\ thread'[r].pc = "notify"
    BY <1>1, <1>5 DEF TypeInv, TypeOK, Thread
  <2> HIDE DEF ticket
  <2>. QED
    BY <1>1, <1>2, <1>4, <1>6, <2>1 DEF HeldStatusOK, SeenBefore, historyOf, Rows
<1>8. \A s \in (DOMAIN ticketTable)' :
        /\ s \in DOMAIN ticketTable
        /\ ticketTable'[s] = ticketTable[s] \/ (s = t /\ ticketTable'[s] = ticket)
  <2> HIDE DEF ticket
  <2>. QED
    BY <1>1, <1>3, <1>4, <1>5, UpdateRow
<1>9. \A s \in (DOMAIN ticketTable)' :
        \/ ticketTable'[s].ticketStatus = ticketTable[s].ticketStatus
        \/ ticketTable'[s].ticketStatus \in SeenBefore(s, Rows + 1)
  <2> HIDE DEF ticket
  <2>. QED
    BY <1>4, <1>6, <1>8
<1>. QED
  BY <1>1, <1>2, <1>7, <1>8, <1>9, StatusFrame

LEMMA CrashStatusInv ==
  ASSUME TypeInv, StatusInv, Crash PROVE StatusInv'
<1>1. UNCHANGED <<ticketTable, historyTable>>
  BY DEF Crash, dbVars
<1>2. ASSUME NEW r \in Requests PROVE HeldStatusOK(r)'
  <2>1. CASE thread'[r] = thread[r]
    BY <1>1, <2>1 DEF StatusInv, HeldStatusesOK, HeldStatusOK, HoldsTicket, SeenBefore,
       historyOf, Rows
  <2>2. CASE thread'[r] = [thread[r] EXCEPT !.pc = "done", !.answer = "lost"]
    BY <2>2 DEF TypeInv, TypeOK, Thread, HeldStatusOK, HoldsTicket
  <2>. QED
    BY <2>1, <2>2 DEF Crash
<1>. QED
  BY <1>1, <1>2 DEF StatusInv, HeldStatusesOK, FirstTicketsStay, StatusIsRecorded,
     HistoryIsExplained, SeenBefore, historyOf, Rows

\* Neither the notification service nor a client that stops touches the tables.
LEMMA SameDbAndThreads ==
  ASSUME StatusInv, UNCHANGED <<dbVars, thread>> PROVE StatusInv'
  BY DEF dbVars, StatusInv, HeldStatusesOK, HeldStatusOK, HoldsTicket, FirstTicketsStay,
     StatusIsRecorded, HistoryIsExplained, SeenBefore, historyOf, Rows

LEMMA NextStatusInv == TypeInv /\ StatusInv /\ [Next]_vars => StatusInv'
<1> SUFFICES ASSUME TypeInv, StatusInv, [Next]_vars PROVE StatusInv'
  OBVIOUS
<1>1. CASE UNCHANGED <<dbVars, thread>>
  BY <1>1, SameDbAndThreads
<1>2. ASSUME NEW r \in Requests, Step(r) PROVE StatusInv'
  BY <1>2, StepTypeInv, StepKinds, QuietStatusInv, LoadStatusInv, OpenStatusInv,
     SaveHistoryStatusInv, SaveStatusInv DEF KnownKind
<1>3. CASE Crash
  BY <1>3, CrashStatusInv
<1>. QED
  BY <1>1, <1>2, <1>3 DEF Next, AllAnswered, vars, Received

-----------------------------------------------------------------------------
(* What the history table is worth. *)

LEMMA StatusInvariant == Spec => []StatusInv
  BY InitStatusInv, NextStatusInv, ThreadsCorrect, PTL DEF Spec

\* A ticket has no status without a history row (updateTicketStatus saves the
\* row first), however many requests run and whatever fails.
THEOREM NoStatusWithoutTrace == Spec => []StatusIsRecorded
<1>1. StatusInv => StatusIsRecorded
  BY DEF StatusInv
<1>. QED
  BY <1>1, StatusInvariant, PTL

\* The previous status of a history row is one the ticket began with or was set
\* to before, although updateTicketStatus copies it from an entity that may be old.
THEOREM NoUnexplainedHistory == Spec => []HistoryIsExplained
<1>1. StatusInv => HistoryIsExplained
  BY DEF StatusInv
<1>. QED
  BY <1>1, StatusInvariant, PTL

\* The status in the entity of a running handler is recorded, and its history row
\* is there before updateTicketStatus writes the ticket.
THEOREM HeldStatusesAreRecorded == Spec => []HeldStatusesOK
<1>1. StatusInv => HeldStatusesOK
  BY DEF StatusInv
<1>. QED
  BY <1>1, StatusInvariant, PTL
=============================================================================
