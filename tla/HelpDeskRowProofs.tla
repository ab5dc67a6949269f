--------------------------- MODULE HelpDeskRowProofs ---------------------------
(***************************************************************************)
(* Proofs of what a request inserts: each row has its request, people find  *)
(* their tickets, and what the notification service is told is true, told   *)
(* at most once, and told before the request is answered with success.      *)
(***************************************************************************)
EXTENDS HelpDeskProofs

USE DEF mailVars

-----------------------------------------------------------------------------
(* No step changes a row of app_user, ticket_history or messaggio. *)

RowsStay ==
  /\ \A u \in DOMAIN userTable : u \in (DOMAIN userTable)' /\ userTable'[u] = userTable[u]
  /\ \A i \in DOMAIN historyTable :
       i \in (DOMAIN historyTable)' /\ historyTable'[i] = historyTable[i]
  /\ \A m \in DOMAIN messageTable :
       m \in (DOMAIN messageTable)' /\ messageTable'[m] = messageTable[m]

\* A step of r that inserts nothing r will remember.
KeepsSaved(r) ==
  /\ UNCHANGED <<historyTable, messageTable>>
  /\ thread'[r].saved = thread[r].saved
  /\ thread'[r].pc # "idle"
  /\ thread[r].pc # "idle" => thread'[r].req = thread[r].req

InsertsTicket(r) ==
  /\ thread[r].req.op = "createTicket"
  /\ thread'[r].saved = Len(ticketTable) + 1
  /\ UNCHANGED <<historyTable, messageTable>>

InsertsHistory(r) ==
  /\ thread[r].req.op = "updateTicketStatus"
  /\ thread'[r].saved = Len(historyTable) + 1
  /\ \A i \in (DOMAIN historyTable)' : i \in DOMAIN historyTable \/ i = Len(historyTable) + 1
  /\ UNCHANGED messageTable

InsertsMessage(r) ==
  /\ thread[r].req.op = "sendMessage"
  /\ thread'[r].saved = Len(messageTable) + 1
  /\ \A m \in (DOMAIN messageTable)' : m \in DOMAIN messageTable \/ m = Len(messageTable) + 1
  /\ UNCHANGED historyTable

Inserts(r) ==
  /\ thread[r].pc \notin {"idle", "done"}
  /\ thread[r].saved = NoId
  /\ thread'[r].pc # "idle"
  /\ thread'[r].req = thread[r].req
  /\ InsertsTicket(r) \/ InsertsHistory(r) \/ InsertsMessage(r)

RowStep(r) == RowsStay /\ SavedOK(r)' /\ (KeepsSaved(r) \/ Inserts(r))

\* What a request inserted stays as it is while others take steps.
LEMMA OthersSaved ==
  ASSUME TypeInv, NEW r \in Requests, NEW s \in Requests \ {r}, SavedOK(s),
         OnlyThread(r), TablesGrow, RowsStay
  PROVE  SavedOK(s)'
<1>1. thread'[s] = thread[s]
  BY DEF OnlyThread
<1>2. \A t \in DOMAIN ticketTable :
        /\ t \in (DOMAIN ticketTable)'
        /\ userTable'[ticketTable'[t].creatoDa] = userTable[ticketTable[t].creatoDa]
  BY DEF TypeInv, TypeOK, DbTypeOK, TablesGrow, RowsStay
<1>3. thread[s].pc = "saveTicket" => userTable'[thread[s].creatoDa] = userTable[thread[s].creatoDa]
  BY DEF TypeInv, ThreadsOK, ThreadOK, RowsStay
<1>. QED
  BY <1>1, <1>2, <1>3 DEF SavedOK, Succeeded, RowsStay

\* A key remembered for a table is one of its keys.
LEMMA SavedIsKey ==
  ASSUME NEW s \in Requests, SavedOK(s), thread[s].saved # NoId
  PROVE  /\ thread[s].req.op = "createTicket" => thread[s].saved \in DOMAIN ticketTable
         /\ thread[s].req.op = "updateTicketStatus" => thread[s].saved \in DOMAIN historyTable
         /\ thread[s].req.op = "sendMessage" => thread[s].saved \in DOMAIN messageTable
  BY DEF SavedOK

\* The next key is new.
LEMMA NextKey ==
  ASSUME NEW S, NEW s \in Seq(S)
  PROVE  Len(s) + 1 \notin DOMAIN s /\ NoId \notin DOMAIN s
  BY DEF NoId

LEMMA RowFrame ==
  ASSUME TypeInv, RowInv, NEW r \in Requests, OnlyThread(r), TablesGrow, RowStep(r)
  PROVE  RowInv'
<1> USE DEF RowInv, RowStep
<1>1. \A s \in Requests : SavedOK(s)'
  BY OthersSaved
<1>2. ASSUME NEW s \in Requests, s # r PROVE thread'[s] = thread[s]
  BY <1>2 DEF OnlyThread
<1>3. CASE KeepsSaved(r)
  <2>1. thread[r].pc = "idle" => thread'[r].saved = NoId
    BY <1>3 DEF KeepsSaved, SavedOK
  <2>2. SavedApart'
    BY <1>2, <1>3, <2>1 DEF KeepsSaved, SavedApart, Asks
  <2>3. ASSUME NEW s \in Requests, NEW op \in {"updateTicketStatus", "sendMessage"},
               Asks(s, op)
        PROVE  Asks(s, op)' /\ thread'[s].saved = thread[s].saved
    BY <1>2, <1>3, <2>3 DEF KeepsSaved, Asks
  <2>4. RowsHaveRequests'
    BY <1>3, <2>3 DEF KeepsSaved, RowsHaveRequests
  <2>. QED
    BY <1>1, <2>2, <2>4
<1>4. CASE Inserts(r)
  <2>1. /\ Len(ticketTable) + 1 \notin DOMAIN ticketTable
        /\ Len(historyTable) + 1 \notin DOMAIN historyTable
        /\ Len(messageTable) + 1 \notin DOMAIN messageTable
        /\ NoId \notin DOMAIN historyTable
        /\ NoId \notin DOMAIN messageTable
    BY NextKey DEF TypeInv, TypeOK, DbTypeOK
  <2>2. ASSUME NEW s \in Requests, s # r, thread[s].req.op = thread[r].req.op,
               thread[s].saved = thread'[r].saved
        PROVE  thread[s].saved = NoId
    BY <1>4, <2>1, <2>2, SavedIsKey DEF Inserts, InsertsTicket, InsertsHistory, InsertsMessage
  <2>3. SavedApart'
    BY <1>2, <1>4, <2>2 DEF Inserts, SavedApart, Asks
  <2>4. /\ Asks(r, thread[r].req.op)'
        /\ \A s \in Requests \ {r}, op \in Op :
             Asks(s, op) => Asks(s, op)' /\ thread'[s].saved = thread[s].saved
    BY <1>2, <1>4 DEF Inserts, Asks
  <2>5. RowsHaveRequests'
    <3>1. ASSUME NEW i \in (DOMAIN historyTable)'
          PROVE  \E s \in Requests : Asks(s, "updateTicketStatus")' /\ thread'[s].saved = i
      <4>1. CASE i \notin DOMAIN historyTable
        BY <1>4, <2>4, <4>1, <3>1 DEF Inserts, InsertsTicket, InsertsHistory, InsertsMessage
      <4>2. CASE i \in DOMAIN historyTable
        <5>1. PICK s \in Requests : Asks(s, "updateTicketStatus") /\ thread[s].saved = i
          BY <4>2 DEF RowsHaveRequests
        <5>. QED
          BY <1>4, <2>1, <2>4, <4>2, <5>1 DEF Inserts, Op
      <4>. QED
        BY <4>1, <4>2
    <3>2. ASSUME NEW m \in (DOMAIN messageTable)'
          PROVE  \E s \in Requests : Asks(s, "sendMessage")' /\ thread'[s].saved = m
      <4>1. CASE m \notin DOMAIN messageTable
        BY <1>4, <2>4, <4>1, <3>2 DEF Inserts, InsertsTicket, InsertsHistory, InsertsMessage
      <4>2. CASE m \in DOMAIN messageTable
        <5>1. PICK s \in Requests : Asks(s, "sendMessage") /\ thread[s].saved = m
          BY <4>2 DEF RowsHaveRequests
        <5>. QED
          BY <1>4, <2>1, <2>4, <4>2, <5>1 DEF Inserts, Op
      <4>. QED
        BY <4>1, <4>2
    <3>. QED
      BY <3>1, <3>2 DEF RowsHaveRequests
  <2>. QED
    BY <1>1, <2>3, <2>5
<1>. QED
  BY <1>3, <1>4

-----------------------------------------------------------------------------
(* The steps of a request. *)

LEMMA TablesSame == ASSUME UNCHANGED dbVars PROVE RowsStay
  BY DEF dbVars, RowsStay

\* An answer to a request that inserted nothing yet, unless it is one of success.
LEMMA ReplyRowStep ==
  ASSUME TypeInv, NEW r \in Requests, SavedOK(r), UNCHANGED dbVars, NEW code, Reply(r, code),
         thread[r].pc \notin {"idle", "done"},
         thread[r].saved = NoId => code \notin {"200", "201"},
         thread[r].saved # NoId => code \notin Refusals
  PROVE  RowStep(r)
<1>1. /\ thread'[r].pc = "done" /\ thread'[r].answer = code
      /\ thread'[r].req = thread[r].req /\ thread'[r].saved = thread[r].saved
  BY DEF TypeInv, TypeOK, Thread, Reply
<1>2. SavedOK(r)'
  BY <1>1 DEF SavedOK, Succeeded, dbVars
<1>3. KeepsSaved(r)
  BY <1>1 DEF KeepsSaved, dbVars
<1>. QED
  BY <1>2, <1>3, TablesSame DEF RowStep

\* A step on the way to the insert.
LEMMA EarlyRowStep ==
  ASSUME TypeInv, NEW r \in Requests, SavedOK(r), UNCHANGED dbVars,
         thread[r].pc \notin {"saveStatus", "notify", "posted", "done"},
         thread'[r].pc \notin {"idle", "saveTicket", "saveStatus", "notify", "posted", "done"},
         thread'[r].saved = thread[r].saved, thread'[r].answer = thread[r].answer,
         thread[r].pc # "idle" => thread'[r].req = thread[r].req
  PROVE  RowStep(r)
<1>1. thread[r].saved = NoId /\ thread[r].answer = "none"
  BY DEF SavedOK
<1>2. SavedOK(r)'
  BY <1>1 DEF SavedOK, Succeeded, Refusals
<1>3. KeepsSaved(r)
  BY DEF KeepsSaved, dbVars
<1>. QED
  BY <1>2, <1>3, TablesSame DEF RowStep

LEMMA GotoRowStep ==
  ASSUME TypeInv, NEW r \in Requests, SavedOK(r), UNCHANGED dbVars,
         thread[r].pc \notin {"saveStatus", "notify", "posted", "done"},
         NEW l \in {"profile", "findUser", "saveUser", "saveAssignment", "saveHistory", "saveMessage"},
         Goto(r, l)
  PROVE  RowStep(r)
<1>1. /\ thread'[r].pc = l
      /\ thread'[r].req = thread[r].req /\ thread'[r].saved = thread[r].saved
      /\ thread'[r].answer = thread[r].answer
  BY DEF TypeInv, TypeOK, Thread, Goto
<1>. QED
  BY <1>1, EarlyRowStep

LEMMA LoadFields ==
  ASSUME TypeInv, NEW r \in Requests, NEW t,
         thread' = [thread EXCEPT ![r] = [@ EXCEPT !.pc = "profile", !.ticket = t]]
  PROVE  /\ thread'[r].pc = "profile"
         /\ thread'[r].req = thread[r].req /\ thread'[r].saved = thread[r].saved
         /\ thread'[r].answer = thread[r].answer
  BY DEF TypeInv, TypeOK, Thread

\* A refusal before the insert.
LEMMA RefusalRowStep ==
  ASSUME TypeInv, NEW r \in Requests, SavedOK(r), UNCHANGED dbVars,
         NEW code \in {"400", "401", "403", "404", "500"}, Reply(r, code),
         thread[r].pc \notin {"idle", "saveStatus", "notify", "posted", "done"}
  PROVE  RowStep(r)
<1>1. thread[r].saved = NoId
  BY DEF SavedOK
<1>. QED
  BY <1>1, ReplyRowStep

LEMMA CreateRowStep ==
  ASSUME TypeInv, NEW r \in Requests, SavedOK(r), Create(r) PROVE RowStep(r)
<1> USE DEF TypeInv, TypeOK
<1>1. CASE createTicket(r)
  <2>1. CASE Reply(r, "401")
    BY <1>1, <2>1, RefusalRowStep DEF createTicket, At
  <2>2. CASE Goto(r, "profile")
    BY <1>1, <2>2, GotoRowStep DEF createTicket, At
  <2>. QED
    BY <1>1, <2>1, <2>2 DEF createTicket
<1>2. CASE createTicketProfile(r)
  BY <1>2, GotoRowStep DEF createTicketProfile, getUserProfile, At
<1>3. CASE createTicketFindUser(r)
  <2>1. CASE Reply(r, "500")
    BY <1>3, <2>1, RefusalRowStep DEF createTicketFindUser
  <2>2. CASE Goto(r, "saveUser")
    BY <1>3, <2>2, GotoRowStep DEF createTicketFindUser
  <2>3. CASE \E u \in findByExternalId(thread[r].req.caller) :
               thread' = [thread EXCEPT ![r] = [@ EXCEPT !.pc = "saveTicket", !.creatoDa = u]]
    <3>1. PICK u \in DOMAIN userTable :
            /\ userTable[u].externalId = thread[r].req.caller
            /\ thread' = [thread EXCEPT ![r] = [@ EXCEPT !.pc = "saveTicket", !.creatoDa = u]]
      BY <2>3 DEF findByExternalId
    <3>2. /\ thread'[r].pc = "saveTicket" /\ thread'[r].creatoDa = u
          /\ thread'[r].req = thread[r].req /\ thread'[r].saved = thread[r].saved
          /\ thread'[r].answer = thread[r].answer
      BY <3>1 DEF Thread
    <3>3. SavedOK(r)'
      BY <1>3, <3>1, <3>2 DEF createTicketFindUser, SavedOK, Succeeded, Refusals, dbVars
    <3>4. KeepsSaved(r)
      BY <1>3, <3>2 DEF createTicketFindUser, KeepsSaved, dbVars
    <3>. QED
      BY <1>3, <3>3, <3>4, TablesSame DEF createTicketFindUser, RowStep
  <2>. QED
    BY <1>3, <2>1, <2>2, <2>3 DEF createTicketFindUser
<1>4. CASE createTicketSaveUser(r)
  <2> DEFINE row == [externalId |-> thread[r].req.caller]
  <2>1. row \in UserRow /\ userTable \in Seq(UserRow)
    BY <1>4 DEF createTicketSaveUser, ThreadsOK, ThreadOK, UserRow, DbTypeOK
  <2>2. userTable' = Append(userTable, row)
    BY <1>4 DEF createTicketSaveUser, insertUser
  <2>3. RowsStay /\ userTable'[Len(userTable) + 1] = row
    BY <1>4, <2>1, <2>2, AppendRow DEF createTicketSaveUser, RowsStay
  <2>4. /\ thread'[r].pc = "saveTicket" /\ thread'[r].creatoDa = Len(userTable) + 1
        /\ thread'[r].req = thread[r].req /\ thread'[r].saved = thread[r].saved
        /\ thread'[r].answer = thread[r].answer
    BY <1>4 DEF createTicketSaveUser, Thread
  <2>5. SavedOK(r)'
    BY <1>4, <2>3, <2>4 DEF createTicketSaveUser, SavedOK, Succeeded, Refusals
  <2>6. KeepsSaved(r)
    BY <1>4, <2>4 DEF createTicketSaveUser, KeepsSaved
  <2>. QED
    BY <2>3, <2>5, <2>6 DEF RowStep
<1>5. CASE createTicketSaveTicket(r)
  <2>1. CASE Reply(r, "500") /\ UNCHANGED ticketTable
    BY <1>5, <2>1, RefusalRowStep DEF createTicketSaveTicket, dbVars
  <2>2. CASE ~ (Reply(r, "500") /\ UNCHANGED ticketTable)
    <3> DEFINE row == [ticketStatus |-> "PRESO_IN_CARICO",
                       creatoDa |-> thread[r].creatoDa, assegnatoA |-> NoId]
    <3>1. row \in TicketRow /\ ticketTable \in Seq(TicketRow)
      BY <1>5 DEF createTicketSaveTicket, Thread, TicketRow, TicketStatus, NoId, DbTypeOK
    <3>2. ticketTable' = Append(ticketTable, row)
      BY <1>5, <2>2 DEF createTicketSaveTicket, insertTicket
    <3>3. /\ Len(ticketTable) + 1 \in (DOMAIN ticketTable)'
          /\ ticketTable'[Len(ticketTable) + 1].creatoDa = thread[r].creatoDa
      BY <3>1, <3>2, AppendRow
    <3>4. /\ thread'[r].pc = "done" /\ thread'[r].answer = "200"
          /\ thread'[r].req = thread[r].req /\ thread'[r].saved = Len(ticketTable) + 1
      <4>1. thread' = [thread EXCEPT ![r] = [@ EXCEPT !.pc = "done", !.answer = "200",
                                                      !.saved = Len(ticketTable) + 1]]
        BY <1>5, <2>2 DEF createTicketSaveTicket
      <4>2. thread[r] \in Thread /\ thread \in [Requests -> Thread]
        OBVIOUS
      <4> HIDE DEF TypeInv, TypeOK
      <4>. QED
        BY <4>1, <4>2 DEF Thread
    <3>5. RowsStay
      BY <1>5 DEF createTicketSaveTicket, RowsStay
    <3>6. /\ thread[r].req.op = "createTicket" /\ thread[r].saved = NoId
          /\ userTable[thread[r].creatoDa].externalId = thread[r].req.caller
      BY <1>5 DEF createTicketSaveTicket, ThreadsOK, ThreadOK, SavedOK
    <3>7. Len(ticketTable) + 1 # NoId
      BY <3>1, Keys DEF NoId
    <3>8. SavedOK(r)'
      BY <1>5, <3>3, <3>4, <3>6, <3>7
      DEF createTicketSaveTicket, SavedOK, Succeeded, Refusals
    <3>9. Inserts(r)
      BY <1>5, <3>4, <3>6 DEF createTicketSaveTicket, Inserts, InsertsTicket
    <3>. QED
      BY <3>5, <3>8, <3>9 DEF RowStep
  <2>. QED
    BY <2>1, <2>2
<1>. QED
  BY <1>1, <1>2, <1>3, <1>4, <1>5 DEF Create

LEMMA AssegnaRowStep ==
  ASSUME TypeInv, NEW r \in Requests, SavedOK(r), Assegna(r) PROVE RowStep(r)
<1>1. CASE assegnaOperatore(r)
  <2>1. CASE \E code \in {"404", "400"} : Reply(r, code)
    BY <1>1, <2>1, RefusalRowStep DEF assegnaOperatore, At
  <2>2. CASE ~ \E code \in {"404", "400"} : Reply(r, code)
    BY <1>1, <2>2, EarlyRowStep, LoadFields DEF assegnaOperatore, At
  <2>. QED
    BY <2>1, <2>2
<1>2. CASE assegnaOperatoreProfile(r)
  <2>1. CASE Reply(r, "403")
    BY <1>2, <2>1, RefusalRowStep DEF assegnaOperatoreProfile, getUserProfile, At
  <2>2. CASE Goto(r, "saveAssignment")
    BY <1>2, <2>2, GotoRowStep DEF assegnaOperatoreProfile, getUserProfile, At
  <2>. QED
    BY <1>2, <2>1, <2>2 DEF assegnaOperatoreProfile
<1>3. CASE assegnaOperatoreSave(r)
  BY <1>3, AssegnaOperatoreIsRefused, RefusalRowStep DEF assegnaOperatoreSave
<1>. QED
  BY <1>1, <1>2, <1>3 DEF Assegna

\* Token check and findById of updateTicketStatus and sendMessage.
LEMMA LoadRowStep ==
  ASSUME TypeInv, NEW r \in Requests, SavedOK(r), thread[r].pc = "start", LoadTicket(r),
         UNCHANGED dbVars
  PROVE  RowStep(r)
<1>1. CASE \E code \in {"401", "404"} : Reply(r, code)
  BY <1>1, RefusalRowStep
<1>2. CASE ~ \E code \in {"401", "404"} : Reply(r, code)
  BY <1>2, EarlyRowStep, LoadFields DEF LoadTicket
<1>. QED
  BY <1>1, <1>2

LEMMA UpdateStatusRowStep ==
  ASSUME TypeInv, NEW r \in Requests, SavedOK(r), UpdateStatus(r) PROVE RowStep(r)
<1> USE DEF TypeInv, TypeOK
<1>1. CASE updateTicketStatus(r)
  BY <1>1, LoadRowStep DEF updateTicketStatus, At
<1>2. CASE updateTicketStatusProfile(r)
  <2>1. CASE \E code \in {"400", "403", "500"} : Reply(r, code)
    BY <1>2, <2>1, RefusalRowStep DEF updateTicketStatusProfile, getUserProfile, At
  <2>2. CASE Goto(r, "saveHistory")
    BY <1>2, <2>2, GotoRowStep DEF updateTicketStatusProfile, getUserProfile, At
  <2>. QED
    BY <1>2, <2>1, <2>2 DEF updateTicketStatusProfile
<1>3. CASE updateTicketStatusSaveHistory(r)
  <2> DEFINE q == thread[r].req
             row == [ticket |-> q.ticketId, statoPrecedente |-> thread[r].ticket.ticketStatus,
                     statoSuccessivo |-> q.stato, modificatoDa |-> q.caller]
  <2>1. /\ thread[r].pc = "saveHistory" /\ q.op = "updateTicketStatus"
        /\ q.caller \in ExternalId /\ q.stato \in TicketStatus
        /\ q.ticketId \in DOMAIN ticketTable /\ thread[r].ticket \in TicketRow
    BY <1>3 DEF updateTicketStatusSaveHistory, ThreadsOK, ThreadOK, EntitiesOK, EntityOK, HoldsTicket
  <2>2. historyTable \in Seq(HistoryRow) /\ q.ticketId \in Nat
    BY <2>1, Keys DEF DbTypeOK
  <2>3. row \in HistoryRow
    BY <2>1, <2>2 DEF HistoryRow, TicketRow
  <2>4. historyTable' = Append(historyTable, row)
    BY <1>3 DEF updateTicketStatusSaveHistory, insertHistory
  <2>5. RowsStay
    BY <1>3, <2>2, <2>3, <2>4, AppendRow DEF updateTicketStatusSaveHistory, RowsStay
  <2>6. /\ \A i \in (DOMAIN historyTable)' : i \in DOMAIN historyTable \/ i = Len(historyTable) + 1
        /\ Len(historyTable) + 1 \in (DOMAIN historyTable)'
        /\ historyTable'[Len(historyTable) + 1] = row
        /\ Len(historyTable) + 1 # NoId
    BY <2>2, <2>3, <2>4, AppendRow DEF NoId
  <2>7. /\ thread'[r].pc = "saveStatus" /\ thread'[r].saved = Len(historyTable) + 1
        /\ thread'[r].req = q /\ thread'[r].answer = thread[r].answer
    BY <1>3 DEF updateTicketStatusSaveHistory, Thread
  <2>8. SavedOK(r)'
    BY <2>1, <2>6, <2>7 DEF SavedOK, Succeeded, Refusals
  <2>9. Inserts(r)
    BY <1>3, <2>1, <2>6, <2>7
    DEF updateTicketStatusSaveHistory, Inserts, InsertsHistory, SavedOK
  <2>. QED
    BY <2>5, <2>8, <2>9 DEF RowStep
<1>4. CASE updateTicketStatusSave(r)
  <2>1. /\ thread[r].pc = "saveStatus" /\ thread[r].req.op = "updateTicketStatus"
        /\ thread[r].ticket \in TicketRow
    BY <1>4 DEF updateTicketStatusSave, ThreadsOK, ThreadOK, EntitiesOK, EntityOK, HoldsTicket
  <2>2. /\ thread'[r].pc = "notify" /\ thread'[r].saved = thread[r].saved
        /\ thread'[r].req = thread[r].req /\ thread'[r].answer = thread[r].answer
        /\ thread'[r].ticket.ticketStatus = thread[r].req.stato
    BY <1>4, <2>1 DEF updateTicketStatusSave, Thread, TicketRow
  <2>3. SavedOK(r)'
    BY <1>4, <2>1, <2>2 DEF updateTicketStatusSave, SavedOK, Succeeded, Refusals
  <2>. QED
    BY <1>4, <2>2, <2>3 DEF updateTicketStatusSave, KeepsSaved, RowsStay, RowStep
<1>. QED
  BY <1>1, <1>2, <1>3, <1>4 DEF UpdateStatus

LEMMA MessageRowStep ==
  ASSUME TypeInv, NEW r \in Requests, SavedOK(r), Message(r) PROVE RowStep(r)
<1> USE DEF TypeInv, TypeOK
<1>1. CASE sendMessage(r)
  BY <1>1, LoadRowStep DEF sendMessage, At
<1>2. CASE sendMessageProfile(r)
  BY <1>2, GotoRowStep DEF sendMessageProfile, getUserProfile, At
<1>3. CASE sendMessageSave(r)
  <2> DEFINE q == thread[r].req
             row == [ticket |-> q.ticketId, autoreId |-> q.caller, contenuto |-> q.body]
  <2>1. /\ thread[r].pc = "saveMessage" /\ q.op = "sendMessage"
        /\ q.caller \in ExternalId /\ q \in Input
    BY <1>3, RequestAssumption DEF sendMessageSave, ThreadsOK, ThreadOK
  <2>2. row \in MessageRow /\ messageTable \in Seq(MessageRow)
    BY <2>1 DEF MessageRow, Input, DbTypeOK
  <2>3. messageTable' = Append(messageTable, row)
    BY <1>3 DEF sendMessageSave, insertMessage
  <2>4. RowsStay
    BY <1>3, <2>2, <2>3, AppendRow DEF sendMessageSave, RowsStay
  <2>5. /\ \A m \in (DOMAIN messageTable)' : m \in DOMAIN messageTable \/ m = Len(messageTable) + 1
        /\ Len(messageTable) + 1 \in (DOMAIN messageTable)'
        /\ messageTable'[Len(messageTable) + 1] = row
        /\ Len(messageTable) + 1 # NoId
    BY <2>2, <2>3, AppendRow DEF NoId
  <2>6. /\ thread'[r].pc = "notify" /\ thread'[r].saved = Len(messageTable) + 1
        /\ thread'[r].req = q /\ thread'[r].answer = thread[r].answer
    BY <1>3 DEF sendMessageSave, Thread
  <2>7. SavedOK(r)'
    BY <2>1, <2>5, <2>6 DEF SavedOK, Succeeded, Refusals
  <2>8. Inserts(r)
    BY <1>3, <2>1, <2>5, <2>6 DEF sendMessageSave, Inserts, InsertsMessage, SavedOK
  <2>. QED
    BY <2>4, <2>7, <2>8 DEF RowStep
<1>. QED
  BY <1>1, <1>2, <1>3 DEF Message

LEMMA StepRows ==
  ASSUME TypeInv, NEW r \in Requests, SavedOK(r), Step(r) PROVE RowStep(r)
<1>1. CASE Notify(r)
  <2>1. thread[r].pc \in {"notify", "posted"} /\ thread[r].saved # NoId /\ UNCHANGED dbVars
    BY <1>1 DEF Notify, NothingToNotify, inviaNotifica, inviaNotificaReturns, inviaNotificaFails,
       SavedOK
  <2>2. CASE \E code \in {"200", "201", "500"} : Reply(r, code)
    BY <2>1, <2>2, ReplyRowStep DEF Refusals
  <2>3. CASE thread[r].pc = "notify" /\ Goto(r, "posted")
    <3>1. /\ thread'[r].pc = "posted" /\ thread'[r].ticket = thread[r].ticket
          /\ thread'[r].req = thread[r].req /\ thread'[r].saved = thread[r].saved
          /\ thread'[r].answer = thread[r].answer
      BY <2>3 DEF Goto, TypeInv, TypeOK, Thread
    <3>2. SavedOK(r)'
      BY <2>1, <2>3, <3>1 DEF SavedOK, Succeeded, dbVars
    <3>3. KeepsSaved(r)
      BY <2>1, <3>1 DEF KeepsSaved, dbVars
    <3>. QED
      BY <2>1, <3>2, <3>3, TablesSame DEF RowStep
  <2>. QED
    BY <1>1, <2>2, <2>3
    DEF Notify, NothingToNotify, inviaNotifica, inviaNotificaReturns, inviaNotificaFails, Success
<1>2. CASE Accept(r)
  <2>1. PICK q \in Inputs : thread' = [thread EXCEPT ![r] = [@ EXCEPT !.pc = "start", !.req = q, !.earlier = Over]]
    BY <1>2 DEF Accept
  <2>2. /\ thread'[r].pc = "start" /\ thread'[r].saved = thread[r].saved
        /\ thread'[r].answer = thread[r].answer
    BY <2>1 DEF TypeInv, TypeOK, Thread
  <2>. QED
    BY <1>2, <2>2, EarlyRowStep DEF Accept
<1>3. CASE getUserProfileFails(r) \/ DatabaseFails(r)
  <2>1. UNCHANGED dbVars /\ Reply(r, "500") /\ thread[r].pc \notin {"idle", "notify", "posted", "done"}
    BY <1>3 DEF getUserProfileFails, DatabaseFails, CallsRepository
  <2>. QED
    BY <2>1, ReplyRowStep DEF Refusals
<1>. QED
  BY <1>1, <1>2, <1>3, CreateRowStep, AssegnaRowStep, UpdateStatusRowStep, MessageRowStep
  DEF Step, Surroundings

\* A lost request keeps what it inserted.
LEMMA CrashRows ==
  ASSUME TypeInv, RowInv, Crash PROVE RowInv'
<1>1. ASSUME NEW r \in Requests
      PROVE  /\ thread'[r].req = thread[r].req /\ thread'[r].saved = thread[r].saved
             /\ thread'[r].pc = "idle" <=> thread[r].pc = "idle"
             /\ thread'[r] = thread[r] \/ (thread'[r].pc = "done" /\ thread'[r].answer = "lost")
  <2>1. \/ thread'[r] = thread[r]
        \/ /\ thread'[r] = [thread[r] EXCEPT !.pc = "done", !.answer = "lost"]
           /\ thread[r].pc # "idle"
    BY DEF Crash, InFlight
  <2>2. thread[r] \in Thread
    BY DEF TypeInv, TypeOK
  <2>. QED
    BY <2>1, <2>2 DEF Thread
<1>2. ASSUME NEW r \in Requests PROVE SavedOK(r)'
  <2>1. SavedOK(r) /\ UNCHANGED dbVars
    BY DEF Crash, RowInv
  <2>2. CASE thread'[r] = thread[r]
    BY <2>1, <2>2 DEF dbVars, SavedOK, Succeeded
  <2>3. CASE thread'[r].pc = "done" /\ thread'[r].answer = "lost"
    BY <1>1, <2>1, <2>3 DEF dbVars, SavedOK, Succeeded, Refusals
  <2>. QED
    BY <1>1, <2>2, <2>3
<1>3. \A r \in Requests, op \in Op : Asks(r, op)' <=> Asks(r, op)
  BY <1>1 DEF Asks
<1>4. SavedApart'
  BY <1>1, <1>3 DEF RowInv, SavedApart
<1>5. RowsHaveRequests'
  <2>1. \A r \in Requests, op \in {"updateTicketStatus", "sendMessage"} : Asks(r, op)' <=> Asks(r, op)
    BY <1>3 DEF Op
  <2>2. historyTable' = historyTable /\ messageTable' = messageTable
    BY DEF Crash, dbVars
  <2>. QED
    BY <1>1, <2>1, <2>2 DEF RowInv, RowsHaveRequests
<1>. QED
  BY <1>2, <1>4, <1>5 DEF RowInv

LEMMA InitRowInv == Init => RowInv
  BY DEF Init, DbInit, RequestsInit, IdleThread, RowInv, SavedOK, Succeeded, Refusals,
     SavedApart, RowsHaveRequests, Asks

LEMMA NextRowInv == TypeInv /\ RowInv /\ [Next]_vars => RowInv'
<1> SUFFICES ASSUME TypeInv, RowInv, [Next]_vars PROVE RowInv'
  OBVIOUS
<1>1. ASSUME NEW r \in Requests, Step(r) PROVE RowInv'
  BY <1>1, StepTypeInv, StepRows, RowFrame DEF RowInv
<1>2. CASE UNCHANGED vars
  BY <1>2 DEF vars, dbVars, RowInv, SavedOK, Succeeded, SavedApart, RowsHaveRequests, Asks
<1>3. ASSUME NEW r \in Requests, Received(r) PROVE RowInv'
  BY <1>3 DEF Received, dbVars, RowInv, SavedOK, Succeeded, SavedApart, RowsHaveRequests, Asks
<1>. QED
  BY <1>1, <1>2, <1>3, CrashRows DEF Next, AllAnswered

LEMMA RowInvariant == Spec => []RowInv
  BY InitRowInv, NextRowInv, ThreadsCorrect, PTL DEF Spec

-----------------------------------------------------------------------------
(* The properties. *)

\* A request leaves the row it asked for, once, or none, whatever happens around
\* it (the saves of TicketService and MessageService).
THEOREM RowsAreAsked == Spec => []EveryRowHasOneRequest
<1>1. TypeInv /\ RowInv => EveryRowHasOneRequest
  <2> SUFFICES ASSUME TypeInv, RowInv PROVE EveryRowHasOneRequest
    OBVIOUS
  <2>1. NoId \notin DOMAIN historyTable /\ NoId \notin DOMAIN messageTable
    BY NextKey DEF TypeInv, TypeOK, DbTypeOK
  <2>2. \A r \in Requests : SavedOK(r)
    BY DEF RowInv
  <2>3. \A i \in DOMAIN historyTable : \E r \in Requests :
          /\ Asks(r, "updateTicketStatus")
          /\ thread[r].saved = i
          /\ historyTable[i].ticket = thread[r].req.ticketId
          /\ historyTable[i].statoSuccessivo = thread[r].req.stato
          /\ historyTable[i].modificatoDa = thread[r].req.caller
    BY <2>1, <2>2 DEF RowInv, RowsHaveRequests, SavedOK, Asks
  <2>4. \A m \in DOMAIN messageTable : \E r \in Requests :
          /\ Asks(r, "sendMessage")
          /\ thread[r].saved = m
          /\ messageTable[m].ticket = thread[r].req.ticketId
          /\ messageTable[m].autoreId = thread[r].req.caller
    BY <2>1, <2>2 DEF RowInv, RowsHaveRequests, SavedOK, Asks
  <2>5. \A r \in Requests :
          /\ thread[r].answer \in Refusals => thread[r].saved = NoId
          /\ Succeeded(r) => thread[r].saved # NoId
    BY <2>2 DEF SavedOK
  <2>. QED
    BY <2>3, <2>4, <2>5 DEF RowInv, SavedApart, EveryRowHasOneRequest
<1>. QED
  BY <1>1, ThreadsCorrect, RowInvariant, PTL

\* Where the sub claim is the id of the profile, whoever opened a ticket finds it,
\* however many rows in app_user concurrent requests gave them (getMyTickets).
THEOREM TicketsAreFound ==
  (\A u \in ExternalId : SubOf[u] = u) => (Spec => []MyTicketsAreListed)
<1> SUFFICES ASSUME \A u \in ExternalId : SubOf[u] = u PROVE Spec => []MyTicketsAreListed
  OBVIOUS
<1>1. TypeInv /\ RowInv => MyTicketsAreListed
  <2> SUFFICES ASSUME TypeInv, RowInv, NEW r \in Requests, Asks(r, "createTicket"), Succeeded(r)
               PROVE  thread[r].saved \in getMyTickets(SubOf[thread[r].req.caller])
    BY DEF MyTicketsAreListed
  <2> DEFINE t == thread[r].saved
  <2>1. /\ t \in DOMAIN ticketTable
        /\ userTable[ticketTable[t].creatoDa].externalId = thread[r].req.caller
    BY DEF RowInv, SavedOK, Asks
  <2>2. ticketTable[t].creatoDa \in DOMAIN userTable
    BY <2>1 DEF TypeInv, TypeOK, DbTypeOK
  <2>3. thread[r].req.caller \in ExternalId
    <3>1. userTable[ticketTable[t].creatoDa] \in UserRow
      BY <2>2, Elements DEF TypeInv, TypeOK, DbTypeOK
    <3>. QED
      BY <2>1, <3>1 DEF UserRow
  <2>. QED
    BY <2>1, <2>2, <2>3 DEF getMyTickets, findByCreatoDa_ExternalId, findByExternalId
<1>. QED
  BY <1>1, ThreadsCorrect, RowInvariant, PTL

-----------------------------------------------------------------------------
(* What a request no longer forgets. *)

\* How a step changes its thread.
Going(r) ==
  \E l, x : l # "done" /\ \/ Goto(r, l)
                          \/ thread' = [thread EXCEPT ![r] = [@ EXCEPT !.pc = l, !.ticket = x]]
                          \/ thread' = [thread EXCEPT ![r] = [@ EXCEPT !.pc = l, !.creatoDa = x]]
                          \/ thread' = [thread EXCEPT ![r] = [@ EXCEPT !.pc = l, !.saved = x]]

Ending(r) ==
  \E code, x :
    \/ Reply(r, code)
    \/ /\ thread[r].pc = "saveTicket"
       /\ thread' = [thread EXCEPT ![r] = [@ EXCEPT !.pc = "done", !.answer = code, !.saved = x]]

LEMMA StepShapes ==
  ASSUME NEW r \in Requests, Step(r) PROVE Going(r) \/ Ending(r) \/ Accept(r)
<1> USE DEF Going, Ending, Goto
<1>1. CASE Create(r)
  BY <1>1 DEF Create, createTicket, createTicketProfile, createTicketFindUser,
     createTicketSaveUser, createTicketSaveTicket
<1>2. CASE Assegna(r)
  BY <1>2 DEF Assegna, assegnaOperatore, assegnaOperatoreProfile, assegnaOperatoreSave
<1>3. CASE UpdateStatus(r)
  BY <1>3 DEF UpdateStatus, updateTicketStatus, updateTicketStatusProfile, LoadTicket,
     updateTicketStatusSaveHistory, updateTicketStatusSave
<1>4. CASE Message(r)
  BY <1>4 DEF Message, sendMessage, sendMessageProfile, sendMessageSave, LoadTicket
<1>5. CASE Notify(r) \/ Surroundings(r)
  BY <1>5 DEF Notify, NothingToNotify, inviaNotifica, inviaNotificaReturns, inviaNotificaFails,
     Surroundings, getUserProfileFails, DatabaseFails
<1>. QED
  BY <1>1, <1>2, <1>3, <1>4, <1>5 DEF Step

LEMMA StepKeeps ==
  ASSUME TypeInv, NEW r \in Requests, Step(r)
  PROVE  /\ thread[r].pc # "idle" => thread'[r].earlier = thread[r].earlier
         /\ thread'[r].pc = "done" =>
              /\ thread'[r].ticket = thread[r].ticket /\ thread'[r].req = thread[r].req
              /\ thread'[r].saved = thread[r].saved \/ thread[r].pc = "saveTicket"
<1>1. thread[r] \in Thread /\ thread \in [Requests -> Thread]
  BY DEF TypeInv, TypeOK
<1>2. CASE Going(r)
  <2>1. PICK l, x : /\ l # "done"
                    /\ \/ Goto(r, l)
                       \/ thread' = [thread EXCEPT ![r] = [@ EXCEPT !.pc = l, !.ticket = x]]
                       \/ thread' = [thread EXCEPT ![r] = [@ EXCEPT !.pc = l, !.creatoDa = x]]
                       \/ thread' = [thread EXCEPT ![r] = [@ EXCEPT !.pc = l, !.saved = x]]
    BY <1>2 DEF Going
  <2>2. \/ thread'[r] = [thread[r] EXCEPT !.pc = l]
        \/ thread'[r] = [thread[r] EXCEPT !.pc = l, !.ticket = x]
        \/ thread'[r] = [thread[r] EXCEPT !.pc = l, !.creatoDa = x]
        \/ thread'[r] = [thread[r] EXCEPT !.pc = l, !.saved = x]
    BY <1>1, <2>1 DEF Goto
  <2>3. thread'[r].earlier = thread[r].earlier /\ thread'[r].pc = l
    BY <1>1, <2>2 DEF Thread
  <2>. QED
    BY <2>1, <2>3
<1>3. CASE Ending(r)
  <2>1. PICK code, x :
          \/ Reply(r, code)
          \/ /\ thread[r].pc = "saveTicket"
             /\ thread' = [thread EXCEPT ![r] = [@ EXCEPT !.pc = "done", !.answer = code, !.saved = x]]
    BY <1>3 DEF Ending
  <2>2. CASE Reply(r, code)
    BY <1>1, <2>2 DEF Reply, Thread
  <2>3. CASE /\ thread[r].pc = "saveTicket"
             /\ thread' = [thread EXCEPT ![r] = [@ EXCEPT !.pc = "done", !.answer = code, !.saved = x]]
    BY <1>1, <2>3 DEF Thread
  <2>. QED
    BY <2>1, <2>2, <2>3
<1>4. CASE Accept(r)
  BY <1>1, <1>4 DEF Accept, Thread
<1>. QED
  BY <1>2, <1>3, <1>4, StepShapes

\* What may happen at three points of a request.
LEMMA PointSteps ==
  ASSUME NEW r \in Requests, Step(r)
  PROVE  /\ thread[r].pc = "idle" => Accept(r)
         /\ thread[r].pc = "saveStatus" =>
              updateTicketStatusSave(r) \/ (Reply(r, "500") /\ "database" \in Faults)
         /\ thread[r].pc = "posted" => inviaNotificaReturns(r) \/ inviaNotificaFails(r)
<1>1. thread[r].pc \in {"idle", "saveStatus", "posted"} =>
        Accept(r) \/ updateTicketStatusSave(r) \/ DatabaseFails(r)
          \/ inviaNotificaReturns(r) \/ inviaNotificaFails(r)
  BY DEF Step, Create, createTicket, createTicketProfile, createTicketFindUser, createTicketSaveUser,
      createTicketSaveTicket, Assegna, assegnaOperatore, assegnaOperatoreProfile,
      assegnaOperatoreSave, At, getUserProfile, UpdateStatus, updateTicketStatus,
      updateTicketStatusProfile, updateTicketStatusSaveHistory, updateTicketStatusSave, Message,
      sendMessage, sendMessageProfile, sendMessageSave, Notify, NothingToNotify, inviaNotifica,
      inviaNotificaReturns, inviaNotificaFails, Surroundings, Accept, getUserProfileFails,
      DatabaseFails, CallsRepository
<1>. QED
  BY <1>1 DEF Accept, updateTicketStatusSave, DatabaseFails, CallsRepository,
     inviaNotificaReturns, inviaNotificaFails

\* A step of r finds it running.
LEMMA StepRuns ==
  ASSUME NEW r \in Requests, Step(r) PROVE thread[r].pc # "done"
<1>1. CASE Create(r) \/ Assegna(r)
  BY <1>1
  DEF Create, createTicket, createTicketProfile, createTicketFindUser, createTicketSaveUser,
      createTicketSaveTicket, Assegna, assegnaOperatore, assegnaOperatoreProfile,
      assegnaOperatoreSave, At, getUserProfile
<1>2. CASE UpdateStatus(r) \/ Message(r)
  BY <1>2
  DEF UpdateStatus, updateTicketStatus, updateTicketStatusProfile, updateTicketStatusSaveHistory,
      updateTicketStatusSave, Message, sendMessage, sendMessageProfile, sendMessageSave, At,
      getUserProfile
<1>3. CASE Notify(r) \/ Surroundings(r)
  BY <1>3
  DEF Notify, NothingToNotify, inviaNotifica, inviaNotificaReturns, inviaNotificaFails,
      Surroundings, Accept, getUserProfileFails, DatabaseFails, CallsRepository
<1>. QED
  BY <1>1, <1>2, <1>3 DEF Step

\* What a crash leaves of a thread.
LEMMA CrashKeeps ==
  ASSUME TypeInv, Crash, NEW s \in Requests
  PROVE  /\ thread'[s].req = thread[s].req /\ thread'[s].saved = thread[s].saved
         /\ thread'[s].ticket = thread[s].ticket /\ thread'[s].earlier = thread[s].earlier
         /\ \/ thread'[s] = thread[s]
            \/ /\ thread[s].pc \notin {"idle", "done"}
               /\ thread'[s].pc = "done" /\ thread'[s].answer = "lost"
<1>1. \/ thread'[s] = thread[s]
      \/ /\ thread'[s] = [thread[s] EXCEPT !.pc = "done", !.answer = "lost"]
         /\ thread[s].pc \notin {"idle", "done"}
  BY DEF Crash, InFlight
<1>2. thread[s] \in Thread
  BY DEF TypeInv, TypeOK
<1>. QED
  BY <1>1, <1>2 DEF Thread

\* A step of the service is a step of one request, a crash, or leaves threads and
\* tables alone.
LEMMA NextIs ==
  ASSUME [Next]_vars
  PROVE  \/ \E r \in Requests : Step(r)
         \/ Crash /\ UNCHANGED mailVars
         \/ UNCHANGED <<dbVars, thread>>
  BY DEF Next, AllAnswered, vars, Received

\* What has ended stays as it is.
LEMMA EndedStays ==
  ASSUME TypeInv, [Next]_vars, NEW s \in Requests, thread[s].pc = "done"
  PROVE  thread'[s] = thread[s]
<1>1. ASSUME NEW r \in Requests, Step(r) PROVE thread'[s] = thread[s]
  BY <1>1, StepTypeInv, StepRuns DEF OnlyThread
<1>. QED
  BY <1>1, NextIs, CrashKeeps

\* A request that was taken remembers what it asks for and which requests were over,
\* and the row it inserted.
LEMMA Remembers ==
  ASSUME TypeInv, RowInv, [Next]_vars, NEW s \in Requests, thread[s].pc # "idle"
  PROVE  /\ thread'[s].pc # "idle"
         /\ thread'[s].req = thread[s].req /\ thread'[s].earlier = thread[s].earlier
         /\ thread[s].saved # NoId => thread'[s].saved = thread[s].saved
<1>1. ASSUME NEW r \in Requests, Step(r), s # r PROVE thread'[s] = thread[s]
  BY <1>1, StepTypeInv DEF OnlyThread
<1>2. CASE Step(s)
  <2>1. RowStep(s)
    BY <1>2, StepRows DEF RowInv
  <2>. QED
    BY <1>2, <2>1, StepKeeps DEF RowStep, KeepsSaved, Inserts
<1>3. CASE Crash
  BY <1>3, CrashKeeps
<1>. QED
  BY <1>1, <1>2, <1>3, NextIs

LEMMA NextRowsStay ==
  ASSUME TypeInv, RowInv, [Next]_vars PROVE TablesGrow /\ RowsStay
<1>1. ASSUME NEW r \in Requests, Step(r) PROVE TablesGrow /\ RowsStay
  BY <1>1, StepTypeInv, StepRows DEF RowInv, RowStep
<1>. QED
  BY <1>1, NextIs, SameTables, TablesSame DEF Crash

-----------------------------------------------------------------------------
(* What was over when a request was taken. *)

LEMMA InitEarlier == Init => EarlierOver
  BY DEF Init, RequestsInit, IdleThread, EarlierOver

LEMMA NextEarlier == TypeInv /\ RowInv /\ EarlierOver /\ [Next]_vars => EarlierOver'
<1> SUFFICES ASSUME TypeInv, RowInv, EarlierOver, [Next]_vars, NEW s \in Requests
             PROVE  thread'[s].earlier \subseteq Over'
  BY DEF EarlierOver
<1>1. Over \subseteq Over'
  BY EndedStays DEF Over
<1>2. CASE thread[s].pc # "idle" \/ thread'[s] = thread[s]
  BY <1>1, <1>2, Remembers DEF EarlierOver
<1>3. CASE thread[s].pc = "idle" /\ thread'[s] # thread[s]
  <2>1. Step(s)
    BY <1>3, NextIs, StepTypeInv, CrashKeeps DEF OnlyThread
  <2>2. Accept(s)
    BY <1>3, <2>1, PointSteps
  <2>3. thread'[s].earlier = Over
    <3>1. thread[s] \in Thread /\ thread \in [Requests -> Thread]
      BY DEF TypeInv, TypeOK
    <3>. QED
      BY <2>2, <3>1 DEF Accept, Thread
  <2>. QED
    BY <1>1, <2>3
<1>. QED
  BY <1>2, <1>3

LEMMA EarlierInvariant == Spec => []EarlierOver
  BY InitEarlier, NextEarlier, ThreadsCorrect, RowInvariant, PTL DEF Spec

-----------------------------------------------------------------------------
(* Notifications. *)

\* Only inviaNotifica posts.
LEMMA OnlyPosts ==
  ASSUME NEW r \in Requests, Step(r) PROVE UNCHANGED mailVars \/ inviaNotifica(r)
  BY DEF Step, Create, createTicket, createTicketProfile, createTicketFindUser, createTicketSaveUser,
     createTicketSaveTicket, Assegna, assegnaOperatore, assegnaOperatoreProfile,
     assegnaOperatoreSave, UpdateStatus, updateTicketStatus, updateTicketStatusProfile,
     updateTicketStatusSaveHistory, updateTicketStatusSave, Message, sendMessage,
     sendMessageProfile, sendMessageSave, Notify, NothingToNotify, inviaNotificaReturns,
     inviaNotificaFails, Surroundings

\* What a step of the service does to the POSTs.
LEMMA MailSteps ==
  ASSUME TypeInv, [Next]_vars
  PROVE  \/ UNCHANGED mailVars
         \/ \E r \in Requests : inviaNotifica(r) /\ Step(r)
         \/ \E r \in Requests : Received(r)
  BY OnlyPosts DEF Next, AllAnswered, vars

LEMMA PostedNext ==
  ASSUME TypeInv, [Next]_vars
  PROVE  /\ \A k \in DOMAIN delivered : k \in (DOMAIN delivered)' /\ delivered'[k] = delivered[k]
         /\ \A s \in Posted' :
              s \in Posted \/ (inviaNotifica(s) /\ Step(s) /\ s \in Requests)
         /\ Posted \subseteq Posted'
<1>1. CASE UNCHANGED mailVars
  BY <1>1 DEF Posted
<1>2. ASSUME NEW r \in Requests, inviaNotifica(r), Step(r)
      PROVE  /\ \A k \in DOMAIN delivered : k \in (DOMAIN delivered)' /\ delivered'[k] = delivered[k]
             /\ Posted' = Posted \cup {r}
  BY <1>2 DEF inviaNotifica, Posted
<1>3. ASSUME NEW r \in Requests, Received(r)
      PROVE  /\ \A k \in DOMAIN delivered : k \in (DOMAIN delivered)' /\ delivered'[k] = delivered[k]
             /\ Posted' = Posted
  <2>1. /\ delivered \in Seq(Requests) /\ delivered' = Append(delivered, r)
        /\ underway' = underway \ {r} /\ r \in underway
    BY <1>3 DEF Received, TypeInv, TypeOK
  <2>2. /\ \A k \in DOMAIN delivered : k \in (DOMAIN delivered)' /\ delivered'[k] = delivered[k]
        /\ \A k \in (DOMAIN delivered)' : k \in DOMAIN delivered \/ delivered'[k] = r
        /\ \E k \in (DOMAIN delivered)' : delivered'[k] = r
    BY <2>1, AppendRow
  <2>. QED
    BY <2>1, <2>2 DEF Posted
<1>. QED
  BY <1>1, <1>2, <1>3, MailSteps

\* The entity of a request that inserted its row stays in agreement: the handler
\* holds it, or has ended with it.
LEMMA NextKept ==
  ASSUME TypeInv, RowInv, TypeInv', RowInv', [Next]_vars, NEW s \in Requests, KeptOK(s)
  PROVE  KeptOK(s)'
<1>1. TablesGrow
  BY NextRowsStay
<1>2. CASE /\ thread'[s].req = thread[s].req /\ thread'[s].saved = thread[s].saved
           /\ thread'[s].ticket = thread[s].ticket
  BY <1>1, <1>2 DEF KeptOK, TablesGrow
<1>3. CASE Step(s)
  <2>1. CASE thread'[s].pc # "done"
    <3> SUFFICES ASSUME thread'[s].req.op \in {"updateTicketStatus", "sendMessage"},
                        thread'[s].saved # NoId
                 PROVE  HoldsTicket(s)'
      BY DEF TypeInv, EntitiesOK, EntityOK, KeptOK
    <3>. QED
      BY <2>1 DEF RowInv, SavedOK, HoldsTicket
  <2>2. CASE thread'[s].pc = "done"
    <3>1. /\ thread'[s].ticket = thread[s].ticket /\ thread'[s].req = thread[s].req
          /\ thread'[s].saved = thread[s].saved \/ thread[s].pc = "saveTicket"
      BY <1>3, <2>2, StepKeeps
    <3>2. CASE thread[s].pc = "saveTicket"
      BY <3>1, <3>2 DEF TypeInv, ThreadsOK, ThreadOK, KeptOK
    <3>. QED
      BY <1>2, <3>1, <3>2
  <2>. QED
    BY <2>1, <2>2
<1>4. ASSUME NEW r \in Requests, Step(r), r # s PROVE thread'[s] = thread[s]
  BY <1>4, StepTypeInv DEF OnlyThread
<1>. QED
  BY <1>2, <1>3, <1>4, NextIs, CrashKeeps

LEMMA InitMail == Init => MailInv
  BY DEF Init, RequestsInit, IdleThread, NotificationsInit, MailInv, KeptOK, Posted

LEMMA NextMail ==
  TypeInv /\ RowInv /\ MailInv /\ TypeInv' /\ RowInv' /\ [Next]_vars => MailInv'
<1> SUFFICES ASSUME TypeInv, RowInv, MailInv, TypeInv', RowInv', [Next]_vars PROVE MailInv'
  OBVIOUS
<1>1. \A s \in Requests : KeptOK(s)'
  BY NextKept DEF MailInv
<1>2. ASSUME NEW s \in Posted' PROVE PostedOK(s)'
  <2>1. s \in Requests
    BY Elements DEF Posted, TypeInv, TypeOK
  <2>2. CASE inviaNotifica(s) /\ Step(s)
    <3>1. /\ thread'[s].pc = "posted" /\ thread'[s].req = thread[s].req
          /\ thread'[s].ticket = thread[s].ticket /\ thread'[s].saved = thread[s].saved
          /\ thread[s].pc = "notify"
      BY <2>1, <2>2 DEF inviaNotifica, Goto, TypeInv, TypeOK, Thread
    <3>2. thread[s].req.op \in {"updateTicketStatus", "sendMessage"} /\ SavedOK(s)
      BY <2>1, <3>1 DEF TypeInv, ThreadsOK, ThreadOK, RowInv
    <3>. QED
      BY <3>1, <3>2 DEF PostedOK, SavedOK
  <2>3. CASE s \in Posted
    <3>1. PostedOK(s)
      BY <2>3 DEF MailInv
    <3>2. CASE thread'[s] = thread[s]
      BY <3>1, <3>2 DEF PostedOK
    <3>3. CASE Step(s)
      <4>1. thread[s].pc = "posted"
        BY <2>1, <3>1, <3>3, StepRuns DEF PostedOK
      <4>2. \E code : Reply(s, code)
        BY <2>1, <3>3, <4>1, PointSteps DEF inviaNotificaReturns, inviaNotificaFails
      <4>3. /\ thread'[s].pc = "done" /\ thread'[s].req = thread[s].req
            /\ thread'[s].ticket = thread[s].ticket /\ thread'[s].saved = thread[s].saved
        BY <2>1, <4>2 DEF Reply, TypeInv, TypeOK, Thread
      <4>. QED
        BY <3>1, <4>3 DEF PostedOK
    <3>4. CASE Crash
      BY <2>1, <3>1, <3>4, CrashKeeps DEF PostedOK
    <3>5. ASSUME NEW r \in Requests, Step(r), r # s PROVE thread'[s] = thread[s]
      BY <2>1, <3>5, StepTypeInv DEF OnlyThread
    <3>. QED
      BY <3>2, <3>3, <3>4, <3>5, NextIs
  <2>. QED
    BY <2>2, <2>3, PostedNext
<1>3. CASE UNCHANGED mailVars
  BY <1>1, <1>2, <1>3 DEF MailInv
<1>4. ASSUME NEW r \in Requests, inviaNotifica(r) PROVE MailInv'
  <2>1. r \notin Posted
    BY <1>4 DEF inviaNotifica, MailInv, PostedOK
  <2>2. UNCHANGED delivered /\ underway' = underway \cup {r}
    BY <1>4 DEF inviaNotifica
  <2>. QED
    BY <1>1, <1>2, <2>1, <2>2 DEF MailInv, Posted
<1>5. ASSUME NEW r \in Requests, Received(r) PROVE MailInv'
  <2>1. /\ delivered \in Seq(Requests) /\ delivered' = Append(delivered, r)
        /\ underway' = underway \ {r} /\ r \in underway
    BY <1>5 DEF Received, TypeInv, TypeOK
  <2>2. /\ \A k \in DOMAIN delivered : delivered'[k] = delivered[k]
        /\ \A k \in (DOMAIN delivered)' : k \in DOMAIN delivered \/ k = Len(delivered) + 1
        /\ delivered'[Len(delivered) + 1] = r
    BY <2>1, AppendRow
  <2>3. \A k \in DOMAIN delivered : delivered[k] # r
    BY <2>1 DEF MailInv
  <2>4. \A k, l \in (DOMAIN delivered)' : delivered'[k] = delivered'[l] => k = l
    BY <2>2, <2>3 DEF MailInv
  <2>5. \A k \in (DOMAIN delivered)' : delivered'[k] \notin underway'
    BY <2>1, <2>2 DEF MailInv
  <2>. QED
    BY <1>1, <1>2, <2>4, <2>5 DEF MailInv
<1>. QED
  BY <1>3, <1>4, <1>5, MailSteps

LEMMA MailInvariant == Spec => []MailInv
  BY InitMail, NextMail, NextTypeInv, NextRowInv, ThreadsCorrect, RowInvariant, PTL DEF Spec

\* What a request posts is about its own row and for somebody it concerns, however
\* old its entity is: creator and assignee never change.
LEMMA PostedIsTrue ==
  ASSUME TypeInv, RowInv, MailInv, NEW r \in Requests, PostedOK(r)
  PROVE  NotificationIsTrue(r)
<1> SUFFICES ASSUME NEW n \in notifica(r)
             PROVE  LET i == thread[r].saved
                        ticket == ticketTable[n.referenceId]
                    IN /\ n.type = "STATUS_UPDATE" =>
                            /\ n.userId = creatore(ticket)
                            /\ i \in historyOf(n.referenceId)
                            /\ historyTable[i].statoSuccessivo = n.stato
                            /\ historyTable[i].modificatoDa # n.userId
                       /\ n.type = "NEW_MESSAGE" =>
                            /\ ticket.assegnatoA # NoId
                            /\ i \in messagesOf(n.referenceId)
                            /\ \/ n.userId \in {creatore(ticket), assegnatario(ticket)}
                                              \ {messageTable[i].autoreId}
                               \/ n.userId = creatore(ticket) /\ n.userId = assegnatario(ticket)
  BY DEF NotificationIsTrue
<1> DEFINE q == thread[r].req
           t == q.ticketId
           ticket == thread[r].ticket
<1>1. /\ q.op \in {"updateTicketStatus", "sendMessage"}
      /\ t \in DOMAIN ticketTable
      /\ ticket.creatoDa = ticketTable[t].creatoDa
      /\ ticket.assegnatoA = ticketTable[t].assegnatoA
  BY DEF MailInv, KeptOK, PostedOK
<1>2. creatore(ticket) = creatore(ticketTable[t]) /\ assegnatario(ticket) = assegnatario(ticketTable[t])
  BY <1>1 DEF creatore, assegnatario
<1>3. SavedOK(r) /\ thread[r].saved # NoId
  BY DEF RowInv, PostedOK
<1>4. CASE q.op = "updateTicketStatus"
  <2>1. /\ thread[r].saved \in historyOf(t)
        /\ historyTable[thread[r].saved].statoSuccessivo = q.stato
        /\ historyTable[thread[r].saved].modificatoDa = q.caller
        /\ ticket.ticketStatus = q.stato
    BY <1>3, <1>4 DEF SavedOK, historyOf, PostedOK
  <2>2. n \in inviaNotificaCambioStato(t, ticket, q.caller)
    BY <1>4 DEF notifica
  <2>3. /\ n.type = "STATUS_UPDATE" /\ n.referenceId = t /\ n.stato = q.stato
        /\ n.userId = creatore(ticket) /\ n.userId # q.caller
    BY <2>1, <2>2 DEF inviaNotificaCambioStato
  <2>. QED
    BY <1>1, <1>2, <2>1, <2>3
<1>5. CASE q.op = "sendMessage"
  <2>1. thread[r].saved \in messagesOf(t) /\ messageTable[thread[r].saved].autoreId = q.caller
    BY <1>3, <1>5 DEF SavedOK, messagesOf
  <2>2. n \in inviaNotificaMessaggio(t, ticket, q.caller)
    BY <1>5 DEF notifica
  <2>3. /\ n.type = "NEW_MESSAGE" /\ n.referenceId = t /\ ticket.assegnatoA # NoId
        /\ n.userId = IF q.caller = assegnatario(ticket) THEN creatore(ticket) ELSE assegnatario(ticket)
    BY <2>2 DEF inviaNotificaMessaggio
  <2>4. \/ n.userId \in {creatore(ticket), assegnatario(ticket)} \ {q.caller}
        \/ n.userId = creatore(ticket) /\ n.userId = assegnatario(ticket)
    BY <2>3
  <2>. QED
    BY <1>1, <1>2, <2>1, <2>3, <2>4
<1>. QED
  BY <1>1, <1>4, <1>5

\* What the notification service is told is so, however old the entity it is told
\* from and however late the POST arrives (NotificationService).
THEOREM ToldTheTruth == Spec => []NotificationsAreTrue
<1>1. TypeInv /\ RowInv /\ MailInv => NotificationsAreTrue
  <2> SUFFICES ASSUME TypeInv, RowInv, MailInv, NEW k \in DOMAIN delivered
               PROVE  NotificationIsTrue(delivered[k])
    BY DEF NotificationsAreTrue
  <2>1. delivered[k] \in Posted /\ delivered[k] \in Requests
    BY Elements DEF Posted, TypeInv, TypeOK
  <2>. QED
    BY <2>1, PostedIsTrue DEF MailInv
<1>. QED
  BY <1>1, ThreadsCorrect, RowInvariant, MailInvariant, PTL

\* Lost answers, exceptions and late arrivals included, nobody is told twice about
\* one row (NotificationClient tries once).
THEOREM ToldOnce == Spec => []NotifiedAtMostOnce
<1>1. TypeInv /\ RowInv /\ MailInv => NotifiedAtMostOnce
  <2> SUFFICES ASSUME TypeInv, RowInv, MailInv, NEW k \in DOMAIN delivered, NEW l \in DOMAIN delivered,
                      thread[delivered[k]].req.op = thread[delivered[l]].req.op,
                      thread[delivered[k]].saved = thread[delivered[l]].saved
               PROVE  k = l
    BY DEF NotifiedAtMostOnce
  <2> DEFINE r == delivered[k]
             s == delivered[l]
  <2>1. r \in Requests /\ s \in Requests /\ r \in Posted /\ s \in Posted
    BY Elements DEF Posted, TypeInv, TypeOK
  <2>2. /\ thread[r].pc # "idle" /\ thread[s].pc # "idle" /\ thread[r].saved # NoId
        /\ thread[r].req.op \in Op
    BY <2>1 DEF MailInv, PostedOK, Op
  <2> HIDE DEF r, s
  <2>3. r = s
    BY <2>1, <2>2 DEF r, s, RowInv, SavedApart, Asks
  <2>. QED
    BY <2>3 DEF r, s, MailInv
<1>. QED
  BY <1>1, ThreadsCorrect, RowInvariant, MailInvariant, PTL

\* Whether a request has to tell somebody does not change once it has its row.
LEMMA SameNotifica ==
  ASSUME TypeInv, TablesGrow, RowsStay, NEW s \in Requests, KeptOK(s),
         thread[s].req.op \in {"updateTicketStatus", "sendMessage"}, thread[s].saved # NoId,
         thread'[s].req = thread[s].req, thread'[s].ticket = thread[s].ticket
  PROVE  notifica(s)' = notifica(s)
<1> DEFINE ticket == thread[s].ticket
           q == thread[s].req
<1>1. /\ ticket.creatoDa \in DOMAIN userTable
      /\ ticket.assegnatoA # NoId => ticket.assegnatoA \in DOMAIN userTable
  BY DEF KeptOK, TypeInv, TypeOK, DbTypeOK
<1>2. /\ userTable'[ticket.creatoDa] = userTable[ticket.creatoDa]
      /\ ticket.assegnatoA # NoId => userTable'[ticket.assegnatoA] = userTable[ticket.assegnatoA]
  BY <1>1 DEF RowsStay
<1>3. CASE q.op = "updateTicketStatus"
  <2>1. /\ notifica(s) = inviaNotificaCambioStato(q.ticketId, ticket, q.caller)
        /\ notifica(s)' = inviaNotificaCambioStato(q.ticketId, ticket, q.caller)'
    BY <1>3 DEF notifica
  <2>. QED
    BY <1>2, <2>1 DEF inviaNotificaCambioStato, creatore
<1>4. CASE q.op = "sendMessage"
  <2>1. /\ notifica(s) = inviaNotificaMessaggio(q.ticketId, ticket, q.caller)
        /\ notifica(s)' = inviaNotificaMessaggio(q.ticketId, ticket, q.caller)'
    BY <1>4 DEF notifica
  <2>. QED
    BY <1>2, <2>1 DEF inviaNotificaMessaggio, creatore, assegnatario
<1>. QED
  BY <1>3, <1>4

\* How a request comes to succeed: it opens a ticket, tells nobody, or its POST returns.
LEMMA SuccessSteps ==
  ASSUME TypeInv, NEW s \in Requests, Step(s), Succeeded(s)', ~Succeeded(s)
  PROVE  \/ createTicketSaveTicket(s) \/ NothingToNotify(s) \/ inviaNotificaReturns(s)
<1>1. thread[s] \in Thread /\ thread \in [Requests -> Thread]
  BY DEF TypeInv, TypeOK
<1>2. ASSUME NEW code \in {"400", "401", "403", "404", "500"}, Reply(s, code) PROVE FALSE
  BY <1>1, <1>2 DEF Reply, Thread, Succeeded
<1>3. ASSUME thread'[s].answer = thread[s].answer PROVE FALSE
  BY <1>3 DEF Succeeded
<1>4. ASSUME NEW l, Goto(s, l) PROVE FALSE
  BY <1>1, <1>3, <1>4 DEF Goto, Thread
<1>5. ASSUME NEW x, NEW l,
             \/ thread' = [thread EXCEPT ![s] = [@ EXCEPT !.pc = l, !.ticket = x]]
             \/ thread' = [thread EXCEPT ![s] = [@ EXCEPT !.pc = l, !.creatoDa = x]]
             \/ thread' = [thread EXCEPT ![s] = [@ EXCEPT !.pc = l, !.saved = x]]
      PROVE  FALSE
  <2>1. \/ thread'[s] = [thread[s] EXCEPT !.pc = l, !.ticket = x]
        \/ thread'[s] = [thread[s] EXCEPT !.pc = l, !.creatoDa = x]
        \/ thread'[s] = [thread[s] EXCEPT !.pc = l, !.saved = x]
    BY <1>1, <1>5
  <2>. QED
    BY <1>1, <1>3, <2>1 DEF Thread
<1>6. ~ Accept(s)
  BY <1>1, <1>3 DEF Accept, Thread
<1>7. CASE Create(s)
  BY <1>2, <1>4, <1>5, <1>7 DEF Create, createTicket, createTicketProfile, createTicketFindUser,
     createTicketSaveUser
<1>8. CASE Assegna(s)
  <2>1. CASE assegnaOperatoreSave(s)
    BY <1>2, <2>1, AssegnaOperatoreIsRefused
  <2>. QED
    BY <1>2, <1>4, <1>5, <1>8, <2>1 DEF Assegna, assegnaOperatore, assegnaOperatoreProfile
<1>9. CASE UpdateStatus(s)
  BY <1>2, <1>4, <1>5, <1>9 DEF UpdateStatus, updateTicketStatus, updateTicketStatusProfile,
     LoadTicket, updateTicketStatusSaveHistory, updateTicketStatusSave
<1>10. CASE Message(s)
  BY <1>2, <1>4, <1>5, <1>10 DEF Message, sendMessage, sendMessageProfile, sendMessageSave,
     LoadTicket
<1>11. CASE Notify(s) \/ Surroundings(s)
  BY <1>2, <1>4, <1>6, <1>11 DEF Notify, inviaNotifica, inviaNotificaFails, Surroundings,
     getUserProfileFails, DatabaseFails
<1>. QED
  BY <1>7, <1>8, <1>9, <1>10, <1>11 DEF Step

\* Who has to tell somebody and was answered with success has told them first.
Tells(r) ==
  \E k \in DOMAIN delivered :
    /\ delivered[k] = r
    /\ \A l \in DOMAIN delivered : r \in thread[delivered[l]].earlier => k < l

HasTold(r) ==
  /\ Asks(r, "updateTicketStatus") \/ Asks(r, "sendMessage")
  /\ Succeeded(r)
  /\ notifica(r) # {}
  => Tells(r)

\* The place of a notification stays before those of later requests.
LEMMA TellsStays ==
  ASSUME TypeInv, RowInv, MailInv, [Next]_vars, NEW r \in Requests, Tells(r)
  PROVE  Tells(r)'
<1>1. PICK k \in DOMAIN delivered :
        /\ delivered[k] = r
        /\ \A l \in DOMAIN delivered : r \in thread[delivered[l]].earlier => k < l
  BY DEF Tells
<1>2. k \in (DOMAIN delivered)' /\ delivered'[k] = r
  BY <1>1, PostedNext
<1>3. ASSUME NEW l \in DOMAIN delivered
      PROVE  /\ delivered'[l] = delivered[l]
             /\ thread'[delivered[l]].earlier = thread[delivered[l]].earlier
  <2>1. delivered[l] \in Posted /\ delivered[l] \in Requests
    BY Elements DEF Posted, TypeInv, TypeOK
  <2>2. thread[delivered[l]].pc # "idle"
    BY <2>1 DEF MailInv, PostedOK
  <2>. QED
    BY <2>1, <2>2, Remembers, PostedNext
<1>4. ASSUME NEW l \in (DOMAIN delivered)', l \notin DOMAIN delivered PROVE k < l
  <2>1. PICK s \in Requests : Received(s)
    BY <1>4, MailSteps DEF inviaNotifica
  <2>2. delivered \in Seq(Requests) /\ delivered' = Append(delivered, s)
    BY <2>1 DEF Received, TypeInv, TypeOK
  <2>3. l = Len(delivered) + 1 /\ DOMAIN delivered = 1 .. Len(delivered) /\ Len(delivered) \in Nat
    BY <1>4, <2>2, AppendRow
  <2>. QED
    BY <2>3
<1>. QED
  BY <1>1, <1>2, <1>3, <1>4 DEF Tells

LEMMA NextTold ==
  /\ TypeInv /\ RowInv /\ MailInv /\ EarlierOver /\ ToldInv
  /\ TypeInv' /\ RowInv' /\ [Next]_vars
  => ToldInv'
<1> SUFFICES ASSUME TypeInv, RowInv, MailInv, EarlierOver, ToldInv, TypeInv', RowInv', [Next]_vars
             PROVE  ToldInv'
  OBVIOUS
<1>1. ASSUME NEW s \in Requests, thread'[s].pc = "posted" PROVE s \in Posted'
  <2>1. CASE thread[s].pc = "posted"
    BY <2>1, PostedNext DEF ToldInv
  <2>2. CASE thread[s].pc # "posted"
    <3>1. Step(s)
      BY <1>1, <2>2, NextIs, StepTypeInv, CrashKeeps DEF OnlyThread
    <3>2. inviaNotifica(s)
      <4>1. thread[s] \in Thread /\ thread \in [Requests -> Thread]
        BY DEF TypeInv, TypeOK
      <4>2. ASSUME NEW l, l # "posted", Goto(s, l) PROVE FALSE
        BY <1>1, <4>1, <4>2 DEF Goto, Thread
      <4>3. ASSUME NEW l, l # "posted", NEW x,
                   \/ thread' = [thread EXCEPT ![s] = [@ EXCEPT !.pc = l, !.ticket = x]]
                   \/ thread' = [thread EXCEPT ![s] = [@ EXCEPT !.pc = l, !.creatoDa = x]]
                   \/ thread' = [thread EXCEPT ![s] = [@ EXCEPT !.pc = l, !.saved = x]]
            PROVE  FALSE
        <5>1. \/ thread'[s] = [thread[s] EXCEPT !.pc = l, !.ticket = x]
              \/ thread'[s] = [thread[s] EXCEPT !.pc = l, !.creatoDa = x]
              \/ thread'[s] = [thread[s] EXCEPT !.pc = l, !.saved = x]
          BY <4>1, <4>3
        <5>. QED
          BY <1>1, <4>1, <4>3, <5>1 DEF Thread
      <4>4. ~ Ending(s) /\ ~ Accept(s) /\ \A code : ~ Reply(s, code)
        <5>1. ASSUME NEW code, Reply(s, code) PROVE FALSE
          BY <1>1, <4>1, <5>1 DEF Reply, Thread
        <5>2. ASSUME NEW code, NEW x,
                     thread' = [thread EXCEPT ![s] =
                                  [@ EXCEPT !.pc = "done", !.answer = code, !.saved = x]]
              PROVE  FALSE
          BY <1>1, <4>1, <5>2 DEF Thread
        <5>3. ~ Accept(s)
          BY <1>1, <4>1 DEF Accept, Thread
        <5>. QED
          BY <5>1, <5>2, <5>3 DEF Ending
      <4>5. CASE Create(s)
        <5>1. ~ createTicketSaveTicket(s)
          BY <4>4 DEF createTicketSaveTicket, Ending
        <5>. QED
          BY <4>2, <4>3, <4>4, <4>5, <5>1 DEF Create, createTicket, createTicketProfile,
             createTicketFindUser, createTicketSaveUser
      <4>6. CASE Assegna(s)
        BY <4>2, <4>3, <4>4, <4>6 DEF Assegna, assegnaOperatore, assegnaOperatoreProfile,
           assegnaOperatoreSave
      <4>7. CASE UpdateStatus(s)
        BY <4>2, <4>3, <4>4, <4>7 DEF UpdateStatus, updateTicketStatus, updateTicketStatusProfile,
           LoadTicket, updateTicketStatusSaveHistory, updateTicketStatusSave
      <4>8. CASE Message(s)
        BY <4>2, <4>3, <4>4, <4>8 DEF Message, sendMessage, sendMessageProfile, sendMessageSave,
           LoadTicket
      <4>9. CASE Notify(s) \/ Surroundings(s)
        BY <4>4, <4>9 DEF Notify, NothingToNotify, inviaNotificaReturns, inviaNotificaFails,
           Surroundings, getUserProfileFails, DatabaseFails
      <4>. QED
        BY <3>1, <4>5, <4>6, <4>7, <4>8, <4>9 DEF Step
    <3>. QED
      BY <3>2 DEF inviaNotifica, Posted
  <2>. QED
    BY <2>1, <2>2
<1>2. ASSUME NEW r \in Requests PROVE HasTold(r)'
  <2> SUFFICES ASSUME Asks(r, "updateTicketStatus")' \/ Asks(r, "sendMessage")',
                      Succeeded(r)', notifica(r)' # {}
               PROVE  Tells(r)'
    BY DEF HasTold
  <2>1. CASE Succeeded(r)
    <3>1. thread[r].pc = "done" /\ thread[r].saved # NoId
      BY <2>1 DEF RowInv, SavedOK, Succeeded
    <3>2. thread'[r] = thread[r]
      BY <3>1, EndedStays
    <3>3. notifica(r)' = notifica(r)
      BY <3>1, <3>2, SameNotifica, NextRowsStay DEF MailInv, Asks
    <3>4. Tells(r)
      BY <2>1, <3>2, <3>3 DEF ToldInv, ToldBeforeAnswered, Tells, Asks
    <3>. QED
      BY <3>4, TellsStays
  <2>2. CASE ~ Succeeded(r)
    <3>1. Step(r)
      <4>1. ~ Crash
        BY <2>2, CrashKeeps DEF Succeeded
      <4>. QED
        BY <2>2, <4>1, NextIs, StepTypeInv DEF OnlyThread, Succeeded
    <3>2. ~ createTicketSaveTicket(r)
      <4>1. createTicketSaveTicket(r) => thread[r].req.op = "createTicket" /\ thread[r].pc # "idle"
        BY DEF createTicketSaveTicket, TypeInv, ThreadsOK, ThreadOK
      <4>. QED
        BY <4>1, Remembers DEF Asks
    <3>3. CASE NothingToNotify(r)
      <4>1. /\ thread[r].pc = "notify" /\ notifica(r) = {} /\ thread'[r].req = thread[r].req
            /\ thread'[r].ticket = thread[r].ticket
        BY <3>3 DEF NothingToNotify, Reply, TypeInv, TypeOK, Thread
      <4>2. /\ thread[r].saved # NoId /\ KeptOK(r)
            /\ thread[r].req.op \in {"updateTicketStatus", "sendMessage"}
        BY <4>1 DEF RowInv, SavedOK, MailInv, TypeInv, ThreadsOK, ThreadOK
      <4>. QED
        BY <4>1, <4>2, SameNotifica, NextRowsStay
    <3>4. CASE inviaNotificaReturns(r)
      <4>1. thread[r].pc = "posted" /\ r \notin underway /\ UNCHANGED mailVars
        BY <3>4 DEF inviaNotificaReturns
      <4>2. PICK k \in DOMAIN delivered : delivered[k] = r
        BY <4>1 DEF ToldInv, Posted
      <4>3. ASSUME NEW l \in DOMAIN delivered PROVE r \notin thread'[delivered[l]].earlier
        <5>1. delivered[l] \in Posted /\ delivered[l] \in Requests
          BY Elements DEF Posted, TypeInv, TypeOK
        <5>2. thread'[delivered[l]].earlier \subseteq Over
          BY <5>1, Remembers DEF MailInv, PostedOK, EarlierOver
        <5>. QED
          BY <4>1, <5>2 DEF Over
      <4>. QED
        BY <4>1, <4>2, <4>3 DEF Tells
    <3>. QED
      BY <2>2, <3>1, <3>2, <3>3, <3>4, SuccessSteps
  <2>. QED
    BY <2>1, <2>2
<1>3. ToldBeforeAnswered'
  BY <1>2 DEF HasTold, Tells, ToldBeforeAnswered
<1>. QED
  BY <1>1, <1>3 DEF ToldInv

\* A request that was answered with success has told whom it had to tell, before
\* any request sent after the answer tells anybody, whatever fails in between
\* (NotificationClient waits for the notification service).
THEOREM AnsweredHaveTold == Spec => []ToldBeforeAnswered
<1>1. Init => ToldInv
  BY DEF Init, RequestsInit, IdleThread, ToldInv, ToldBeforeAnswered, Asks
<1>2. ToldInv => ToldBeforeAnswered
  BY DEF ToldInv
<1>. QED
  BY <1>1, <1>2, NextTold, NextTypeInv, NextRowInv, ThreadsCorrect, RowInvariant, MailInvariant,
     EarlierInvariant, PTL DEF Spec
=============================================================================
