-------------------------- MODULE HelpDeskApartProofs --------------------------
(***************************************************************************)
(* Proofs about clients that keep apart: app_user has one row a person, an  *)
(* acknowledged update stays, and status and history change as one although *)
(* updates are cut short.  For any number of requests, of which any number  *)
(* may run at once, any rows at the start and every fault.                  *)
(***************************************************************************)
EXTENDS HelpDeskRefinementProofs, HelpDeskRowProofs, HelpDeskApart

USE DEF mailVars

-----------------------------------------------------------------------------
\* What holds of every HelpDesk holds of one among such clients.
LEMMA ApartIsHelpDesk == ApartSpec => Spec
<1>1. [ApartNext]_vars => [Next]_vars
  BY DEF ApartNext
<1>. QED
  BY <1>1, PTL DEF ApartSpec, Spec

LEMMA ApartInvariant == ApartSpec => [](UpdatesApart /\ OpeningsApart)
<1>1. Init => UpdatesApart /\ OpeningsApart
  BY DEF Init, RequestsInit, IdleThread, UpdatesApart, OpeningsApart, Running, InFlight
<1>2. UpdatesApart /\ OpeningsApart /\ [ApartNext]_vars => UpdatesApart' /\ OpeningsApart'
  BY DEF ApartNext, vars, UpdatesApart, OpeningsApart, Running, InFlight
<1>. QED
  BY <1>1, <1>2, PTL DEF ApartSpec

-----------------------------------------------------------------------------
(* app_user. *)

\* Where a step leads.
LEMMA NextPC ==
  ASSUME TypeInv, NEW r \in Requests
  PROVE  /\ \A code : Reply(r, code) => thread'[r].pc = "done"
         /\ \A l : Goto(r, l) => thread'[r].pc = l
         /\ LoadTicket(r) => thread'[r].pc \in {"profile", "done"}
<1>1. thread[r] \in Thread /\ thread \in [Requests -> Thread]
  BY DEF TypeInv, TypeOK
<1>2. ASSUME NEW code, Reply(r, code) PROVE thread'[r].pc = "done"
  BY <1>1, <1>2 DEF Reply, Thread
<1>3. ASSUME NEW l, Goto(r, l) PROVE thread'[r].pc = l
  BY <1>1, <1>3 DEF Goto, Thread
<1>4. ASSUME NEW ticket, thread' = [thread EXCEPT ![r] = [@ EXCEPT !.pc = "profile", !.ticket = ticket]]
      PROVE  thread'[r].pc = "profile"
  BY <1>1, <1>4 DEF Thread
<1>. QED
  BY <1>2, <1>3, <1>4 DEF LoadTicket

UserStep(r) ==
  /\ userTable' = userTable \/ createTicketSaveUser(r)
  /\ thread'[r].pc = "saveUser" => createTicketFindUser(r)

LEMMA UserSteps ==
  ASSUME TypeInv, NEW r \in Requests, Step(r) PROVE UserStep(r)
<1> USE DEF UserStep
<1>1. CASE createTicket(r) \/ createTicketProfile(r) \/ createTicketFindUser(r)
  BY <1>1, NextPC DEF createTicket, createTicketProfile, createTicketFindUser, dbVars
<1>2. CASE createTicketSaveUser(r) \/ createTicketSaveTicket(r)
  <2>1. thread'[r].pc # "saveUser"
    <3>1. CASE createTicketSaveUser(r)
      BY <3>1 DEF createTicketSaveUser, TypeInv, TypeOK, Thread
    <3>2. CASE createTicketSaveTicket(r) /\ ~ Reply(r, "500")
      BY <3>2 DEF createTicketSaveTicket, TypeInv, TypeOK, Thread
    <3>. QED
      BY <1>2, <3>1, <3>2, NextPC
  <2>. QED
    BY <1>2, <2>1 DEF createTicketSaveTicket
<1>3. CASE assegnaOperatore(r)
  BY <1>3, NextPC, LoadFields DEF assegnaOperatore, dbVars
<1>4. CASE assegnaOperatoreProfile(r) \/ assegnaOperatoreSave(r)
  BY <1>4, NextPC, AssegnaOperatoreIsRefused DEF assegnaOperatoreProfile, dbVars
<1>5. CASE updateTicketStatus(r) \/ updateTicketStatusProfile(r)
  BY <1>5, NextPC DEF updateTicketStatus, updateTicketStatusProfile, dbVars
<1>6. CASE updateTicketStatusSaveHistory(r) \/ updateTicketStatusSave(r)
  BY <1>6 DEF updateTicketStatusSaveHistory, updateTicketStatusSave, TypeInv, TypeOK, Thread
<1>7. CASE sendMessage(r) \/ sendMessageProfile(r)
  BY <1>7, NextPC DEF sendMessage, sendMessageProfile, dbVars
<1>8. CASE sendMessageSave(r)
  BY <1>8 DEF sendMessageSave, TypeInv, TypeOK, Thread
<1>9. CASE Notify(r)
  BY <1>9, NextPC DEF Notify, NothingToNotify, inviaNotifica, inviaNotificaReturns,
     inviaNotificaFails, dbVars
<1>10. CASE Surroundings(r)
  <2>1. CASE Accept(r)
    BY <2>1 DEF Accept, TypeInv, TypeOK, Thread, dbVars
  <2>2. CASE getUserProfileFails(r) \/ DatabaseFails(r)
    BY <2>2, NextPC DEF getUserProfileFails, DatabaseFails, dbVars
  <2>. QED
    BY <1>10, <2>1, <2>2 DEF Surroundings
<1>. QED
  BY <1>1, <1>2, <1>3, <1>4, <1>5, <1>6, <1>7, <1>8, <1>9, <1>10
  DEF Step, Create, Assegna, UpdateStatus, Message

LEMMA NextNewPersonInv ==
  TypeInv /\ OpeningsApart /\ NewPersonInv /\ [Next]_vars => NewPersonInv'
<1> SUFFICES ASSUME TypeInv, OpeningsApart, NewPersonInv, [Next]_vars PROVE NewPersonInv'
  OBVIOUS
<1>1. ASSUME NEW r \in Requests, Step(r) PROVE NewPersonInv'
  <2>1. \A s \in Requests \ {r} : thread'[s] = thread[s]
    BY <1>1, StepTypeInv DEF OnlyThread
  <2>2. CASE createTicketSaveUser(r)
    <3> DEFINE row == [externalId |-> thread[r].req.caller]
    <3>1. row \in UserRow /\ userTable \in Seq(UserRow) /\ userTable' = Append(userTable, row)
      BY <2>2 DEF createTicketSaveUser, insertUser, TypeInv, TypeOK, DbTypeOK, ThreadsOK, ThreadOK,
         UserRow
    <3>2. /\ \A u \in DOMAIN userTable : userTable'[u] = userTable[u]
          /\ \A u \in (DOMAIN userTable)' : u \in DOMAIN userTable \/ u = Len(userTable) + 1
          /\ userTable'[Len(userTable) + 1] = row
      BY <3>1, AppendRow
    <3>3. \A u \in DOMAIN userTable : userTable[u].externalId # thread[r].req.caller
      BY <2>2 DEF createTicketSaveUser, NewPersonInv
    <3>4. OneRowPerPerson'
      BY <3>2, <3>3 DEF NewPersonInv, OneRowPerPerson
    <3>5. ASSUME NEW s \in Requests, thread'[s].pc = "saveUser"
          PROVE  thread'[s] = thread[s] /\ thread[s].req.caller # thread[r].req.caller
      <4>1. thread[r].pc = "saveUser" /\ thread'[r].pc = "saveTicket"
        BY <2>2 DEF createTicketSaveUser, TypeInv, TypeOK, Thread
      <4>2. s # r /\ thread'[s] = thread[s] /\ thread[s].pc = "saveUser"
        BY <2>1, <3>5, <4>1
      <4>3. /\ r \in Running("createTicket") /\ s \in Running("createTicket")
            /\ thread[r].req.caller # Nobody
        BY <4>1, <4>2, RequestAssumption DEF Running, InFlight, TypeInv, ThreadsOK, ThreadOK
      <4>. QED
        BY <4>2, <4>3 DEF OpeningsApart
    <3>6. ASSUME NEW s \in Requests, thread'[s].pc = "saveUser", NEW u \in (DOMAIN userTable)'
          PROVE  userTable'[u].externalId # thread'[s].req.caller
      BY <3>2, <3>5, <3>6 DEF NewPersonInv
    <3>. QED
      BY <3>4, <3>6 DEF NewPersonInv
  <2>3. CASE createTicketFindUser(r)
    <3>1. userTable' = userTable
      BY <2>3 DEF createTicketFindUser, dbVars
    <3>2. thread'[r].pc = "saveUser" =>
            /\ findByExternalId(thread[r].req.caller) = {}
            /\ thread'[r].req = thread[r].req
      BY <2>3 DEF createTicketFindUser, Goto, Reply, TypeInv, TypeOK, Thread
    <3>. QED
      BY <2>1, <3>1, <3>2 DEF NewPersonInv, OneRowPerPerson, findByExternalId
  <2>4. CASE userTable' = userTable /\ thread'[r].pc # "saveUser"
    BY <2>1, <2>4 DEF NewPersonInv, OneRowPerPerson
  <2>. QED
    BY <1>1, <2>2, <2>3, <2>4, UserSteps DEF UserStep
<1>2. CASE Crash
  <2>1. \A r \in Requests : thread'[r] = thread[r] \/ thread'[r].pc = "done"
    BY <1>2 DEF Crash, TypeInv, TypeOK, Thread
  <2>2. userTable' = userTable
    BY <1>2 DEF Crash, dbVars
  <2>3. ASSUME NEW r \in Requests, thread'[r].pc = "saveUser" PROVE thread'[r] = thread[r]
    BY <2>1, <2>3
  <2>. QED
    BY <2>2, <2>3 DEF NewPersonInv, OneRowPerPerson
<1>3. CASE UNCHANGED <<dbVars, thread>>
  BY <1>3 DEF dbVars, NewPersonInv, OneRowPerPerson
<1>. QED
  BY <1>1, <1>2, <1>3, NextIs

\* The Optional of findByExternalId never meets two rows when the openings of a
\* person do not overlap (createTicket looks the person up, then inserts).
THEOREM PersonsHaveOneRow ==
  ASSUME \A u, v \in DOMAIN InitialUsers :
           InitialUsers[u].externalId = InitialUsers[v].externalId => u = v
  PROVE  ApartSpec => []OneRowPerPerson
<1>1. Init => NewPersonInv
  BY DEF Init, DbInit, RequestsInit, IdleThread, NewPersonInv, OneRowPerPerson
<1>2. NewPersonInv => OneRowPerPerson
  BY DEF NewPersonInv
<1>. QED
  BY <1>1, <1>2, NextNewPersonInv, ThreadsCorrect, ApartIsHelpDesk, ApartInvariant, PTL DEF Spec

-----------------------------------------------------------------------------
(* The newest row of a ticket. *)

\* The rows of a ticket below n.
Older(t, n) == {j \in historyOf(t) : j < n}

\* Where there are rows there is a newest one.
HasNewest(S) == S # {} => \E j \in S : \A k \in S : k <= j

Newest(S) == IF S = {} THEN NoId ELSE CHOOSE j \in S : \A k \in S : k <= j

LEMMA RowBeforeIsNewest ==
  ASSUME NEW t, NEW n PROVE RowBefore(t, n) = Newest(Older(t, n))
  BY DEF RowBefore, Newest, Older

LEMMA RowBeforeIsNewestNext ==
  ASSUME NEW t, NEW n PROVE RowBefore(t, n)' = Newest(Older(t, n)')
  BY DEF RowBefore, Newest, Older

NewestInv == \A t : \A n \in 1 .. Rows + 1 : HasNewest(Older(t, n))

LEMMA NewestIs ==
  ASSUME NEW S, S \subseteq Nat, NEW i \in S, \A k \in S : k <= i
  PROVE  Newest(S) = i
<1>1. \A j \in S : (\A k \in S : k <= j) => j = i
  OBVIOUS
<1>. QED
  BY <1>1 DEF Newest

LEMMA RowBeforeIsRow ==
  ASSUME NEW t, NEW n, HasNewest(Older(t, n))
  PROVE  RowBefore(t, n) \in DOMAIN historyTable \cup {NoId}
  BY DEF RowBefore, Older, HasNewest, historyOf

\* A row inserted for a ticket is the end of its history and of no other, and
\* what older rows tell stays.
InsertsRow(row) ==
  /\ Rows \in Nat /\ Rows' = Rows + 1
  /\ DOMAIN historyTable = 1 .. Rows /\ (DOMAIN historyTable)' = 1 .. Rows + 1
  /\ \A i \in DOMAIN historyTable : historyTable'[i] = historyTable[i]
  /\ historyTable'[Rows + 1] = row

LEMMA OlderStay ==
  ASSUME NEW row, InsertsRow(row), NEW t, NEW n \in 1 .. Rows + 1
  PROVE  Older(t, n)' = Older(t, n)
  BY DEF InsertsRow, Older, historyOf

LEMMA OlderGrow ==
  ASSUME NEW row, InsertsRow(row), NEW t
  PROVE  Older(t, Rows + 1)' =
           Older(t, Rows + 1) \cup (IF row.ticket = t THEN {Rows + 1} ELSE {})
  BY DEF InsertsRow, Older, historyOf

\* The rows before an older one stay, the inserted one is the newest of its ticket
\* and of no other.
LEMMA InsertIsNewest ==
  ASSUME NEW row, InsertsRow(row), NewestInv
  PROVE  /\ \A t : \A n \in 1 .. Rows + 1 : RowBefore(t, n)' = RowBefore(t, n)
         /\ \A t : t # row.ticket => NewestRow(t)' = NewestRow(t)
         /\ \A t : t = row.ticket => NewestRow(t)' = Rows + 1
         /\ NewestInv'
<1>1. ASSUME NEW t, NEW n \in 1 .. Rows + 1 PROVE RowBefore(t, n)' = RowBefore(t, n)
  BY <1>1, OlderStay, RowBeforeIsNewest, RowBeforeIsNewestNext
<1>2. \A t : NewestRow(t)' = Newest(Older(t, Rows + 1)')
  BY DEF NewestRow, RowBefore, Newest, Older
<1>3. ASSUME NEW t, t # row.ticket PROVE NewestRow(t)' = NewestRow(t)
  <2>1. Older(t, Rows + 1)' = Older(t, Rows + 1)
    BY <1>3, OlderGrow
  <2>. QED
    BY <1>2, <2>1, RowBeforeIsNewest DEF NewestRow
<1>4. ASSUME NEW t, t = row.ticket PROVE NewestRow(t)' = Rows + 1
  <2>1. Older(t, Rows + 1)' = Older(t, Rows + 1) \cup {Rows + 1}
    BY <1>4, OlderGrow
  <2>2. Older(t, Rows + 1) \subseteq 1 .. Rows
    BY DEF Older, historyOf, InsertsRow
  <2>3. Newest(Older(t, Rows + 1)') = Rows + 1
    BY <2>1, <2>2, NewestIs DEF InsertsRow
  <2>. QED
    BY <1>2, <2>3
<1>5. NewestInv'
  <2> SUFFICES ASSUME NEW t, NEW n \in 1 .. Rows' + 1 PROVE HasNewest(Older(t, n)')
    BY DEF NewestInv, HasNewest, Older, historyOf
  <2>1. CASE n \in 1 .. Rows + 1
    BY <2>1, OlderStay DEF NewestInv
  <2>2. CASE n = Rows + 2
    <3>1. Older(t, n)' = Older(t, Rows + 1)'
      BY <2>2 DEF Older, InsertsRow
    <3>2. CASE row.ticket = t
      <4>1. Older(t, n)' = Older(t, Rows + 1) \cup {Rows + 1} /\ Older(t, Rows + 1) \subseteq 1 .. Rows
        BY <3>1, <3>2, OlderGrow DEF Older, historyOf, InsertsRow
      <4>2. \A k \in Older(t, n)' : k <= Rows + 1
        BY <4>1 DEF InsertsRow
      <4>. QED
        BY <4>1, <4>2 DEF HasNewest
    <3>3. CASE row.ticket # t
      <4>1. Older(t, n)' = Older(t, Rows + 1)
        BY <3>1, <3>3, OlderGrow
      <4>. QED
        BY <4>1 DEF NewestInv, InsertsRow
    <3>. QED
      BY <3>2, <3>3
  <2>. QED
    BY <2>1, <2>2 DEF InsertsRow
<1>. QED
  BY <1>1, <1>3, <1>4, <1>5

LEMMA SameNewest ==
  ASSUME UNCHANGED historyTable
  PROVE  /\ \A t, n : RowBefore(t, n)' = RowBefore(t, n)
         /\ \A t : NewestRow(t)' = NewestRow(t)
         /\ NewestInv => NewestInv'
<1>1. \A t, n : Older(t, n)' = Older(t, n) /\ Rows' = Rows
  BY DEF Older, historyOf, Rows
<1>2. \A t, n : RowBefore(t, n)' = RowBefore(t, n)
  BY <1>1, RowBeforeIsNewest, RowBeforeIsNewestNext
<1>3. \A t : NewestRow(t)' = NewestRow(t)
  BY <1>1, <1>2 DEF NewestRow, RowBefore, historyOf, Rows
<1>4. NewestInv => NewestInv'
  BY <1>1 DEF NewestInv, HasNewest
<1>. QED
  BY <1>2, <1>3, <1>4

LEMMA NewestIsRow ==
  ASSUME TypeInv, NewestInv, NEW t
  PROVE  /\ NewestRow(t) \in DOMAIN historyTable \cup {NoId}
         /\ \A i \in DOMAIN historyTable :
              i \in 1 .. Rows + 1 /\ RowBefore(t, i) \in DOMAIN historyTable \cup {NoId}
<1>1. Rows \in Nat /\ DOMAIN historyTable = 1 .. Rows
  BY DEF TypeInv, TypeOK, DbTypeOK, Rows
<1>. QED
  BY <1>1, RowBeforeIsRow DEF NewestInv, NewestRow

-----------------------------------------------------------------------------
(* Steps that leave the history alone. *)

\* An update that was cut short stays so.
CutsStay ==
  \A r \in Requests : CutShort(r) => CutShort(r)' /\ thread'[r].saved = thread[r].saved

HistoryStays ==
  \A i \in DOMAIN historyTable : i \in (DOMAIN historyTable)' /\ historyTable'[i] = historyTable[i]

LEMMA EndsStay ==
  ASSUME CutsStay, HistoryStays, NEW t, NEW i \in DOMAIN historyTable \cup {NoId}, NEW status,
         EndsIn(t, i, status)
  PROVE  EndsIn(t, i, status)'
<1>1. i # NoId => i \in DOMAIN historyTable /\ historyTable'[i] = historyTable[i]
  BY DEF HistoryStays
<1>2. CASE status = StatusAfterRow(t, i)
  BY <1>1, <1>2 DEF EndsIn, StatusAfterRow, StartStatus
<1>3. CASE /\ i # NoId
           /\ \E r \in Requests : CutShort(r) /\ thread[r].saved = i
           /\ status = historyTable[i].statoPrecedente
  BY <1>1, <1>3 DEF EndsIn, CutsStay
<1>. QED
  BY <1>2, <1>3 DEF EndsIn

\* Only an update that has its row and has not written its ticket can be cut short.
LEMMA NotCutShort ==
  ASSUME TypeInv, RowInv, NEW r \in Requests, Step(r), UNCHANGED historyTable,
         thread[r].pc # "saveStatus"
  PROVE  ~ CutShort(r)'
<1> SUFFICES ASSUME CutShort(r)' PROVE FALSE
  OBVIOUS
<1>1. RowStep(r)
  BY StepRows DEF RowInv
<1>2. CASE Inserts(r)
  <2>1. /\ thread'[r].saved = Len(historyTable) + 1
        /\ thread'[r].saved \in DOMAIN historyTable
    BY <1>1, <1>2 DEF RowStep, SavedOK, CutShort, Inserts, InsertsTicket, InsertsHistory, InsertsMessage
  <2>. QED
    BY <2>1, NextKey DEF TypeInv, TypeOK, DbTypeOK
<1>3. CASE KeepsSaved(r)
  <2>1. thread[r].saved # NoId
    BY <1>3 DEF KeepsSaved, CutShort
  <2>2. thread[r].pc \in {"notify", "posted"}
    BY <2>1, StepRuns DEF RowInv, SavedOK
  <2>3. thread'[r].req = thread[r].req /\ thread'[r].ticket = thread[r].ticket
    BY StepKeeps DEF CutShort
  <2>. QED
    BY <2>2, <2>3 DEF RowInv, SavedOK, CutShort
<1>. QED
  BY <1>1, <1>2, <1>3 DEF RowStep

-----------------------------------------------------------------------------
(* The history of a ticket, whatever is cut short. *)

\* A half done update ends.
Cuts(r) ==
  /\ thread[r].pc = "saveStatus"
  /\ thread'[r].pc = "done"
  /\ thread'[r].req = thread[r].req
  /\ thread'[r].saved = thread[r].saved
  /\ thread'[r].ticket = thread[r].ticket
  /\ ~ Succeeded(r)'
  /\ "crash" \in Faults \/ "database" \in Faults

\* A request that is not half done takes a step and does not become so.
Moves(r) ==
  /\ thread[r].pc \notin {"saveStatus", "done"}
  /\ thread'[r].pc # "saveStatus"
  /\ ~ CutShort(r)'
  /\ HoldsTicket(r)' /\ thread'[r].req.op = "updateTicketStatus" =>
       /\ thread'[r].ticket.ticketStatus = ticketTable'[thread'[r].req.ticketId].ticketStatus
       /\ thread'[r].pc \in {"notify", "posted"} =>
            /\ thread[r].pc \in {"notify", "posted"}
            /\ thread'[r].req = thread[r].req /\ thread'[r].saved = thread[r].saved

\* A half done update whose end is recorded as such.
LEMMA CutEnds ==
  ASSUME TypeInv, RowInv, ApartInv, NEW r \in Requests, Cuts(r), UNCHANGED historyTable,
         NEW t, t = thread[r].req.ticketId
  PROVE  EndsIn(t, NewestRow(t), ticketTable[t].ticketStatus)
           \/ /\ NewestRow(t) # NoId
              /\ CutShort(r)' /\ thread'[r].saved = NewestRow(t)
              /\ ticketTable[t].ticketStatus = historyTable[NewestRow(t)].statoPrecedente
<1> DEFINE i == thread[r].saved
<1>1. /\ thread[r].req.op = "updateTicketStatus"
      /\ i # NoId /\ i \in DOMAIN historyTable
      /\ historyTable[i].statoSuccessivo = thread[r].req.stato
  <2>1. thread[r].req.op = "updateTicketStatus"
    BY DEF Cuts, TypeInv, ThreadsOK, ThreadOK
  <2>. QED
    BY <2>1 DEF Cuts, RowInv, SavedOK
<1>2. /\ i = NewestRow(t)
      /\ historyTable[i].statoPrecedente = thread[r].ticket.ticketStatus
  BY <1>1 DEF Cuts, ApartInv, PendingOK
<1>3. thread[r].ticket.ticketStatus = ticketTable[t].ticketStatus
  BY <1>1 DEF Cuts, ApartInv, CurrentOK, HoldsTicket
<1>4. CASE thread[r].ticket.ticketStatus = thread[r].req.stato
  BY <1>1, <1>2, <1>3, <1>4 DEF EndsIn, StatusAfterRow
<1>5. CASE thread[r].ticket.ticketStatus # thread[r].req.stato
  BY <1>1, <1>2, <1>3, <1>5 DEF Cuts, CutShort
<1>. QED
  BY <1>4, <1>5

\* Steps, and crashes of any number of requests, that leave the history and the
\* status of the tickets alone.
LEMMA ApartFrame ==
  ASSUME TypeInv, RowInv, NewestInv, ApartInv, UNCHANGED historyTable,
         \A t \in DOMAIN ticketTable : t \in (DOMAIN ticketTable)' /\ ticketTable'[t] = ticketTable[t],
         \A t \in (DOMAIN ticketTable)' \ DOMAIN ticketTable :
           EndsIn(t, NewestRow(t), ticketTable'[t].ticketStatus),
         \A r \in Requests : thread'[r] = thread[r] \/ Cuts(r) \/ Moves(r)
  PROVE  ApartInv'
<1>1. /\ \A t, n : RowBefore(t, n)' = RowBefore(t, n)
      /\ \A t : NewestRow(t)' = NewestRow(t)
  BY SameNewest
<1>2. CutsStay /\ HistoryStays
  BY DEF CutsStay, HistoryStays, CutShort, Cuts, Moves
<1>3. ChainOK'
  <2> SUFFICES ASSUME NEW i \in DOMAIN historyTable, NEW t, t = historyTable[i].ticket
               PROVE  EndsIn(t, RowBefore(t, i), historyTable[i].statoPrecedente)'
    BY DEF ChainOK
  <2>1. EndsIn(t, RowBefore(t, i), historyTable[i].statoPrecedente)
    BY DEF ApartInv, ChainOK
  <2>2. PICK j \in DOMAIN historyTable \cup {NoId} : j = RowBefore(t, i)
    BY NewestIsRow
  <2>3. PICK status : status = historyTable[i].statoPrecedente
    OBVIOUS
  <2>4. EndsIn(t, j, status)'
    BY <1>2, <2>1, <2>2, <2>3, EndsStay
  <2>. QED
    BY <1>1, <2>2, <2>3, <2>4 DEF EndsIn, StatusAfterRow
<1>4. WrittenOK'
  <2> SUFFICES ASSUME NEW t \in (DOMAIN ticketTable)', \A r \in Requests : ~ Pending(r, t)'
               PROVE  EndsIn(t, NewestRow(t), ticketTable[t].ticketStatus)'
    BY DEF WrittenOK
  <2>1. PICK j \in DOMAIN historyTable \cup {NoId} : j = NewestRow(t)
    BY NewestIsRow
  <2>2. PICK status : status = ticketTable'[t].ticketStatus
    OBVIOUS
  <2>3. EndsIn(t, j, status)'
    <3>1. CASE EndsIn(t, j, status)
      BY <1>2, <3>1, EndsStay
    <3>2. CASE ~ EndsIn(t, j, status)
      <4>1. t \in DOMAIN ticketTable /\ status = ticketTable[t].ticketStatus
        BY <2>1, <2>2, <3>2
      <4>2. PICK r \in Requests : Pending(r, t)
        BY <2>1, <3>2, <4>1 DEF ApartInv, WrittenOK
      <4>3. Cuts(r)
        BY <4>2 DEF Pending, Moves
      <4>4. NewestRow(t) # NoId /\ CutShort(r)' /\ thread'[r].saved = NewestRow(t)
            /\ ticketTable[t].ticketStatus = historyTable[NewestRow(t)].statoPrecedente
        BY <2>1, <3>2, <4>1, <4>2, <4>3, CutEnds DEF Pending
      <4>. QED
        BY <2>1, <4>1, <4>4 DEF EndsIn
    <3>. QED
      BY <3>1, <3>2
  <2>. QED
    BY <1>1, <2>1, <2>2, <2>3 DEF EndsIn, StatusAfterRow
<1>5. PendingOK'
  <2> SUFFICES ASSUME NEW r \in Requests
               PROVE  /\ /\ thread'[r].pc \in {"saveStatus", "notify", "posted"}
                         /\ thread'[r].req.op = "updateTicketStatus"
                         => thread'[r].saved = NewestRow(thread'[r].req.ticketId)
                      /\ thread'[r].pc = "saveStatus" =>
                           historyTable[thread'[r].saved].statoPrecedente = thread'[r].ticket.ticketStatus
    BY <1>1 DEF PendingOK
  <2>1. CASE thread'[r] = thread[r]
    BY <2>1 DEF ApartInv, PendingOK
  <2>2. CASE Moves(r)
    BY <2>2 DEF Moves, HoldsTicket, ApartInv, PendingOK
  <2>. QED
    BY <2>1, <2>2 DEF Cuts
<1>6. CurrentOK'
  <2> SUFFICES ASSUME NEW r \in Requests, HoldsTicket(r)', thread'[r].req.op = "updateTicketStatus"
               PROVE  thread'[r].ticket.ticketStatus = ticketTable'[thread'[r].req.ticketId].ticketStatus
    BY DEF CurrentOK
  <2>1. CASE thread'[r] = thread[r]
    <3>1. HoldsTicket(r) /\ thread[r].req.ticketId \in DOMAIN ticketTable
      BY <2>1 DEF HoldsTicket, TypeInv, EntitiesOK, EntityOK
    <3>. QED
      BY <2>1, <3>1 DEF ApartInv, CurrentOK
  <2>2. CASE Moves(r)
    BY <2>2 DEF Moves
  <2>3. ~ Cuts(r)
    BY DEF Cuts, HoldsTicket
  <2>. QED
    BY <2>1, <2>2, <2>3
<1>7. CutOK'
  <2> SUFFICES ASSUME NEW r \in Requests, CutShort(r)'
               PROVE  ~ Succeeded(r)' /\ ("crash" \in Faults \/ "database" \in Faults)
    BY DEF CutOK
  <2>1. CASE thread'[r] = thread[r]
    BY <2>1 DEF ApartInv, CutOK, CutShort, Succeeded
  <2>2. CASE Cuts(r) \/ Moves(r)
    BY <2>2 DEF Cuts, Moves
  <2>. QED
    BY <2>1, <2>2
<1>. QED
  BY <1>3, <1>4, <1>5, <1>6, <1>7 DEF ApartInv

\* A step that neither opens a ticket nor writes one nor its history.
LEMMA QuietIsCutOrMove ==
  ASSUME TypeInv, RowInv, ApartInv, NEW r \in Requests, Step(r),
         QuietStep(r) \/ LoadStep(r), ~ updateTicketStatusSave(r)
  PROVE  Cuts(r) \/ Moves(r)
<1>1. UNCHANGED <<ticketTable, historyTable>>
  BY DEF QuietStep, LoadStep
<1>2. CASE thread[r].pc = "saveStatus"
  <2>1. Reply(r, "500") /\ "database" \in Faults
    BY <1>2, PointSteps
  <2>. QED
    BY <1>2, <2>1 DEF Reply, Cuts, Succeeded, TypeInv, TypeOK, Thread
<1>3. CASE thread[r].pc # "saveStatus"
  <2>1. thread[r].pc # "done" /\ ~ CutShort(r)'
    BY <1>1, <1>3, StepRuns, NotCutShort
  <2>2. thread'[r].pc # "saveStatus"
    BY DEF QuietStep, LoadStep
  <2>3. ASSUME HoldsTicket(r)', thread'[r].req.op = "updateTicketStatus"
        PROVE  thread'[r].ticket.ticketStatus = ticketTable'[thread'[r].req.ticketId].ticketStatus
    BY <1>1, <2>3 DEF QuietStep, LoadStep, ApartInv, CurrentOK
  <2>4. ASSUME thread'[r].req.op = "updateTicketStatus", thread'[r].pc \in {"notify", "posted"}
        PROVE  /\ thread[r].pc \in {"notify", "posted"}
               /\ thread'[r].req = thread[r].req /\ thread'[r].saved = thread[r].saved
    <3>1. thread'[r].req = thread[r].req
      BY <2>4 DEF QuietStep, LoadStep, HoldsTicket
    <3>2. RowStep(r)
      BY StepRows DEF RowInv
    <3>3. thread'[r].saved \in DOMAIN historyTable \ {NoId}
      BY <1>1, <2>4, <3>2 DEF RowStep, SavedOK
    <3>4. ~ Inserts(r)
      BY <2>4, <3>1, <3>3, NextKey DEF Inserts, InsertsTicket, InsertsHistory, InsertsMessage,
         TypeInv, TypeOK, DbTypeOK
    <3>5. thread'[r].saved = thread[r].saved
      BY <3>2, <3>4 DEF RowStep, KeepsSaved
    <3>. QED
      BY <1>3, <2>1, <3>1, <3>3, <3>5 DEF RowInv, SavedOK
  <2>. QED
    BY <1>3, <2>1, <2>2, <2>3, <2>4 DEF Moves
<1>. QED
  BY <1>2, <1>3

LEMMA QuietApartInv ==
  ASSUME TypeInv, RowInv, NewestInv, ApartInv, NEW r \in Requests, Step(r), OnlyThread(r),
         QuietStep(r) \/ LoadStep(r), ~ updateTicketStatusSave(r)
  PROVE  ApartInv'
<1>1. UNCHANGED <<ticketTable, historyTable>>
  BY DEF QuietStep, LoadStep
<1>. QED
  BY <1>1, QuietIsCutOrMove, ApartFrame DEF OnlyThread

\* A ticket with no history has the status it was opened in.
LEMMA NewTicketEnds ==
  ASSUME TypeInv, StatusInv, NEW t, t \notin DOMAIN ticketTable
  PROVE  NewestRow(t) = NoId /\ EndsIn(t, NewestRow(t), "PRESO_IN_CARICO")
<1>1. historyOf(t) = {}
  BY DEF historyOf, TypeInv, TypeOK, DbTypeOK
<1>2. NewestRow(t) = NoId
  BY <1>1 DEF NewestRow, RowBefore
<1>3. t \notin DOMAIN InitialTickets
  BY DEF StatusInv, FirstTicketsStay
<1>. QED
  BY <1>2, <1>3 DEF EndsIn, StatusAfterRow, StartStatus

LEMMA OpenApartInv ==
  ASSUME TypeInv, StatusInv, RowInv, NewestInv, ApartInv, NEW r \in Requests, Step(r), OnlyThread(r),
         OpenStep(r)
  PROVE  ApartInv'
<1> DEFINE row == [ticketStatus |-> "PRESO_IN_CARICO",
                   creatoDa |-> thread[r].creatoDa, assegnatoA |-> NoId]
<1>1. /\ ticketTable' = Append(ticketTable, row)
      /\ UNCHANGED historyTable
      /\ thread[r].pc = "saveTicket"
      /\ thread'[r].pc = "done"
  BY DEF OpenStep, createTicketSaveTicket, insertTicket, TypeInv, TypeOK, Thread
<1>2. ticketTable \in Seq(TicketRow) /\ row \in TicketRow
  BY DEF TypeInv, TypeOK, DbTypeOK, Thread, TicketRow, TicketStatus, NoId
<1>3. /\ \A t \in DOMAIN ticketTable : t \in (DOMAIN ticketTable)' /\ ticketTable'[t] = ticketTable[t]
      /\ \A t \in (DOMAIN ticketTable)' \ DOMAIN ticketTable : ticketTable'[t] = row
  BY <1>1, <1>2, AppendRow
<1>4. \A t \in (DOMAIN ticketTable)' \ DOMAIN ticketTable :
        EndsIn(t, NewestRow(t), ticketTable'[t].ticketStatus)
  BY <1>3, NewTicketEnds
<1>5. Moves(r)
  BY <1>1, NotCutShort DEF Moves, HoldsTicket
<1>. QED
  BY <1>1, <1>3, <1>4, <1>5, ApartFrame DEF OnlyThread

LEMMA CrashCuts ==
  ASSUME TypeInv, RowInv, Crash
  PROVE  \A r \in Requests : thread'[r] = thread[r] \/ Cuts(r) \/ Moves(r)
<1> SUFFICES ASSUME NEW r \in Requests, thread'[r] # thread[r] PROVE Cuts(r) \/ Moves(r)
  OBVIOUS
<1>1. "crash" \in Faults
  BY DEF Crash
<1>2. /\ thread[r].pc # "done"
      /\ thread'[r].pc = "done" /\ thread'[r].answer = "lost"
      /\ thread'[r].req = thread[r].req /\ thread'[r].saved = thread[r].saved
      /\ thread'[r].ticket = thread[r].ticket
  BY CrashKeeps
<1>3. CASE thread[r].pc = "saveStatus"
  BY <1>1, <1>2, <1>3 DEF Cuts, Succeeded
<1>4. CASE thread[r].pc # "saveStatus"
  <2>1. ~ CutShort(r)'
    BY <1>2, <1>4 DEF CutShort, RowInv, SavedOK
  <2>. QED
    BY <1>2, <1>4, <2>1 DEF Moves, HoldsTicket
<1>. QED
  BY <1>3, <1>4

LEMMA CrashApartInv ==
  ASSUME TypeInv, RowInv, NewestInv, ApartInv, Crash
  PROVE  ApartInv'
<1>1. UNCHANGED <<ticketTable, historyTable>>
  BY DEF Crash, dbVars
<1>. QED
  BY <1>1, CrashCuts, ApartFrame

\* While an update is between its save and its answer no other one has its ticket.
LEMMA OthersHoldOthers ==
  ASSUME TypeInv, UpdatesApart, NEW r \in Requests,
         thread[r].pc \in {"saveHistory", "saveStatus", "notify", "posted"},
         thread[r].req.op = "updateTicketStatus", NEW s \in Requests, s # r
  PROVE  /\ thread[s].pc = "saveStatus" => thread[s].req.ticketId # thread[r].req.ticketId
         /\ HoldsTicket(s) /\ thread[s].req.op = "updateTicketStatus" =>
              thread[s].req.ticketId # thread[r].req.ticketId
<1>1. r \in Running("updateTicketStatus")
  BY DEF Running, InFlight
<1>2. thread[s].pc = "saveStatus" => s \in Running("updateTicketStatus")
  BY DEF TypeInv, ThreadsOK, ThreadOK, Running, InFlight
<1>3. HoldsTicket(s) /\ thread[s].req.op = "updateTicketStatus" => s \in Running("updateTicketStatus")
  BY DEF HoldsTicket, Running, InFlight
<1>. QED
  BY <1>1, <1>2, <1>3 DEF UpdatesApart

\* The row of an update goes on where the history of its ticket ends.
LEMMA SaveHistoryApartInv ==
  ASSUME TypeInv, RowInv, UpdatesApart, NewestInv, ApartInv, NEW r \in Requests, OnlyThread(r),
         updateTicketStatusSaveHistory(r)
  PROVE  ApartInv' /\ NewestInv'
<1> DEFINE row == [ticket |-> thread[r].req.ticketId,
                   statoPrecedente |-> thread[r].ticket.ticketStatus,
                   statoSuccessivo |-> thread[r].req.stato,
                   modificatoDa |-> thread[r].req.caller]
           u == thread[r].req.ticketId
<1>1. /\ thread[r].pc = "saveHistory"
      /\ historyTable' = Append(historyTable, row)
      /\ UNCHANGED ticketTable
      /\ thread' = [thread EXCEPT ![r] =
                      [@ EXCEPT !.pc = "saveStatus", !.saved = Len(historyTable) + 1]]
  BY DEF updateTicketStatusSaveHistory, insertHistory
<1>2. /\ thread'[r].pc = "saveStatus" /\ thread'[r].saved = Rows + 1
      /\ thread'[r].req = thread[r].req /\ thread'[r].ticket = thread[r].ticket
  BY <1>1 DEF TypeInv, TypeOK, Thread, Rows
<1>3. /\ u \in DOMAIN ticketTable /\ thread[r].ticket \in TicketRow
      /\ thread[r].req.stato \in TicketStatus /\ thread[r].req.caller \in ExternalId
      /\ thread[r].req.op = "updateTicketStatus"
  BY <1>1 DEF TypeInv, ThreadsOK, ThreadOK, EntitiesOK, EntityOK, HoldsTicket
<1>4. historyTable \in Seq(HistoryRow) /\ row \in HistoryRow
  <2>1. u \in Nat
    BY <1>3, Keys DEF TypeInv, TypeOK, DbTypeOK
  <2>. QED
    BY <1>3, <2>1 DEF TypeInv, TypeOK, DbTypeOK, HistoryRow, TicketRow
<1>5. InsertsRow(row)
  BY <1>1, <1>4, AppendRow DEF InsertsRow, Rows
<1>6. /\ row.ticket = u /\ row.statoPrecedente = thread[r].ticket.ticketStatus
      /\ row.statoSuccessivo = thread[r].req.stato
  OBVIOUS
<1> HIDE DEF row
<1>7. /\ \A t : \A n \in 1 .. Rows + 1 : RowBefore(t, n)' = RowBefore(t, n)
      /\ \A t : t # u => NewestRow(t)' = NewestRow(t)
      /\ \A t : t = u => NewestRow(t)' = Rows + 1
      /\ NewestInv'
  BY <1>5, <1>6, InsertIsNewest
<1>8. CutsStay /\ HistoryStays
  <2>1. HistoryStays
    BY <1>5 DEF HistoryStays, InsertsRow
  <2>2. CutsStay
    BY <1>1 DEF CutsStay, CutShort, OnlyThread
  <2>. QED
    BY <2>1, <2>2
<1>9. \A s \in Requests \ {r} :
        /\ thread'[s] = thread[s]
        /\ thread[s].pc = "saveStatus" => thread[s].req.ticketId # u
        /\ /\ thread[s].pc \in {"saveStatus", "notify", "posted"}
           /\ thread[s].req.op = "updateTicketStatus"
           => thread[s].req.ticketId # u
  BY <1>1, <1>3, OthersHoldOthers DEF OnlyThread, HoldsTicket
<1>10. EndsIn(u, NewestRow(u), row.statoPrecedente)
  <2>1. \A s \in Requests : ~ Pending(s, u)
    BY <1>1, <1>9 DEF Pending
  <2>2. EndsIn(u, NewestRow(u), ticketTable[u].ticketStatus)
    BY <1>3, <2>1 DEF ApartInv, WrittenOK
  <2>3. thread[r].ticket.ticketStatus = ticketTable[u].ticketStatus
    BY <1>1, <1>3 DEF ApartInv, CurrentOK, HoldsTicket
  <2>. QED
    BY <1>6, <2>2, <2>3
<1>11. ChainOK'
  <2> SUFFICES ASSUME NEW i \in (DOMAIN historyTable)', NEW t, t = historyTable'[i].ticket
               PROVE  EndsIn(t, RowBefore(t, i), historyTable[i].statoPrecedente)'
    BY DEF ChainOK
  <2>1. i \in 1 .. Rows + 1 /\ RowBefore(t, i)' = RowBefore(t, i)
    BY <1>5, <1>7 DEF InsertsRow
  <2>2. PICK status : status = historyTable'[i].statoPrecedente
    OBVIOUS
  <2>3. PICK j \in DOMAIN historyTable \cup {NoId} : j = RowBefore(t, i)
    BY <2>1, RowBeforeIsRow DEF NewestInv
  <2>4. EndsIn(t, j, status)
    <3>1. CASE i \in DOMAIN historyTable
      BY <1>5, <2>2, <2>3, <3>1 DEF InsertsRow, ApartInv, ChainOK
    <3>2. CASE i = Rows + 1
      BY <1>5, <1>6, <1>10, <2>2, <2>3, <3>2 DEF InsertsRow, NewestRow
    <3>. QED
      BY <1>5, <3>1, <3>2 DEF InsertsRow
  <2>5. EndsIn(t, j, status)'
    BY <1>8, <2>4, EndsStay
  <2>. QED
    BY <2>1, <2>2, <2>3, <2>5 DEF EndsIn, StatusAfterRow
<1>12. WrittenOK'
  <2> SUFFICES ASSUME NEW t \in DOMAIN ticketTable, \A s \in Requests : ~ Pending(s, t)'
               PROVE  EndsIn(t, NewestRow(t), ticketTable[t].ticketStatus)'
    BY <1>1 DEF WrittenOK
  <2>1. t # u
    BY <1>2 DEF Pending
  <2>2. \A s \in Requests : ~ Pending(s, t)
    BY <1>1, <1>9 DEF Pending
  <2>3. PICK j \in DOMAIN historyTable \cup {NoId} : j = NewestRow(t)
    BY NewestIsRow
  <2>4. PICK status : status = ticketTable[t].ticketStatus
    OBVIOUS
  <2>5. EndsIn(t, j, status)
    BY <2>2, <2>3, <2>4 DEF ApartInv, WrittenOK
  <2>6. EndsIn(t, j, status)'
    BY <1>8, <2>5, EndsStay
  <2>. QED
    BY <1>1, <1>7, <2>1, <2>3, <2>4, <2>6 DEF EndsIn, StatusAfterRow
<1>13. PendingOK'
  <2> SUFFICES ASSUME NEW s \in Requests
               PROVE  /\ /\ thread'[s].pc \in {"saveStatus", "notify", "posted"}
                         /\ thread'[s].req.op = "updateTicketStatus"
                         => thread'[s].saved = NewestRow(thread[s].req.ticketId)'
                      /\ thread'[s].pc = "saveStatus" =>
                           historyTable'[thread'[s].saved].statoPrecedente = thread'[s].ticket.ticketStatus
    BY DEF PendingOK
  <2>1. CASE s = r
    BY <1>2, <1>5, <1>6, <1>7, <2>1 DEF InsertsRow
  <2>2. CASE s # r
    <3>1. thread'[s] = thread[s]
      BY <1>9, <2>2
    <3>2. ASSUME thread[s].pc \in {"saveStatus", "notify", "posted"},
                 thread[s].req.op = "updateTicketStatus"
          PROVE  thread[s].saved = NewestRow(thread[s].req.ticketId)'
      BY <1>7, <1>9, <2>2, <3>2 DEF ApartInv, PendingOK
    <3>3. ASSUME thread[s].pc = "saveStatus"
          PROVE  historyTable'[thread[s].saved].statoPrecedente = thread[s].ticket.ticketStatus
      <4>1. thread[s].saved \in DOMAIN historyTable
        BY <3>3 DEF TypeInv, ThreadsOK, ThreadOK, RowInv, SavedOK
      <4>. QED
        BY <1>5, <3>3, <4>1 DEF ApartInv, PendingOK, InsertsRow
    <3>. QED
      BY <3>1, <3>2, <3>3
  <2>. QED
    BY <2>1, <2>2
<1>14. CurrentOK'
  BY <1>1, <1>2, <1>9 DEF ApartInv, CurrentOK, HoldsTicket
<1>15. CutOK'
  BY <1>2, <1>9 DEF ApartInv, CutOK, CutShort, Succeeded
<1>. QED
  BY <1>7, <1>11, <1>12, <1>13, <1>14, <1>15 DEF ApartInv

\* The ticket takes the status its newest row ends in.
LEMMA SaveStatusApartInv ==
  ASSUME TypeInv, RowInv, UpdatesApart, NewestInv, ApartInv, NEW r \in Requests, OnlyThread(r),
         updateTicketStatusSave(r)
  PROVE  ApartInv' /\ NewestInv'
<1> DEFINE ticket == [thread[r].ticket EXCEPT !.ticketStatus = thread[r].req.stato]
           u == thread[r].req.ticketId
<1>1. /\ thread[r].pc = "saveStatus"
      /\ ticketTable' = IF ticket = thread[r].ticket THEN ticketTable
                                                     ELSE [ticketTable EXCEPT ![u] = ticket]
      /\ UNCHANGED historyTable
      /\ thread' = [thread EXCEPT ![r] = [@ EXCEPT !.pc = "notify", !.ticket = ticket]]
  BY DEF updateTicketStatusSave, updateTicket
<1>2. /\ thread[r].ticket \in TicketRow
      /\ thread[r].req.stato \in TicketStatus /\ thread[r].req.op = "updateTicketStatus"
      /\ u \in DOMAIN ticketTable
      /\ ticketTable \in Seq(TicketRow)
  BY <1>1 DEF TypeInv, TypeOK, DbTypeOK, ThreadsOK, ThreadOK, EntitiesOK, EntityOK, HoldsTicket
<1>3. ticket \in TicketRow /\ ticket.ticketStatus = thread[r].req.stato
  BY <1>2 DEF TicketRow
<1>4. /\ thread'[r].pc = "notify" /\ thread'[r].ticket = ticket /\ thread'[r].req = thread[r].req
      /\ thread'[r].saved = thread[r].saved
  BY <1>1 DEF TypeInv, TypeOK, Thread
<1>5. thread[r].ticket.ticketStatus = ticketTable[u].ticketStatus
  BY <1>1, <1>2 DEF ApartInv, CurrentOK, HoldsTicket
<1> HIDE DEF ticket
<1>6. /\ (DOMAIN ticketTable)' = DOMAIN ticketTable
      /\ ticketTable'[u].ticketStatus = thread[r].req.stato
      /\ \A t \in DOMAIN ticketTable : t # u => ticketTable'[t] = ticketTable[t]
  <2>1. CASE ticket = thread[r].ticket
    BY <1>1, <1>3, <1>5, <2>1
  <2>2. CASE ticket # thread[r].ticket
    BY <1>1, <1>2, <1>3, <2>2, UpdateRow
  <2>. QED
    BY <2>1, <2>2
<1>7. \A s \in Requests \ {r} :
        /\ thread'[s] = thread[s]
        /\ HoldsTicket(s) /\ thread[s].req.op = "updateTicketStatus" => thread[s].req.ticketId # u
  BY <1>1, <1>2, OthersHoldOthers DEF OnlyThread
<1>8. /\ \A t, n : RowBefore(t, n)' = RowBefore(t, n)
      /\ \A t : NewestRow(t)' = NewestRow(t)
      /\ NewestInv'
  BY <1>1, SameNewest
<1>9. CutsStay /\ HistoryStays
  BY <1>1 DEF CutsStay, HistoryStays, CutShort, OnlyThread
<1>10. ChainOK'
  <2> SUFFICES ASSUME NEW i \in DOMAIN historyTable, NEW t, t = historyTable[i].ticket
               PROVE  EndsIn(t, RowBefore(t, i), historyTable[i].statoPrecedente)'
    BY <1>1 DEF ChainOK
  <2>1. PICK j \in DOMAIN historyTable \cup {NoId} : j = RowBefore(t, i)
    BY NewestIsRow
  <2>2. PICK status : status = historyTable[i].statoPrecedente
    OBVIOUS
  <2>3. EndsIn(t, j, status)'
    BY <1>9, <2>1, <2>2, EndsStay DEF ApartInv, ChainOK
  <2>. QED
    BY <1>1, <1>8, <2>1, <2>2, <2>3 DEF EndsIn, StatusAfterRow
<1>11. WrittenOK'
  <2> SUFFICES ASSUME NEW t \in DOMAIN ticketTable, \A s \in Requests : ~ Pending(s, t)'
               PROVE  EndsIn(t, NewestRow(t), ticketTable[t].ticketStatus)'
    BY <1>6 DEF WrittenOK
  <2>1. CASE t = u
    <3>1. /\ NewestRow(u) = thread[r].saved /\ thread[r].saved # NoId
          /\ historyTable[thread[r].saved].statoSuccessivo = thread[r].req.stato
      BY <1>1, <1>2 DEF ApartInv, PendingOK, RowInv, SavedOK
    <3>. QED
      BY <1>1, <1>6, <1>8, <2>1, <3>1 DEF EndsIn, StatusAfterRow
  <2>2. CASE t # u
    <3>1. \A s \in Requests : ~ Pending(s, t)
      BY <1>7, <2>2 DEF Pending
    <3>2. PICK j \in DOMAIN historyTable \cup {NoId} : j = NewestRow(t)
      BY NewestIsRow
    <3>3. PICK status : status = ticketTable[t].ticketStatus
      OBVIOUS
    <3>4. EndsIn(t, j, status)'
      BY <1>9, <3>1, <3>2, <3>3, EndsStay DEF ApartInv, WrittenOK
    <3>. QED
      BY <1>6, <1>8, <2>2, <3>2, <3>3, <3>4 DEF EndsIn, StatusAfterRow
  <2>. QED
    BY <2>1, <2>2
<1>12. PendingOK'
  BY <1>1, <1>4, <1>7, <1>8 DEF ApartInv, PendingOK
<1>13. CurrentOK'
  <2> SUFFICES ASSUME NEW s \in Requests, HoldsTicket(s)', thread'[s].req.op = "updateTicketStatus"
               PROVE  thread'[s].ticket.ticketStatus = ticketTable'[thread'[s].req.ticketId].ticketStatus
    BY DEF CurrentOK
  <2>1. CASE s = r
    BY <1>3, <1>4, <1>6, <2>1
  <2>2. CASE s # r
    <3>1. thread'[s] = thread[s] /\ HoldsTicket(s) /\ thread[s].req.op = "updateTicketStatus"
      BY <1>7, <2>2 DEF HoldsTicket
    <3>2. thread[s].req.ticketId \in DOMAIN ticketTable /\ thread[s].req.ticketId # u
      BY <1>7, <2>2, <3>1 DEF TypeInv, EntitiesOK, EntityOK
    <3>. QED
      BY <1>6, <3>1, <3>2 DEF ApartInv, CurrentOK
  <2>. QED
    BY <2>1, <2>2
<1>14. CutOK'
  BY <1>4, <1>7 DEF ApartInv, CutOK, CutShort, Succeeded
<1>. QED
  BY <1>8, <1>10, <1>11, <1>12, <1>13, <1>14 DEF ApartInv

LEMMA NextApartInv ==
  TypeInv /\ StatusInv /\ RowInv /\ UpdatesApart /\ NewestInv /\ ApartInv /\ [Next]_vars
    => NewestInv' /\ ApartInv'
<1> SUFFICES ASSUME TypeInv, StatusInv, RowInv, UpdatesApart, NewestInv, ApartInv, [Next]_vars
             PROVE  NewestInv' /\ ApartInv'
  OBVIOUS
<1>1. ASSUME NEW r \in Requests, Step(r) PROVE NewestInv' /\ ApartInv'
  <2>1. OnlyThread(r) /\ KnownKind(r)
    BY <1>1, StepTypeInv, StepKinds
  <2>2. CASE updateTicketStatusSave(r)
    BY <2>1, <2>2, SaveStatusApartInv
  <2>3. CASE updateTicketStatusSaveHistory(r)
    BY <2>1, <2>3, SaveHistoryApartInv
  <2>4. CASE OpenStep(r)
    <3>1. UNCHANGED historyTable
      BY <2>4 DEF OpenStep, createTicketSaveTicket
    <3>. QED
      BY <1>1, <2>1, <2>4, <3>1, OpenApartInv, SameNewest
  <2>5. CASE (QuietStep(r) \/ LoadStep(r)) /\ ~ updateTicketStatusSave(r)
    <3>1. UNCHANGED historyTable
      BY <2>5 DEF QuietStep, LoadStep
    <3>. QED
      BY <1>1, <2>1, <2>5, <3>1, QuietApartInv, SameNewest
  <2>. QED
    BY <2>1, <2>2, <2>3, <2>4, <2>5 DEF KnownKind
<1>2. CASE Crash
  <2>1. UNCHANGED historyTable
    BY <1>2 DEF Crash, dbVars
  <2>. QED
    BY <1>2, <2>1, CrashApartInv, SameNewest
<1>3. CASE UNCHANGED <<dbVars, thread>>
  <2>1. UNCHANGED <<thread, ticketTable, historyTable>>
    BY <1>3 DEF dbVars
  <2>. QED
    BY <2>1, ApartFrame, SameNewest
<1>. QED
  BY <1>1, <1>2, <1>3, NextIs

LEMMA InitApartInv == Init => NewestInv /\ ApartInv
<1> SUFFICES ASSUME Init PROVE NewestInv /\ ApartInv
  OBVIOUS
<1>1. historyTable = <<>> /\ ticketTable = InitialTickets
  BY DEF Init, DbInit
<1>2. \A t, n : historyOf(t) = {} /\ Older(t, n) = {} /\ RowBefore(t, n) = NoId
  BY <1>1 DEF Older, historyOf, RowBefore
<1>3. \A r \in Requests : thread[r].pc = "idle"
  BY DEF Init, RequestsInit, IdleThread
<1>. QED
  BY <1>1, <1>2, <1>3
  DEF NewestInv, HasNewest, ApartInv, ChainOK, WrittenOK, PendingOK, CurrentOK, CutOK, CutShort,
      EndsIn, NewestRow, StatusAfterRow, StartStatus, HoldsTicket

LEMMA ApartCorrect ==
  ApartSpec => [](TypeInv /\ StatusInv /\ RowInv /\ UpdatesApart /\ NewestInv /\ ApartInv)
<1>1. [ApartNext]_vars => [Next]_vars
  BY DEF ApartNext
<1>. QED
  BY <1>1, ApartIsHelpDesk, ApartInvariant, ThreadsCorrect, StatusInvariant, RowInvariant,
     InitApartInv, NextApartInv, PTL DEF ApartSpec

\* An update that was cut short is the only one with its row.
LEMMA CutIsNotAcknowledged ==
  ASSUME RowInv, ApartInv, NEW r \in Requests, CutShort(r) PROVE ~ Acknowledged(thread[r].saved)
<1>1. Asks(r, "updateTicketStatus") /\ thread[r].saved # NoId /\ ~ Succeeded(r)
  BY DEF CutShort, Asks, ApartInv, CutOK
<1>2. ASSUME NEW s \in Requests, Asks(s, "updateTicketStatus"), thread[s].saved = thread[r].saved
      PROVE  s = r
  BY <1>1, <1>2 DEF RowInv, SavedApart, Op
<1>. QED
  BY <1>1, <1>2 DEF Acknowledged

LEMMA EndsAreKnown ==
  ASSUME RowInv, ApartInv, NEW t, NEW i, NEW status, EndsIn(t, i, status)
  PROVE  status \in EndStatuses(t, i)
  BY CutIsNotAcknowledged DEF EndsIn, EndStatuses

\* What an update that was answered with success did to its ticket is there until
\* the next one, and an update that was not has done all of it or none, whatever
\* crashes or fails between the two saves of updateTicketStatus.
THEOREM AcknowledgedStays == ApartSpec => []AcknowledgedUpdatesHold
<1>1. TypeInv /\ RowInv /\ ApartInv => AcknowledgedUpdatesHold
  <2> SUFFICES ASSUME TypeInv, RowInv, ApartInv PROVE AcknowledgedUpdatesHold
    OBVIOUS
  <2>1. ASSUME NEW t \in DOMAIN ticketTable
        PROVE  ticketTable[t].ticketStatus \in EndStatuses(t, NewestRow(t))
    <3>1. CASE EndsIn(t, NewestRow(t), ticketTable[t].ticketStatus)
      BY <3>1, EndsAreKnown
    <3>2. ASSUME NEW r \in Requests, Pending(r, t)
          PROVE  ticketTable[t].ticketStatus \in EndStatuses(t, NewestRow(t))
      <4>1. /\ thread[r].req.op = "updateTicketStatus" /\ Asks(r, "updateTicketStatus")
            /\ thread[r].saved # NoId /\ ~ Succeeded(r)
        BY <3>2 DEF Pending, TypeInv, ThreadsOK, ThreadOK, RowInv, SavedOK, Succeeded, Asks
      <4>2. /\ thread[r].saved = NewestRow(t)
            /\ historyTable[thread[r].saved].statoPrecedente = ticketTable[t].ticketStatus
        BY <3>2, <4>1 DEF Pending, ApartInv, PendingOK, CurrentOK, HoldsTicket
      <4>3. ~ Acknowledged(NewestRow(t))
        BY <4>1, <4>2 DEF Acknowledged, RowInv, SavedApart, Op
      <4>. QED
        BY <4>1, <4>2, <4>3 DEF EndStatuses
    <3>. QED
      BY <3>1, <3>2 DEF ApartInv, WrittenOK
  <2>2. ASSUME NEW i \in DOMAIN historyTable, NEW t, t = historyTable[i].ticket
        PROVE  historyTable[i].statoPrecedente \in EndStatuses(t, RowBefore(t, i))
    BY <2>2, EndsAreKnown DEF ApartInv, ChainOK
  <2>. QED
    BY <2>1, <2>2 DEF AcknowledgedUpdatesHold, NewestRow
<1>. QED
  BY <1>1, ApartCorrect, PTL
-----------------------------------------------------------------------------
(* Status and history change as one, or turn out not to have changed. *)

JournalVars == <<StatusAfterPendingUpdate, HistoryLog, AcknowledgedRows>>

\* The status of a ticket in the journal: what its half done update asks for, or
\* what its row says.
Mapped ==
  /\ DOMAIN StatusAfterPendingUpdate = DOMAIN ticketTable
  /\ StatusAfterPendingUpdate = [t \in DOMAIN ticketTable |-> StatusAfterPendingUpdate[t]]
  /\ \A t \in DOMAIN ticketTable, r \in Requests :
       Pending(r, t) => StatusAfterPendingUpdate[t] = thread[r].req.stato
  /\ \A t \in DOMAIN ticketTable :
       (\A r \in Requests : ~ Pending(r, t)) =>
          StatusAfterPendingUpdate[t] = ticketTable[t].ticketStatus

LEMMA ApartIsMapped == TypeInv /\ UpdatesApart => Mapped
<1> SUFFICES ASSUME TypeInv, UpdatesApart PROVE Mapped
  OBVIOUS
<1>1. /\ DOMAIN StatusAfterPendingUpdate = DOMAIN ticketTable
      /\ StatusAfterPendingUpdate = [t \in DOMAIN ticketTable |-> StatusAfterPendingUpdate[t]]
  BY DEF StatusAfterPendingUpdate
<1>2. ASSUME NEW t \in DOMAIN ticketTable, NEW r \in Requests, Pending(r, t)
      PROVE  StatusAfterPendingUpdate[t] = thread[r].req.stato
  <2> DEFINE pending == {s \in Requests : thread[s].pc = "saveStatus" /\ thread[s].req.ticketId = t}
  <2>1. r \in pending
    BY <1>2 DEF Pending
  <2>2. \A s \in pending : s \in Running("updateTicketStatus") /\ thread[s].req.ticketId = t
    BY DEF TypeInv, ThreadsOK, ThreadOK, Running, InFlight
  <2>3. pending = {r}
    BY <2>1, <2>2 DEF UpdatesApart
  <2>. QED
    BY <2>3 DEF StatusAfterPendingUpdate
<1>3. ASSUME NEW t \in DOMAIN ticketTable, \A r \in Requests : ~ Pending(r, t)
      PROVE  StatusAfterPendingUpdate[t] = ticketTable[t].ticketStatus
  BY <1>3 DEF StatusAfterPendingUpdate, Pending
<1>. QED
  BY <1>1, <1>2, <1>3 DEF Mapped

\* The mapped status stays where tickets stay and half done updates stay half done.
LEMMA SameStatus ==
  ASSUME Mapped, Mapped', (DOMAIN ticketTable)' = DOMAIN ticketTable,
         \A t \in DOMAIN ticketTable, r \in Requests :
           (Pending(r, t)' <=> Pending(r, t)) /\ (Pending(r, t) => thread'[r] = thread[r]),
         \A t \in DOMAIN ticketTable :
           (\A r \in Requests : ~ Pending(r, t)) =>
              ticketTable'[t].ticketStatus = ticketTable[t].ticketStatus
  PROVE  StatusAfterPendingUpdate' = StatusAfterPendingUpdate
<1>1. ASSUME NEW t \in DOMAIN ticketTable
      PROVE  StatusAfterPendingUpdate'[t] = StatusAfterPendingUpdate[t]
  <2>1. ASSUME NEW r \in Requests, Pending(r, t)
        PROVE  StatusAfterPendingUpdate'[t] = StatusAfterPendingUpdate[t]
    BY <2>1 DEF Mapped
  <2>2. ASSUME \A r \in Requests : ~ Pending(r, t)
        PROVE  StatusAfterPendingUpdate'[t] = StatusAfterPendingUpdate[t]
    BY <2>2 DEF Mapped
  <2>. QED
    BY <2>1, <2>2
<1>2. /\ StatusAfterPendingUpdate = [t \in DOMAIN ticketTable |-> StatusAfterPendingUpdate[t]]
      /\ StatusAfterPendingUpdate' = [t \in (DOMAIN ticketTable)' |-> StatusAfterPendingUpdate'[t]]
  BY DEF Mapped
<1>. QED
  BY <1>1, <1>2

\* A half done update is of a ticket, and its row can still turn out void.
LEMMA PendingIs ==
  ASSUME TypeInv, RowInv, ApartInv, NEW r \in Requests, thread[r].pc = "saveStatus"
  PROVE  LET t == thread[r].req.ticketId
             i == thread[r].saved
         IN /\ t \in DOMAIN ticketTable /\ i \in DOMAIN historyTable /\ i \notin AcknowledgedRows
            /\ i = NewestRow(t) /\ historyTable[i].ticket = t
            /\ historyTable[i].statoPrecedente = ticketTable[t].ticketStatus
            /\ thread[r].req.stato \in TicketStatus
<1> DEFINE t == thread[r].req.ticketId
           i == thread[r].saved
<1>1. /\ thread[r].req.op = "updateTicketStatus" /\ thread[r].req.stato \in TicketStatus
      /\ t \in DOMAIN ticketTable
  BY DEF TypeInv, ThreadsOK, ThreadOK, EntitiesOK, EntityOK, HoldsTicket
<1>2. i # NoId /\ i \in DOMAIN historyTable /\ historyTable[i].ticket = t /\ ~ Succeeded(r)
  BY <1>1 DEF RowInv, SavedOK, Succeeded
<1>3. i = NewestRow(t) /\ historyTable[i].statoPrecedente = ticketTable[t].ticketStatus
  BY <1>1 DEF ApartInv, PendingOK, CurrentOK, HoldsTicket
<1>4. i \notin AcknowledgedRows
  <2> SUFFICES ASSUME NEW s \in Requests, Asks(s, "updateTicketStatus"), thread[s].saved = i,
                      Succeeded(s)
               PROVE  FALSE
    BY DEF AcknowledgedRows, Acknowledged
  <2>1. Asks(r, "updateTicketStatus") /\ s # r
    BY <1>1, <1>2 DEF Asks
  <2>. QED
    BY <1>2, <2>1 DEF RowInv, SavedApart, Op
<1>. QED
  BY <1>1, <1>2, <1>3, <1>4

\* The newest row of a ticket is the newest entry of the journal about it.
LEMMA NewestIsLast ==
  ASSUME TypeInv, NewestInv, NEW i \in DOMAIN historyTable, i = NewestRow(historyTable[i].ticket)
  PROVE  Journal!Newest(i)
<1> DEFINE S == Older(historyTable[i].ticket, Rows + 1)
<1>1. Rows \in Nat /\ DOMAIN historyTable = 1 .. Rows
  BY DEF TypeInv, TypeOK, DbTypeOK, Rows
<1>2. HasNewest(S)
  BY <1>1 DEF NewestInv
<1>3. i = Newest(S)
  BY <1>1, RowBeforeIsNewest DEF NewestRow
<1>4. i \in S
  BY <1>1 DEF Older, historyOf
<1>5. \A k \in S : k <= i
  BY <1>2, <1>3, <1>4 DEF HasNewest, Newest
<1>6. \A k \in DOMAIN historyTable : historyTable[k].ticket = historyTable[i].ticket => k <= i
  BY <1>1, <1>5 DEF Older, historyOf
<1>. QED
  BY <1>6 DEF Journal!Newest, HistoryLog

\* Steps, and crashes of any number of requests, that write neither tickets nor
\* history nor confirm a row: what they cut short turns out void.
LEMMA CutsAreVoid ==
  ASSUME TypeInv, RowInv, UpdatesApart, NewestInv, ApartInv, Mapped, Mapped',
         UNCHANGED <<ticketTable, historyTable, AcknowledgedRows>>,
         \A r \in Requests : thread'[r] = thread[r] \/ Cuts(r) \/ Moves(r)
  PROVE  \E V \in SUBSET DOMAIN HistoryLog : Journal!Void(V)
<1> DEFINE V == {thread[r].saved : r \in {s \in Requests : Cuts(s)}}
           Voided(t) == \E i \in V : HistoryLog[i].ticket = t
<1>1. ASSUME NEW r \in Requests, Cuts(r)
      PROVE  /\ thread[r].pc = "saveStatus" /\ thread'[r].pc = "done"
             /\ thread[r].req.ticketId \in DOMAIN ticketTable
             /\ thread[r].saved \in DOMAIN historyTable \ AcknowledgedRows
             /\ thread[r].saved = NewestRow(thread[r].req.ticketId)
             /\ historyTable[thread[r].saved].ticket = thread[r].req.ticketId
             /\ historyTable[thread[r].saved].statoPrecedente
                  = ticketTable[thread[r].req.ticketId].ticketStatus
  BY <1>1, PendingIs DEF Cuts
<1>2. V \in SUBSET DOMAIN HistoryLog
  BY <1>1 DEF HistoryLog
<1>3. \A i \in V : Journal!Newest(i) /\ i \notin AcknowledgedRows
  BY <1>1, NewestIsLast
<1>4. HistoryLog' = HistoryLog
  BY DEF HistoryLog
<1>5. ASSUME NEW t \in DOMAIN ticketTable, NEW r \in Requests, Cuts(r), Pending(r, t)
      PROVE  /\ Voided(t)
             /\ HistoryLog[CHOOSE i \in V : HistoryLog[i].ticket = t].from
                  = StatusAfterPendingUpdate'[t]
  <2>1. thread[r].saved \in V /\ HistoryLog[thread[r].saved].ticket = t
    BY <1>1, <1>5 DEF HistoryLog, Pending
  <2>2. PICK i \in V : i = (CHOOSE j \in V : HistoryLog[j].ticket = t) /\ HistoryLog[i].ticket = t
    BY <2>1
  <2>3. PICK s \in Requests : Cuts(s) /\ i = thread[s].saved
    BY <2>2
  <2>4. HistoryLog[i].from = ticketTable[t].ticketStatus
    <3>1. /\ i \in DOMAIN historyTable /\ historyTable[i].ticket = thread[s].req.ticketId
          /\ historyTable[i].statoPrecedente = ticketTable[thread[s].req.ticketId].ticketStatus
      BY <1>1, <2>3
    <3>2. HistoryLog[i].ticket = historyTable[i].ticket
          /\ HistoryLog[i].from = historyTable[i].statoPrecedente
      BY <3>1 DEF HistoryLog
    <3>. QED
      BY <2>2, <3>1, <3>2
  <2>5. \A q \in Requests : ~ Pending(q, t)'
    <3> SUFFICES ASSUME NEW q \in Requests, Pending(q, t)' PROVE FALSE
      OBVIOUS
    <3>1. Pending(q, t) /\ thread'[q] = thread[q]
      BY DEF Pending, Cuts, Moves
    <3>2. q \in Running("updateTicketStatus") /\ r \in Running("updateTicketStatus")
      BY <1>5, <3>1 DEF Pending, TypeInv, ThreadsOK, ThreadOK, Running, InFlight
    <3>3. q = r
      BY <1>5, <3>1, <3>2 DEF Pending, UpdatesApart
    <3>. QED
      BY <1>1, <1>5, <3>1, <3>3
  <2>6. StatusAfterPendingUpdate'[t] = ticketTable[t].ticketStatus
    BY <2>5 DEF Mapped
  <2>. QED
    BY <2>1, <2>2, <2>4, <2>6
<1>6. ASSUME NEW t \in DOMAIN ticketTable, \A r \in Requests : ~ (Cuts(r) /\ Pending(r, t))
      PROVE  ~ Voided(t) /\ StatusAfterPendingUpdate'[t] = StatusAfterPendingUpdate[t]
  <2>1. ~ Voided(t)
    BY <1>1, <1>6 DEF HistoryLog, Pending
  <2>2. \A q \in Requests : Pending(q, t) => thread'[q] = thread[q]
    BY <1>6 DEF Pending, Moves
  <2>3. \A q \in Requests : Pending(q, t)' => thread'[q] = thread[q]
    BY DEF Pending, Cuts, Moves
  <2>4. ASSUME NEW q \in Requests, Pending(q, t)
        PROVE  StatusAfterPendingUpdate'[t] = StatusAfterPendingUpdate[t]
    <3>1. Pending(q, t)' /\ thread'[q] = thread[q] /\ t \in (DOMAIN ticketTable)'
      BY <2>2, <2>4 DEF Pending
    <3>2. StatusAfterPendingUpdate'[t] = thread'[q].req.stato
      BY <3>1 DEF Mapped
    <3>3. StatusAfterPendingUpdate[t] = thread[q].req.stato
      BY <2>4 DEF Mapped
    <3>. QED
      BY <3>1, <3>2, <3>3
  <2>5. ASSUME \A q \in Requests : ~ Pending(q, t)
        PROVE  StatusAfterPendingUpdate'[t] = StatusAfterPendingUpdate[t]
    <3>1. (\A q \in Requests : ~ Pending(q, t)') /\ t \in (DOMAIN ticketTable)'
      BY <2>3, <2>5 DEF Pending
    <3>2. StatusAfterPendingUpdate'[t] = ticketTable'[t].ticketStatus
      BY <3>1 DEF Mapped
    <3>3. StatusAfterPendingUpdate[t] = ticketTable[t].ticketStatus
      BY <2>5 DEF Mapped
    <3>. QED
      BY <3>2, <3>3
  <2>. QED
    BY <2>1, <2>4, <2>5
<1>7. StatusAfterPendingUpdate' =
        [t \in DOMAIN StatusAfterPendingUpdate |->
           IF Voided(t) THEN HistoryLog[CHOOSE i \in V : HistoryLog[i].ticket = t].from
                        ELSE StatusAfterPendingUpdate[t]]
  <2>1. \A t \in DOMAIN ticketTable :
          StatusAfterPendingUpdate'[t] =
            IF Voided(t) THEN HistoryLog[CHOOSE i \in V : HistoryLog[i].ticket = t].from
                         ELSE StatusAfterPendingUpdate[t]
    <3> HIDE DEF Voided, V
    <3>. QED
      BY <1>5, <1>6
  <2>2. /\ (DOMAIN ticketTable)' = DOMAIN ticketTable
        /\ DOMAIN StatusAfterPendingUpdate = DOMAIN ticketTable
        /\ StatusAfterPendingUpdate' = [t \in (DOMAIN ticketTable)' |-> StatusAfterPendingUpdate'[t]]
    BY DEF Mapped
  <2> HIDE DEF Voided, V
  <2>. QED
    BY <2>1, <2>2
<1>. QED
  BY <1>2, <1>3, <1>4, <1>7 DEF Journal!Void
\* Rows are confirmed by an answer, one at a time.
LEMMA AcknowledgedSteps ==
  ASSUME TypeInv, RowInv, TypeInv', RowInv', NEW r \in Requests, Step(r), OnlyThread(r)
  PROVE  \/ AcknowledgedRows' = AcknowledgedRows
         \/ /\ NothingToNotify(r) \/ inviaNotificaReturns(r)
            /\ thread[r].req.op = "updateTicketStatus"
            /\ AcknowledgedRows' = AcknowledgedRows \cup {thread[r].saved}
<1>1. ~ Succeeded(r)
  BY StepRuns DEF RowInv, SavedOK, Succeeded
<1>2. RowStep(r) /\ RowsStay
  BY StepRows DEF RowInv, RowStep
<1>3. DOMAIN historyTable \subseteq (DOMAIN historyTable)'
  BY <1>2 DEF RowsStay
<1>4. AcknowledgedRows =
        {i \in Nat : \E s \in Requests \ {r} :
                      Asks(s, "updateTicketStatus") /\ thread[s].saved = i /\ Succeeded(s)}
  <2>1. ASSUME NEW s \in Requests, Asks(s, "updateTicketStatus"), Succeeded(s)
        PROVE  thread[s].saved \in DOMAIN historyTable
    BY <2>1, SavedIsKey DEF Asks, RowInv, SavedOK
  <2>2. DOMAIN historyTable \subseteq Nat
    BY DEF TypeInv, TypeOK, DbTypeOK
  <2>. QED
    BY <1>1, <2>1, <2>2 DEF AcknowledgedRows, Acknowledged
<1>5. AcknowledgedRows' =
        {i \in Nat : \E s \in Requests :
                      Asks(s, "updateTicketStatus")' /\ thread'[s].saved = i /\ Succeeded(s)'}
  <2>1. ASSUME NEW s \in Requests, Asks(s, "updateTicketStatus")', Succeeded(s)'
        PROVE  thread'[s].saved \in (DOMAIN historyTable)'
    BY <2>1 DEF Asks, RowInv, SavedOK
  <2>2. (DOMAIN historyTable)' \subseteq Nat
    BY DEF TypeInv, TypeOK, DbTypeOK
  <2>. QED
    BY <2>1, <2>2 DEF AcknowledgedRows, Acknowledged
<1>6. \A s \in Requests \ {r} : thread'[s] = thread[s]
  BY DEF OnlyThread
<1>7. CASE Succeeded(r)' /\ Asks(r, "updateTicketStatus")'
  <2>1. thread[r].pc # "idle"
    <3>1. Accept(r) => thread'[r].pc = "start"
      BY DEF Accept, TypeInv, TypeOK, Thread
    <3>2. thread'[r].pc # "start"
      BY <1>7 DEF RowInv, SavedOK, Succeeded
    <3>. QED
      BY <3>1, <3>2, PointSteps
  <2>2. thread'[r].req = thread[r].req
    BY <1>2, <2>1 DEF RowStep, KeepsSaved, Inserts
  <2>3. thread[r].req.op = "updateTicketStatus"
    BY <1>7, <2>2 DEF Asks
  <2>4. ~ createTicketSaveTicket(r)
    BY <2>3 DEF createTicketSaveTicket, TypeInv, ThreadsOK, ThreadOK
  <2>5. NothingToNotify(r) \/ inviaNotificaReturns(r)
    BY <1>1, <1>7, <2>4, SuccessSteps
  <2>6. thread[r].pc \in {"notify", "posted"}
    BY <2>5 DEF NothingToNotify, inviaNotificaReturns
  <2>7. thread'[r].saved = thread[r].saved
    <3>1. thread'[r].pc = "done"
      BY <2>5, NextPC DEF NothingToNotify, inviaNotificaReturns
    <3>. QED
      BY <2>6, <3>1, StepKeeps
  <2>8. thread[r].saved \in Nat
    BY DEF TypeInv, TypeOK, Thread
  <2>9. AcknowledgedRows' = AcknowledgedRows \cup {thread[r].saved}
    BY <1>4, <1>5, <1>6, <1>7, <2>7, <2>8 DEF Asks, Succeeded
  <2>. QED
    BY <2>3, <2>5, <2>9
<1>8. CASE ~ (Succeeded(r)' /\ Asks(r, "updateTicketStatus")')
  <2>1. AcknowledgedRows' = AcknowledgedRows
    BY <1>4, <1>5, <1>6, <1>8 DEF Asks, Succeeded
  <2>. QED
    BY <2>1
<1>. QED
  BY <1>7, <1>8

\* What a successful answer confirms is the newest of its ticket and still holds.
LEMMA AnswerIsConfirm ==
  ASSUME TypeInv, RowInv, UpdatesApart, NewestInv, ApartInv, Mapped, Mapped',
         NEW r \in Requests, OnlyThread(r), NothingToNotify(r) \/ inviaNotificaReturns(r),
         thread[r].req.op = "updateTicketStatus",
         AcknowledgedRows' = AcknowledgedRows \cup {thread[r].saved}
  PROVE  \E i \in DOMAIN HistoryLog : Journal!Confirm(i)
<1> DEFINE t == thread[r].req.ticketId
           i == thread[r].saved
<1>1. thread[r].pc \in {"notify", "posted"} /\ UNCHANGED <<ticketTable, historyTable>>
  BY DEF NothingToNotify, inviaNotificaReturns, dbVars
<1>2. /\ t \in DOMAIN ticketTable /\ HoldsTicket(r)
      /\ thread[r].ticket.ticketStatus = thread[r].req.stato
  BY <1>1 DEF TypeInv, EntitiesOK, EntityOK, HoldsTicket, RowInv, SavedOK
<1>3. /\ i \in DOMAIN historyTable /\ historyTable[i].ticket = t
      /\ historyTable[i].statoSuccessivo = thread[r].req.stato
  BY <1>1 DEF RowInv, SavedOK
<1>4. Journal!Newest(i)
  BY <1>1, <1>3, NewestIsLast DEF ApartInv, PendingOK
<1>5. \A s \in Requests : ~ Pending(s, t)
  BY <1>1, OthersHoldOthers DEF Pending
<1>6. StatusAfterPendingUpdate[t] = thread[r].req.stato
  <2>1. ticketTable[t].ticketStatus = thread[r].req.stato
    BY <1>2 DEF ApartInv, CurrentOK
  <2>. QED
    BY <1>2, <1>5, <2>1 DEF Mapped
<1>7. HistoryLog[i].ticket = t /\ HistoryLog[i].to = thread[r].req.stato /\ i \in DOMAIN HistoryLog
  BY <1>3 DEF HistoryLog
<1>8. HistoryLog' = HistoryLog
  BY <1>1 DEF HistoryLog
<1>9. StatusAfterPendingUpdate' = StatusAfterPendingUpdate
  <2>1. thread'[r].pc = "done"
    BY NextPC DEF NothingToNotify, inviaNotificaReturns
  <2>2. \A u \in DOMAIN ticketTable, s \in Requests :
          /\ Pending(s, u)' <=> Pending(s, u)
          /\ Pending(s, u) => thread'[s] = thread[s]
    BY <1>1, <2>1 DEF Pending, OnlyThread
  <2>. QED
    BY <1>1, <2>2, SameStatus
<1>. QED
  BY <1>4, <1>6, <1>7, <1>8, <1>9 DEF Journal!Confirm
\* The mapped status is a sequence of statuses.
LEMMA MappedIsSeq ==
  ASSUME TypeInv, Mapped
  PROVE  /\ StatusAfterPendingUpdate \in Seq(TicketStatus)
         /\ Len(StatusAfterPendingUpdate) = Len(ticketTable)
<1>1. Len(ticketTable) \in Nat /\ DOMAIN ticketTable = 1 .. Len(ticketTable)
  BY DEF TypeInv, TypeOK, DbTypeOK
<1>2. ASSUME NEW t \in DOMAIN ticketTable PROVE StatusAfterPendingUpdate[t] \in TicketStatus
  <2>1. ticketTable[t].ticketStatus \in TicketStatus
    <3>1. ticketTable[t] \in TicketRow
      BY Elements DEF TypeInv, TypeOK, DbTypeOK
    <3>. QED
      BY <3>1 DEF TicketRow
  <2>2. ASSUME NEW r \in Requests, Pending(r, t) PROVE thread[r].req.stato \in TicketStatus
    BY <2>2 DEF Pending, TypeInv, ThreadsOK, ThreadOK
  <2>. QED
    BY <2>1, <2>2 DEF Mapped
<1>3. StatusAfterPendingUpdate \in [1 .. Len(ticketTable) -> TicketStatus]
  BY <1>1, <1>2 DEF Mapped
<1>. QED
  BY <1>1, <1>3, IsSeq

LEMMA OpenIsJournalOpen ==
  ASSUME TypeInv, TypeInv', Mapped, Mapped', NEW r \in Requests, OpenStep(r), OnlyThread(r),
         AcknowledgedRows' = AcknowledgedRows
  PROVE  Journal!Open
<1> DEFINE row == [ticketStatus |-> "PRESO_IN_CARICO",
                   creatoDa |-> thread[r].creatoDa, assegnatoA |-> NoId]
           n == Len(ticketTable) + 1
<1>1. /\ ticketTable' = Append(ticketTable, row) /\ UNCHANGED historyTable
      /\ thread[r].pc = "saveTicket"
  BY DEF OpenStep, createTicketSaveTicket, insertTicket
<1>2. ticketTable \in Seq(TicketRow) /\ row \in TicketRow
  BY DEF TypeInv, TypeOK, DbTypeOK, Thread, TicketRow, TicketStatus, NoId
<1>3. /\ DOMAIN ticketTable = 1 .. Len(ticketTable) /\ Len(ticketTable) \in Nat
      /\ (DOMAIN ticketTable)' = 1 .. n
      /\ \A t \in DOMAIN ticketTable : ticketTable'[t] = ticketTable[t]
      /\ ticketTable'[n] = row
  BY <1>1, <1>2, AppendRow
<1>4. \A s \in Requests : \A t : (Pending(s, t)' <=> Pending(s, t)) /\ (Pending(s, t) => thread'[s] = thread[s])
  <2>1. thread'[r].pc = "done"
    <3>1. thread[r] \in Thread /\ thread \in [Requests -> Thread]
      BY DEF TypeInv, TypeOK
    <3>2. thread'[r] = [thread[r] EXCEPT !.pc = "done", !.answer = "200", !.saved = n]
            \/ Reply(r, "500")
      BY <3>1 DEF OpenStep, createTicketSaveTicket
    <3>. QED
      BY <3>1, <3>2, NextPC DEF Thread
  <2>. QED
    BY <1>1, <2>1 DEF Pending, OnlyThread
<1>5. \A t \in DOMAIN ticketTable : StatusAfterPendingUpdate'[t] = StatusAfterPendingUpdate[t]
  <2> SUFFICES ASSUME NEW t \in DOMAIN ticketTable
               PROVE  StatusAfterPendingUpdate'[t] = StatusAfterPendingUpdate[t]
    OBVIOUS
  <2>1. t \in (DOMAIN ticketTable)' /\ ticketTable'[t] = ticketTable[t]
    BY <1>3
  <2>2. ASSUME NEW s \in Requests, Pending(s, t)
        PROVE  StatusAfterPendingUpdate'[t] = StatusAfterPendingUpdate[t]
    BY <1>4, <2>1, <2>2 DEF Mapped
  <2>3. ASSUME \A s \in Requests : ~ Pending(s, t)
        PROVE  StatusAfterPendingUpdate'[t] = StatusAfterPendingUpdate[t]
    BY <1>4, <2>1, <2>3 DEF Mapped
  <2>. QED
    BY <2>2, <2>3
<1>6. StatusAfterPendingUpdate'[n] = "PRESO_IN_CARICO"
  <2>1. \A s \in Requests : ~ Pending(s, n)
    <3> SUFFICES ASSUME NEW s \in Requests, Pending(s, n) PROVE FALSE
      OBVIOUS
    <3>1. n \in DOMAIN ticketTable
      BY DEF Pending, TypeInv, EntitiesOK, EntityOK, HoldsTicket
    <3>. QED
      BY <1>3, <3>1
  <2>2. n \in (DOMAIN ticketTable)'
    BY <1>3
  <2>3. StatusAfterPendingUpdate'[n] = ticketTable'[n].ticketStatus
    BY <1>4, <2>1, <2>2 DEF Mapped
  <2>. QED
    BY <1>3, <2>3
<1>7. StatusAfterPendingUpdate' =
        [t \in 1 .. n |-> IF t = n THEN "PRESO_IN_CARICO" ELSE StatusAfterPendingUpdate[t]]
  <2>1. StatusAfterPendingUpdate' = [t \in 1 .. n |-> StatusAfterPendingUpdate'[t]]
    BY <1>3 DEF Mapped
  <2>. QED
    BY <1>3, <1>5, <1>6, <2>1
<1>8. StatusAfterPendingUpdate' = Append(StatusAfterPendingUpdate, "PRESO_IN_CARICO")
  <2>1. "PRESO_IN_CARICO" \in TicketStatus
    BY DEF TicketStatus
  <2>. QED
    BY <1>7, <2>1, MappedIsSeq, IsAppend
<1>. QED
  BY <1>1, <1>8 DEF Journal!Open, HistoryLog

\* The row of an update starts from the status the ticket has in the journal.
LEMMA SaveHistoryIsChange ==
  ASSUME TypeInv, UpdatesApart, ApartInv, Mapped, Mapped', NEW r \in Requests, OnlyThread(r),
         updateTicketStatusSaveHistory(r), AcknowledgedRows' = AcknowledgedRows
  PROVE  \E t \in DOMAIN StatusAfterPendingUpdate, to \in TicketStatus : Journal!Change(t, to)
<1> DEFINE row == [ticket |-> thread[r].req.ticketId,
                   statoPrecedente |-> thread[r].ticket.ticketStatus,
                   statoSuccessivo |-> thread[r].req.stato,
                   modificatoDa |-> thread[r].req.caller]
<1>1. /\ thread[r].pc = "saveHistory" /\ thread'[r].pc = "saveStatus"
      /\ thread'[r].req = thread[r].req
      /\ historyTable' = Append(historyTable, row)
      /\ UNCHANGED ticketTable
  BY DEF updateTicketStatusSaveHistory, insertHistory, TypeInv, TypeOK, Thread
<1>2. /\ thread[r].req.ticketId \in DOMAIN ticketTable
      /\ thread[r].ticket \in TicketRow
      /\ thread[r].req.stato \in TicketStatus /\ thread[r].req.caller \in ExternalId
      /\ thread[r].req.op = "updateTicketStatus"
  BY <1>1 DEF TypeInv, ThreadsOK, ThreadOK, EntitiesOK, EntityOK, HoldsTicket
<1>3. PICK u \in DOMAIN ticketTable, from \in TicketStatus, to \in TicketStatus :
        /\ u = thread[r].req.ticketId /\ from = thread[r].ticket.ticketStatus
        /\ to = thread[r].req.stato
  BY <1>2 DEF TicketRow
<1>4. u \in Nat
  BY <1>2, Keys DEF TypeInv, TypeOK, DbTypeOK
<1>5. row \in HistoryRow /\ row.ticket = u /\ row.statoPrecedente = from /\ row.statoSuccessivo = to
  BY <1>2, <1>3, <1>4 DEF HistoryRow
<1>6. InsertsRow(row)
  <2>1. historyTable \in Seq(HistoryRow)
    BY DEF TypeInv, TypeOK, DbTypeOK
  <2> HIDE DEF row
  <2>. QED
    BY <1>1, <1>5, <2>1, AppendRow DEF InsertsRow, Rows
<1> HIDE DEF row
<1>7. \A s \in Requests : ~ Pending(s, u)
  BY <1>1, <1>2, <1>3, OthersHoldOthers DEF Pending
<1>8. StatusAfterPendingUpdate[u] = from
  <2>1. from = ticketTable[u].ticketStatus
    BY <1>1, <1>2, <1>3 DEF ApartInv, CurrentOK, HoldsTicket
  <2>. QED
    BY <1>7, <2>1 DEF Mapped
<1>9. StatusAfterPendingUpdate' = [StatusAfterPendingUpdate EXCEPT ![u] = to]
  <2>1. StatusAfterPendingUpdate'[u] = to
    BY <1>1, <1>3 DEF Mapped, Pending
  <2>2. ASSUME NEW t \in DOMAIN ticketTable, t # u
        PROVE  StatusAfterPendingUpdate'[t] = StatusAfterPendingUpdate[t]
    <3>1. \A s \in Requests :
            (Pending(s, t)' <=> Pending(s, t)) /\ (Pending(s, t) => thread'[s] = thread[s])
      BY <1>1, <1>3, <2>2 DEF Pending, OnlyThread
    <3>2. t \in (DOMAIN ticketTable)' /\ ticketTable'[t] = ticketTable[t]
      BY <1>1
    <3>3. ASSUME NEW s \in Requests, Pending(s, t)
          PROVE  StatusAfterPendingUpdate'[t] = StatusAfterPendingUpdate[t]
      BY <3>1, <3>2, <3>3 DEF Mapped
    <3>4. ASSUME \A s \in Requests : ~ Pending(s, t)
          PROVE  StatusAfterPendingUpdate'[t] = StatusAfterPendingUpdate[t]
      BY <3>1, <3>2, <3>4 DEF Mapped
    <3>. QED
      BY <3>3, <3>4
  <2>3. /\ StatusAfterPendingUpdate' = [t \in (DOMAIN ticketTable)' |-> StatusAfterPendingUpdate'[t]]
        /\ StatusAfterPendingUpdate = [t \in DOMAIN ticketTable |-> StatusAfterPendingUpdate[t]]
        /\ (DOMAIN ticketTable)' = DOMAIN ticketTable
    BY <1>1 DEF Mapped
  <2>. QED
    BY <2>1, <2>2, <2>3
<1>10. HistoryLog' = Append(HistoryLog, [ticket |-> u, from |-> from, to |-> to])
  <2> DEFINE entry == [ticket |-> u, from |-> from, to |-> to]
  <2>1. HistoryLog' = [i \in 1 .. Rows + 1 |-> IF i = Rows + 1 THEN entry ELSE HistoryLog[i]]
    BY <1>5, <1>6 DEF InsertsRow, HistoryLog
  <2>2. HistoryLog \in Seq(Entry) /\ Len(HistoryLog) = Rows
    BY Columns
  <2>3. entry \in Entry
    BY <1>4 DEF Entry
  <2> HIDE DEF entry
  <2>4. HistoryLog' = Append(HistoryLog, entry)
    BY <2>1, <2>2, <2>3, IsAppend
  <2>. QED
    BY <2>4 DEF entry
<1>11. u \in DOMAIN StatusAfterPendingUpdate
  BY DEF Mapped
<1>. QED
  BY <1>8, <1>9, <1>10, <1>11 DEF Journal!Change

\* The save of the ticket does not show in the journal.
LEMMA SaveIsSilent ==
  ASSUME TypeInv, UpdatesApart, ApartInv, Mapped, Mapped', NEW r \in Requests, OnlyThread(r),
         updateTicketStatusSave(r), AcknowledgedRows' = AcknowledgedRows
  PROVE  UNCHANGED JournalVars
<1> DEFINE ticket == [thread[r].ticket EXCEPT !.ticketStatus = thread[r].req.stato]
           u == thread[r].req.ticketId
<1>1. /\ thread[r].pc = "saveStatus"
      /\ ticketTable' = IF ticket = thread[r].ticket THEN ticketTable
                                                     ELSE [ticketTable EXCEPT ![u] = ticket]
      /\ UNCHANGED historyTable
      /\ thread' = [thread EXCEPT ![r] = [@ EXCEPT !.pc = "notify", !.ticket = ticket]]
  BY DEF updateTicketStatusSave, updateTicket
<1>2. /\ thread[r].ticket \in TicketRow /\ u \in DOMAIN ticketTable
      /\ ticketTable \in Seq(TicketRow)
      /\ thread[r].req.stato \in TicketStatus /\ thread[r].req.op = "updateTicketStatus"
  BY <1>1 DEF TypeInv, TypeOK, DbTypeOK, ThreadsOK, ThreadOK, EntitiesOK, EntityOK, HoldsTicket
<1>3. ticket \in TicketRow /\ ticket.ticketStatus = thread[r].req.stato
  BY <1>2 DEF TicketRow
<1>4. thread'[r].pc = "notify"
  BY <1>1 DEF TypeInv, TypeOK, Thread
<1>5. thread[r].ticket.ticketStatus = ticketTable[u].ticketStatus
  BY <1>1, <1>2 DEF ApartInv, CurrentOK, HoldsTicket
<1> HIDE DEF ticket
<1>6. /\ (DOMAIN ticketTable)' = DOMAIN ticketTable
      /\ ticketTable'[u].ticketStatus = thread[r].req.stato
      /\ \A t \in DOMAIN ticketTable : t # u => ticketTable'[t] = ticketTable[t]
  <2>1. CASE ticket = thread[r].ticket
    BY <1>1, <1>3, <1>5, <2>1
  <2>2. CASE ticket # thread[r].ticket
    BY <1>1, <1>2, <1>3, <2>2, UpdateRow
  <2>. QED
    BY <2>1, <2>2
<1>7. StatusAfterPendingUpdate'[u] = StatusAfterPendingUpdate[u]
  <2>1. PICK t \in DOMAIN ticketTable : t = u
    BY <1>2
  <2>2. StatusAfterPendingUpdate[t] = thread[r].req.stato
    BY <1>1, <2>1 DEF Mapped, Pending
  <2>3. \A s \in Requests : ~ Pending(s, t)'
    BY <1>1, <1>2, <1>4, <2>1, OthersHoldOthers DEF Pending, OnlyThread
  <2>4. StatusAfterPendingUpdate'[t] = ticketTable'[t].ticketStatus
    BY <1>6, <2>3 DEF Mapped
  <2>. QED
    BY <1>6, <2>1, <2>2, <2>4
<1>8. ASSUME NEW t \in DOMAIN ticketTable, t # u
      PROVE  StatusAfterPendingUpdate'[t] = StatusAfterPendingUpdate[t]
  <2>1. \A s \in Requests :
          (Pending(s, t)' <=> Pending(s, t)) /\ (Pending(s, t) => thread'[s] = thread[s])
    BY <1>1, <1>4, <1>8 DEF Pending, OnlyThread
  <2>2. t \in (DOMAIN ticketTable)' /\ ticketTable'[t] = ticketTable[t]
    BY <1>6, <1>8
  <2>3. ASSUME NEW s \in Requests, Pending(s, t)
        PROVE  StatusAfterPendingUpdate'[t] = StatusAfterPendingUpdate[t]
    BY <2>1, <2>2, <2>3 DEF Mapped
  <2>4. ASSUME \A s \in Requests : ~ Pending(s, t)
        PROVE  StatusAfterPendingUpdate'[t] = StatusAfterPendingUpdate[t]
    BY <2>1, <2>2, <2>4 DEF Mapped
  <2>. QED
    BY <2>3, <2>4
<1>9. StatusAfterPendingUpdate' = StatusAfterPendingUpdate
  <2>1. /\ StatusAfterPendingUpdate' = [t \in (DOMAIN ticketTable)' |-> StatusAfterPendingUpdate'[t]]
        /\ StatusAfterPendingUpdate = [t \in DOMAIN ticketTable |-> StatusAfterPendingUpdate[t]]
    BY DEF Mapped
  <2>. QED
    BY <1>6, <1>7, <1>8, <2>1
<1>. QED
  BY <1>1, <1>9 DEF JournalVars, HistoryLog

LEMMA NextJournal ==
  ASSUME TypeInv, RowInv, UpdatesApart, NewestInv, ApartInv, Mapped,
         TypeInv', RowInv', Mapped', [Next]_vars
  PROVE  [Journal!Next]_JournalVars
<1>1. ASSUME NEW r \in Requests, Step(r) PROVE [Journal!Next]_JournalVars
  <2>1. KnownKind(r) /\ OnlyThread(r)
    BY <1>1, StepKinds, StepTypeInv
  <2>2. CASE AcknowledgedRows' = AcknowledgedRows
    <3>1. CASE (QuietStep(r) \/ LoadStep(r)) /\ ~ updateTicketStatusSave(r)
      <4>1. UNCHANGED <<ticketTable, historyTable>>
        BY <3>1 DEF QuietStep, LoadStep
      <4>2. \E V \in SUBSET DOMAIN HistoryLog : Journal!Void(V)
        <5>1. \A s \in Requests : thread'[s] = thread[s] \/ Cuts(s) \/ Moves(s)
          BY <1>1, <2>1, <3>1, QuietIsCutOrMove DEF OnlyThread
        <5>. QED
          BY <2>2, <4>1, <5>1, CutsAreVoid
      <4>. QED
        BY <4>2 DEF Journal!Next
    <3>2. CASE OpenStep(r)
      BY <2>1, <2>2, <3>2, OpenIsJournalOpen DEF Journal!Next
    <3>3. CASE updateTicketStatusSaveHistory(r)
      BY <2>1, <2>2, <3>3, SaveHistoryIsChange DEF Journal!Next
    <3>4. CASE updateTicketStatusSave(r)
      BY <2>1, <2>2, <3>4, SaveIsSilent
    <3>. QED
      BY <2>1, <3>1, <3>2, <3>3, <3>4 DEF KnownKind
  <2>3. CASE AcknowledgedRows' # AcknowledgedRows
    <3>1. \E i \in DOMAIN HistoryLog : Journal!Confirm(i)
      BY <1>1, <2>1, <2>3, AcknowledgedSteps, AnswerIsConfirm
    <3>. QED
      BY <3>1 DEF Journal!Next
  <2>. QED
    BY <2>2, <2>3
<1>2. CASE Crash
  <2>1. UNCHANGED <<ticketTable, historyTable>>
    BY <1>2 DEF Crash, dbVars
  <2>2. AcknowledgedRows' = AcknowledgedRows
    <3>1. ASSUME NEW s \in Requests
          PROVE  /\ Asks(s, "updateTicketStatus")' /\ Succeeded(s)' <=>
                      Asks(s, "updateTicketStatus") /\ Succeeded(s)
                 /\ thread'[s].saved = thread[s].saved
      BY <1>2, CrashKeeps DEF Asks, Succeeded, RowInv, SavedOK
    <3>. QED
      BY <2>1, <3>1 DEF AcknowledgedRows, Acknowledged
  <2>3. \A s \in Requests : thread'[s] = thread[s] \/ Cuts(s) \/ Moves(s)
    BY <1>2, CrashCuts
  <2>4. \E V \in SUBSET DOMAIN HistoryLog : Journal!Void(V)
    BY <2>1, <2>2, <2>3, CutsAreVoid
  <2>. QED
    BY <2>4 DEF Journal!Next
<1>3. CASE UNCHANGED <<dbVars, thread>>
  BY <1>3 DEF dbVars, JournalVars, StatusAfterPendingUpdate, HistoryLog, AcknowledgedRows,
     Acknowledged, Asks, Succeeded
<1>. QED
  BY <1>1, <1>2, <1>3, NextIs

\* Whatever crashes and fails, an update changes the status of a ticket and its
\* history as one, and what it changed stays once it was confirmed, or turns out not
\* to have changed before the next one begins (the two saves of updateTicketStatus),
\* when the updates of a ticket do not overlap.  What other requests do in between, on
\* this ticket too, never shows.
THEOREM ApartIsStatusJournal == ApartSpec => ImplementsStatusJournal
<1>1. Init => Journal!Init
  <2> SUFFICES ASSUME Init PROVE Journal!Init
    OBVIOUS
  <2>1. /\ historyTable = <<>> /\ ticketTable = InitialTickets
        /\ \A r \in Requests : thread[r].pc = "idle"
    BY DEF Init, DbInit, RequestsInit, IdleThread
  <2>2. StatusAfterPendingUpdate = FirstStatuses
    BY <2>1 DEF StatusAfterPendingUpdate, FirstStatuses
  <2>3. HistoryLog = <<>> /\ AcknowledgedRows = {}
    BY <2>1 DEF HistoryLog, AcknowledgedRows
  <2>. QED
    BY <2>2, <2>3 DEF Journal!Init
<1>2. TypeInv /\ RowInv /\ UpdatesApart /\ NewestInv /\ ApartInv /\ Mapped
        /\ TypeInv' /\ RowInv' /\ Mapped' /\ [Next]_vars => [Journal!Next]_JournalVars
  BY NextJournal
<1>3. JournalVars = <<StatusAfterPendingUpdate, HistoryLog, AcknowledgedRows>>
  BY DEF JournalVars
<1>. QED
  BY <1>1, <1>2, <1>3, ApartIsMapped, ApartIsHelpDesk, ApartCorrect, PTL
  DEF Spec, ImplementsStatusJournal, Journal!Spec, JournalVars
=============================================================================
