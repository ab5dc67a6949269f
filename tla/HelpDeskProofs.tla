----------------------------- MODULE HelpDeskProofs -----------------------------
(***************************************************************************)
(* Proofs, for every set of requests, people, inputs, rows at the start,    *)
(* number of threads and set of faults, of the safety properties of         *)
(* HelpDesk that runs check on small instances.                             *)
(***************************************************************************)
EXTENDS HelpDeskInvariants, TLAPS

USE DEF mailVars

-----------------------------------------------------------------------------
(* Tables. *)

\* save of a new row keeps the rows of the table and their keys, and gives the
\* new row the next key.
LEMMA AppendRow ==
  ASSUME NEW S, NEW s \in Seq(S), NEW e \in S
  PROVE  /\ Append(s, e) \in Seq(S)
         /\ Len(s) \in Nat
         /\ Len(Append(s, e)) = Len(s) + 1
         /\ DOMAIN s = 1 .. Len(s)
         /\ DOMAIN Append(s, e) = 1 .. Len(s) + 1
         /\ \A i \in DOMAIN s : i \in DOMAIN Append(s, e) /\ Append(s, e)[i] = s[i]
         /\ Append(s, e)[Len(s) + 1] = e
         /\ \A i \in DOMAIN Append(s, e) : i \in DOMAIN s \/ i = Len(s) + 1
  OBVIOUS

\* Keys are positions.
LEMMA Keys ==
  ASSUME NEW S, NEW s \in Seq(S)
  PROVE  Len(s) + 1 \in Nat /\ DOMAIN s \subseteq Nat
  OBVIOUS

LEMMA Elements ==
  ASSUME NEW S, NEW s \in Seq(S), NEW i \in DOMAIN s
  PROVE  s[i] \in S
  OBVIOUS

\* The flush of a loaded ticket changes no other row and no key.
LEMMA UpdateRow ==
  ASSUME NEW S, NEW s \in Seq(S), NEW i \in DOMAIN s, NEW e \in S
  PROVE  /\ [s EXCEPT ![i] = e] \in Seq(S)
         /\ DOMAIN [s EXCEPT ![i] = e] = DOMAIN s
         /\ \A j \in DOMAIN s : [s EXCEPT ![i] = e][j] = IF j = i THEN e ELSE s[j]
  OBVIOUS

-----------------------------------------------------------------------------
(* What a step of one request leaves alone. *)

\* Rows are never deleted, and creator and assignee of a ticket never change.
TablesGrow ==
  /\ DOMAIN userTable \subseteq (DOMAIN userTable)'
  /\ \A t \in DOMAIN ticketTable :
       /\ t \in (DOMAIN ticketTable)'
       /\ ticketTable'[t].creatoDa = ticketTable[t].creatoDa
       /\ ticketTable'[t].assegnatoA = ticketTable[t].assegnatoA

\* A step of r changes no other thread.
OnlyThread(r) ==
  /\ thread' \in [Requests -> Thread]
  /\ \A s \in Requests \ {r} : thread'[s] = thread[s]

\* What the steps of a handler do to its thread.
LEMMA ThreadGoes ==
  ASSUME NEW th \in Thread, NEW l \in PC
  PROVE  /\ [th EXCEPT !.pc = l] \in Thread
         /\ \A ticket \in TicketRow : [th EXCEPT !.pc = l, !.ticket = ticket] \in Thread
         /\ \A k \in Nat : [th EXCEPT !.pc = l, !.creatoDa = k] \in Thread
         /\ \A k \in Nat : [th EXCEPT !.pc = l, !.saved = k] \in Thread
  BY DEF Thread

LEMMA ThreadReplies ==
  ASSUME NEW th \in Thread, NEW code \in Answer
  PROVE  /\ [th EXCEPT !.pc = "done", !.answer = code] \in Thread
         /\ \A k \in Nat : [th EXCEPT !.pc = "done", !.answer = code, !.saved = k] \in Thread
  BY DEF Thread, PC

LEMMA ThreadTakes ==
  ASSUME NEW th \in Thread, NEW q \in Inputs, NEW A \in SUBSET Requests
  PROVE  [th EXCEPT !.pc = "start", !.req = q, !.earlier = A] \in Thread
  BY DEF Thread, PC

LEMMA ThreadUpdate ==
  ASSUME TypeInv, NEW r \in Requests, NEW th \in Thread, thread' = [thread EXCEPT ![r] = th]
  PROVE  OnlyThread(r) /\ thread'[r] = th
  BY DEF TypeInv, TypeOK, OnlyThread

LEMMA SameTables == ASSUME UNCHANGED dbVars PROVE TablesGrow
  BY DEF dbVars, TablesGrow

\* While tables only grow, what the other threads rely on stays true.
LEMMA Frame ==
  ASSUME TypeInv, NEW r \in Requests, TablesGrow, OnlyThread(r), DbTypeOK',
         underway' \subseteq Requests, delivered' \in Seq(Requests), ThreadOK(r)', EntityOK(r)'
  PROVE  TypeInv' /\ TablesGrow /\ OnlyThread(r)
<1>1. ThreadsOK'
  <2> SUFFICES ASSUME NEW s \in Requests, s # r PROVE ThreadOK(s)'
    BY DEF ThreadsOK
  <2>1. ThreadOK(s) /\ thread'[s] = thread[s]
    BY DEF TypeInv, ThreadsOK, OnlyThread
  <2>. QED
    BY <2>1 DEF ThreadOK, TablesGrow
<1>2. EntitiesOK'
  <2> SUFFICES ASSUME NEW s \in Requests, s # r PROVE EntityOK(s)'
    BY DEF EntitiesOK
  <2>1. EntityOK(s) /\ thread'[s] = thread[s]
    BY DEF TypeInv, EntitiesOK, OnlyThread
  <2>. QED
    BY <2>1 DEF EntityOK, HoldsTicket, TablesGrow
<1>. QED
  BY <1>1, <1>2 DEF TypeInv, TypeOK, OnlyThread

\* The same for a step that writes no table.
LEMMA LocalFrame ==
  ASSUME TypeInv, NEW r \in Requests, UNCHANGED dbVars, OnlyThread(r),
         underway' \subseteq Requests, delivered' \in Seq(Requests), ThreadOK(r)', EntityOK(r)'
  PROVE  TypeInv' /\ TablesGrow /\ OnlyThread(r)
<1>1. DbTypeOK'
  BY DEF TypeInv, TypeOK, DbTypeOK, dbVars
<1>. QED
  BY <1>1, SameTables, Frame

\* The answer of a request ends its handler.
LEMMA ReplyFrame ==
  ASSUME TypeInv, NEW r \in Requests, UNCHANGED dbVars,
         underway' \subseteq Requests, delivered' \in Seq(Requests),
         NEW code \in Answer, thread[r].pc # "idle", Reply(r, code)
  PROVE  TypeInv' /\ TablesGrow /\ OnlyThread(r)
<1>1. OnlyThread(r)
  <2> DEFINE th == [thread[r] EXCEPT !.pc = "done", !.answer = code]
  <2>1. th \in Thread
    BY ThreadReplies DEF TypeInv, TypeOK
  <2>. QED
    BY <2>1, ThreadUpdate DEF Reply
<1>2. ThreadOK(r)' /\ EntityOK(r)'
  BY DEF TypeInv, TypeOK, ThreadsOK, Reply, Thread, ThreadOK, EntityOK, HoldsTicket
<1>. QED
  BY <1>1, <1>2, LocalFrame

\* findById gives the handler an entity that agrees with its row.
LEMMA LoadFrame ==
  ASSUME TypeInv, NEW r \in Requests, UNCHANGED <<dbVars, mailVars>>,
         thread[r].pc = "start", NEW t \in DOMAIN ticketTable, t = thread[r].req.ticketId,
         thread' = [thread EXCEPT ![r] = [@ EXCEPT !.pc = "profile", !.ticket = ticketTable[t]]]
  PROVE  TypeInv' /\ TablesGrow /\ OnlyThread(r)
<1> DEFINE th == [thread[r] EXCEPT !.pc = "profile", !.ticket = ticketTable[t]]
<1>1. ticketTable[t] \in TicketRow
  BY DEF TypeInv, TypeOK, DbTypeOK
<1>2. th \in Thread
  BY <1>1, ThreadGoes DEF TypeInv, TypeOK, PC
<1>3. OnlyThread(r) /\ thread'[r] = th
  BY <1>2, ThreadUpdate
<1>4. ThreadOK(r)' /\ EntityOK(r)'
  BY <1>1, <1>3 DEF TypeInv, TypeOK, ThreadsOK, ThreadOK, EntityOK, dbVars, Thread
<1>. QED
  BY <1>3, <1>4, LocalFrame DEF TypeInv, TypeOK

\* A handler that goes on with the entity it holds.
LEMMA GotoFrame ==
  ASSUME TypeInv, NEW r \in Requests, UNCHANGED <<dbVars, mailVars>>,
         NEW l \in PC, Goto(r, l), ThreadOK(r)', HoldsTicket(r)' => HoldsTicket(r)
  PROVE  TypeInv' /\ TablesGrow /\ OnlyThread(r)
<1> DEFINE th == [thread[r] EXCEPT !.pc = l]
<1>1. th \in Thread
  BY DEF TypeInv, TypeOK, Thread, PC
<1>2. OnlyThread(r) /\ thread'[r] = th
  BY <1>1, ThreadUpdate DEF Goto
<1>3. EntityOK(r)'
  BY <1>2 DEF TypeInv, TypeOK, EntitiesOK, EntityOK, dbVars, Thread
<1>. QED
  BY <1>2, <1>3, LocalFrame DEF TypeInv, TypeOK

-----------------------------------------------------------------------------
(* Type correctness. *)

LEMMA InitTypeInv == Init => TypeInv
  BY InitialRowsAssumption, RequestAssumption
  DEF Init, DbInit, RequestsInit, NotificationsInit, TypeInv, TypeOK, DbTypeOK,
      ThreadsOK, ThreadOK, EntitiesOK, EntityOK, HoldsTicket, IdleThread, Thread,
      PC, Answer, NoId

LEMMA CreateTypeInv ==
  ASSUME TypeInv, NEW r \in Requests, Create(r) PROVE TypeInv' /\ TablesGrow /\ OnlyThread(r)
<1> USE DEF TypeInv, TypeOK
<1>1. CASE createTicket(r)
  <2>1. CASE Reply(r, "401")
    BY <1>1, <2>1, ReplyFrame DEF createTicket, At, Answer
  <2>2. CASE Goto(r, "profile") /\ validateToken(thread[r].req)
    <3>1. OnlyThread(r) /\ ThreadOK(r)' /\ EntityOK(r)'
      BY <1>1, <2>2 DEF createTicket, At, Goto, OnlyThread, Thread, PC, ThreadsOK,
         ThreadOK, EntityOK, HoldsTicket
    <3>. QED
      BY <1>1, <3>1, LocalFrame DEF createTicket
  <2>. QED
    BY <1>1, <2>1, <2>2 DEF createTicket
<1>2. CASE createTicketProfile(r)
  <2>1. ThreadOK(r)' /\ (HoldsTicket(r)' => HoldsTicket(r))
    BY <1>2, RequestAssumption DEF createTicketProfile, getUserProfile, At, Goto,
       Thread, ThreadsOK, ThreadOK, HoldsTicket, Input
  <2>. QED
    BY <1>2, <2>1, GotoFrame DEF createTicketProfile, PC
<1>3. CASE createTicketFindUser(r)
  <2>1. CASE Reply(r, "500")
    BY <1>3, <2>1, ReplyFrame DEF createTicketFindUser, Answer
  <2>2. CASE Goto(r, "saveUser")
    <3>1. OnlyThread(r) /\ ThreadOK(r)' /\ EntityOK(r)'
      BY <1>3, <2>2 DEF createTicketFindUser, Goto, OnlyThread, Thread, PC, ThreadsOK,
         ThreadOK, EntityOK, HoldsTicket
    <3>. QED
      BY <1>3, <3>1, LocalFrame DEF createTicketFindUser
  <2>3. CASE \E u \in findByExternalId(thread[r].req.caller) :
               thread' = [thread EXCEPT ![r] = [@ EXCEPT !.pc = "saveTicket", !.creatoDa = u]]
    <3>1. PICK u \in DOMAIN userTable :
             thread' = [thread EXCEPT ![r] = [@ EXCEPT !.pc = "saveTicket", !.creatoDa = u]]
      BY <2>3 DEF findByExternalId
    <3> DEFINE th == [thread[r] EXCEPT !.pc = "saveTicket", !.creatoDa = u]
    <3>2. th \in Thread
      <4>1. u \in Nat
        BY Keys DEF DbTypeOK
      <4>. QED
        BY <4>1, ThreadGoes DEF PC
    <3>3. OnlyThread(r) /\ thread'[r] = th
      BY <3>1, <3>2, ThreadUpdate
    <3>4. ThreadOK(r)' /\ EntityOK(r)'
      BY <1>3, <3>2, <3>3 DEF createTicketFindUser, ThreadsOK, ThreadOK, EntityOK,
         HoldsTicket, dbVars, Thread
    <3>. QED
      BY <1>3, <3>3, <3>4, LocalFrame DEF createTicketFindUser
  <2>. QED
    BY <1>3, <2>1, <2>2, <2>3 DEF createTicketFindUser
<1>4. CASE createTicketSaveUser(r)
  <2> DEFINE row == [externalId |-> thread[r].req.caller]
  <2>1. row \in UserRow /\ userTable \in Seq(UserRow)
    BY <1>4 DEF createTicketSaveUser, ThreadsOK, ThreadOK, UserRow, DbTypeOK
  <2>2. userTable' = Append(userTable, row)
    BY <1>4 DEF createTicketSaveUser, insertUser
  <2>3. TablesGrow /\ DbTypeOK'
    BY <1>4, <2>1, <2>2, AppendRow DEF createTicketSaveUser, TablesGrow, DbTypeOK
  <2> DEFINE th == [thread[r] EXCEPT !.pc = "saveTicket", !.creatoDa = Len(userTable) + 1]
  <2>4. th \in Thread
    <3>1. Len(userTable) + 1 \in Nat
      BY <2>1, Keys
    <3>. QED
      BY <3>1, ThreadGoes DEF PC
  <2>5. OnlyThread(r) /\ thread'[r] = th
    BY <1>4, <2>4, ThreadUpdate DEF createTicketSaveUser
  <2>6. Len(userTable) + 1 \in (DOMAIN userTable)'
    BY <2>1, <2>2, AppendRow
  <2>7. ThreadOK(r)' /\ EntityOK(r)'
    BY <1>4, <2>4, <2>5, <2>6 DEF createTicketSaveUser, Thread, ThreadsOK, ThreadOK,
       EntityOK, HoldsTicket
  <2>. QED
    BY <1>4, <2>3, <2>5, <2>7, Frame DEF createTicketSaveUser
<1>5. CASE createTicketSaveTicket(r)
  <2>1. CASE Reply(r, "500") /\ UNCHANGED ticketTable
    BY <1>5, <2>1, ReplyFrame DEF createTicketSaveTicket, Answer, dbVars
  <2>2. CASE ~ (Reply(r, "500") /\ UNCHANGED ticketTable)
    <3> DEFINE row == [ticketStatus |-> "PRESO_IN_CARICO",
                       creatoDa |-> thread[r].creatoDa, assegnatoA |-> NoId]
    <3>1. row \in TicketRow /\ row.creatoDa \in DOMAIN userTable /\ ticketTable \in Seq(TicketRow)
      BY <1>5 DEF createTicketSaveTicket, ThreadsOK, ThreadOK, Thread, TicketRow,
         TicketStatus, NoId, DbTypeOK
    <3>2. ticketTable' = Append(ticketTable, row)
      BY <1>5, <2>2 DEF createTicketSaveTicket, insertTicket
    <3>3. TablesGrow /\ DbTypeOK'
      BY <1>5, <3>1, <3>2, AppendRow DEF createTicketSaveTicket, TablesGrow, DbTypeOK
    <3> DEFINE th == [thread[r] EXCEPT !.pc = "done", !.answer = "200",
                                       !.saved = Len(ticketTable) + 1]
    <3>4. th \in Thread
      <4>1. Len(ticketTable) + 1 \in Nat
        BY <3>1, Keys
      <4>. QED
        BY <4>1, ThreadReplies DEF Answer
    <3>5. OnlyThread(r) /\ thread'[r] = th
      BY <1>5, <2>2, <3>4, ThreadUpdate DEF createTicketSaveTicket
    <3>6. ThreadOK(r)' /\ EntityOK(r)'
      BY <1>5, <3>5 DEF createTicketSaveTicket, Thread, ThreadsOK, ThreadOK, EntityOK,
         HoldsTicket
    <3>. QED
      BY <1>5, <3>3, <3>5, <3>6, Frame DEF createTicketSaveTicket
  <2>. QED
    BY <2>1, <2>2
<1>. QED
  BY <1>1, <1>2, <1>3, <1>4, <1>5 DEF Create

\* The flush in assegnaOperatore is always refused, whatever the tables hold.
LEMMA AssegnaOperatoreIsRefused ==
  ASSUME TypeInv, NEW r \in Requests, assegnaOperatoreSave(r)
  PROVE  Reply(r, "500") /\ UNCHANGED dbVars
<1> USE DEF TypeInv, TypeOK
<1> DEFINE ticket == [thread[r].ticket EXCEPT !.assegnatoA = Transient,
                                              !.ticketStatus = "IN_LAVORAZIONE"]
<1>1. thread[r].ticket \in TicketRow
  BY DEF assegnaOperatoreSave, EntitiesOK, EntityOK, HoldsTicket
<1>2. ticket.assegnatoA = -1
  BY <1>1 DEF TicketRow, Transient
<1>3. ~ Flushable(ticket)
  BY <1>2, Keys DEF Flushable, NoId, DbTypeOK
<1>. QED
  BY <1>3 DEF assegnaOperatoreSave, dbVars

LEMMA AssegnaTypeInv ==
  ASSUME TypeInv, NEW r \in Requests, Assegna(r) PROVE TypeInv' /\ TablesGrow /\ OnlyThread(r)
<1> USE DEF TypeInv, TypeOK
<1>1. CASE assegnaOperatore(r)
  <2>1. CASE \E code \in {"404", "400"} : Reply(r, code)
    BY <1>1, <2>1, ReplyFrame DEF assegnaOperatore, At, Answer
  <2>2. CASE ~ \E code \in {"404", "400"} : Reply(r, code)
    BY <1>1, <2>2, LoadFrame DEF assegnaOperatore, At
  <2>. QED
    BY <2>1, <2>2
<1>2. CASE assegnaOperatoreProfile(r)
  <2>1. CASE Reply(r, "403")
    BY <1>2, <2>1, ReplyFrame DEF assegnaOperatoreProfile, getUserProfile, At, Answer
  <2>2. CASE Goto(r, "saveAssignment")
    <3>1. ThreadOK(r)' /\ HoldsTicket(r)
      BY <1>2, <2>2 DEF assegnaOperatoreProfile, getUserProfile, At, Goto, Thread,
         ThreadsOK, ThreadOK, HoldsTicket
    <3>. QED
      BY <1>2, <2>2, <3>1, GotoFrame DEF assegnaOperatoreProfile, PC
  <2>. QED
    BY <1>2, <2>1, <2>2 DEF assegnaOperatoreProfile
<1>3. CASE assegnaOperatoreSave(r)
  <2>1. Reply(r, "500") /\ UNCHANGED <<dbVars, mailVars>> /\ thread[r].pc # "idle"
    BY <1>3, AssegnaOperatoreIsRefused DEF assegnaOperatoreSave, dbVars
  <2>. QED
    BY <2>1, ReplyFrame DEF Answer
<1>. QED
  BY <1>1, <1>2, <1>3 DEF Assegna

\* Token check and findById of updateTicketStatus and sendMessage.
LEMMA LoadTicketTypeInv ==
  ASSUME TypeInv, NEW r \in Requests, thread[r].pc = "start", LoadTicket(r),
         UNCHANGED <<dbVars, mailVars>>
  PROVE  TypeInv' /\ TablesGrow /\ OnlyThread(r)
<1>1. CASE \E code \in {"401", "404"} : Reply(r, code)
  BY <1>1, ReplyFrame DEF TypeInv, TypeOK, Answer
<1>2. CASE ~ \E code \in {"401", "404"} : Reply(r, code)
  BY <1>2, LoadFrame DEF LoadTicket
<1>. QED
  BY <1>1, <1>2

LEMMA UpdateStatusTypeInv ==
  ASSUME TypeInv, NEW r \in Requests, UpdateStatus(r) PROVE TypeInv' /\ TablesGrow /\ OnlyThread(r)
<1> USE DEF TypeInv, TypeOK
<1>1. CASE updateTicketStatus(r)
  BY <1>1, LoadTicketTypeInv DEF updateTicketStatus, At
<1>2. CASE updateTicketStatusProfile(r)
  <2>1. CASE \E code \in {"400", "403", "500"} : Reply(r, code)
    BY <1>2, <2>1, ReplyFrame DEF updateTicketStatusProfile, getUserProfile, At, Answer
  <2>2. CASE Goto(r, "saveHistory") /\ thread[r].req.caller \in Operators
               /\ thread[r].req.stato \in TicketStatus
    <3>1. ThreadOK(r)' /\ HoldsTicket(r)
      BY <1>2, <2>2, RequestAssumption DEF updateTicketStatusProfile, getUserProfile, At,
         Goto, Thread, ThreadsOK, ThreadOK, HoldsTicket
    <3>. QED
      BY <1>2, <2>2, <3>1, GotoFrame DEF updateTicketStatusProfile, PC
  <2>. QED
    BY <1>2, <2>1, <2>2 DEF updateTicketStatusProfile
<1>3. CASE updateTicketStatusSaveHistory(r)
  <2> DEFINE row == [ticket |-> thread[r].req.ticketId,
                     statoPrecedente |-> thread[r].ticket.ticketStatus,
                     statoSuccessivo |-> thread[r].req.stato,
                     modificatoDa |-> thread[r].req.caller]
             th == [thread[r] EXCEPT !.pc = "saveStatus", !.saved = Len(historyTable) + 1]
  <2>1. /\ thread[r].pc = "saveHistory" /\ historyTable \in Seq(HistoryRow)
        /\ thread[r].req.ticketId \in DOMAIN ticketTable /\ thread[r].ticket \in TicketRow
    BY <1>3 DEF updateTicketStatusSaveHistory, EntitiesOK, EntityOK, HoldsTicket, DbTypeOK
  <2>2. row \in HistoryRow
    <3>1. thread[r].req.ticketId \in Nat
      BY <2>1, Keys DEF DbTypeOK
    <3>. QED
      BY <2>1, <3>1 DEF ThreadsOK, ThreadOK, HistoryRow, TicketRow
  <2>3. historyTable' = Append(historyTable, row)
    BY <1>3 DEF updateTicketStatusSaveHistory, insertHistory
  <2>4. TablesGrow /\ DbTypeOK'
    BY <1>3, <2>1, <2>2, <2>3, AppendRow
    DEF updateTicketStatusSaveHistory, TablesGrow, DbTypeOK
  <2>5. th \in Thread
    <3>1. Len(historyTable) + 1 \in Nat
      BY <2>1, Keys
    <3>. QED
      BY <3>1, ThreadGoes DEF PC
  <2>6. OnlyThread(r) /\ thread'[r] = th
    BY <1>3, <2>5, ThreadUpdate DEF updateTicketStatusSaveHistory
  <2>7. ThreadOK(r)' /\ EntityOK(r)'
    BY <1>3, <2>1, <2>6 DEF updateTicketStatusSaveHistory, Thread, ThreadsOK, ThreadOK,
       EntitiesOK, EntityOK, HoldsTicket
  <2>. QED
    BY <1>3, <2>4, <2>6, <2>7, Frame DEF updateTicketStatusSaveHistory
<1>4. CASE updateTicketStatusSave(r)
  <2> DEFINE t == thread[r].req.ticketId
             ticket == [thread[r].ticket EXCEPT !.ticketStatus = thread[r].req.stato]
             th == [thread[r] EXCEPT !.pc = "notify", !.ticket = ticket]
  <2>1. /\ thread[r].pc = "saveStatus" /\ thread[r].req.stato \in TicketStatus
        /\ t \in DOMAIN ticketTable /\ thread[r].ticket \in TicketRow
        /\ thread[r].ticket.creatoDa = ticketTable[t].creatoDa
        /\ thread[r].ticket.assegnatoA = ticketTable[t].assegnatoA
        /\ ticketTable \in Seq(TicketRow)
    BY <1>4 DEF updateTicketStatusSave, ThreadsOK, ThreadOK, EntitiesOK, EntityOK,
       HoldsTicket, DbTypeOK
  <2>2. /\ ticket \in TicketRow
        /\ ticket.creatoDa = ticketTable[t].creatoDa
        /\ ticket.assegnatoA = ticketTable[t].assegnatoA
    BY <2>1 DEF TicketRow
  <2>3. ticketTable' \in {ticketTable, [ticketTable EXCEPT ![t] = ticket]}
    BY <1>4 DEF updateTicketStatusSave, updateTicket
  <2>4. /\ ticketTable' \in Seq(TicketRow)
        /\ (DOMAIN ticketTable)' = DOMAIN ticketTable
        /\ \A s \in DOMAIN ticketTable : ticketTable'[s] \in {ticketTable[s], ticket}
        /\ \A s \in DOMAIN ticketTable : s # t => ticketTable'[s] = ticketTable[s]
    BY <2>1, <2>2, <2>3, UpdateRow
  <2>5. TablesGrow
    BY <1>4, <2>2, <2>4 DEF updateTicketStatusSave, TablesGrow
  <2>6. DbTypeOK'
    BY <1>4, <2>4, <2>5 DEF updateTicketStatusSave, TablesGrow, DbTypeOK
  <2>7. th \in Thread
    BY <2>2, ThreadGoes DEF PC
  <2>8. OnlyThread(r) /\ thread'[r] = th
    BY <1>4, <2>7, ThreadUpdate DEF updateTicketStatusSave
  <2>9. th.pc = "notify" /\ th.req = thread[r].req /\ th.ticket = ticket
    BY DEF Thread
  <2>10. ThreadOK(r)'
    BY <2>1, <2>8, <2>9 DEF ThreadsOK, ThreadOK
  <2>11. EntityOK(r)'
    <3>1. thread'[r].ticket = ticket /\ thread'[r].req.ticketId = t
      BY <2>8, <2>9
    <3>2. /\ t \in (DOMAIN ticketTable)'
          /\ ticket.creatoDa = ticketTable'[t].creatoDa
          /\ ticket.assegnatoA = ticketTable'[t].assegnatoA
      BY <2>1, <2>2, <2>5 DEF TablesGrow
    <3> HIDE DEF ticket, t
    <3>. QED
      BY <2>2, <3>1, <3>2 DEF EntityOK
  <2>. QED
    BY <1>4, <2>5, <2>6, <2>8, <2>10, <2>11, Frame DEF updateTicketStatusSave
<1>. QED
  BY <1>1, <1>2, <1>3, <1>4 DEF UpdateStatus

LEMMA MessageTypeInv ==
  ASSUME TypeInv, NEW r \in Requests, Message(r) PROVE TypeInv' /\ TablesGrow /\ OnlyThread(r)
<1> USE DEF TypeInv, TypeOK
<1>1. CASE sendMessage(r)
  BY <1>1, LoadTicketTypeInv DEF sendMessage, At
<1>2. CASE sendMessageProfile(r)
  <2>1. ThreadOK(r)' /\ HoldsTicket(r)
    BY <1>2, RequestAssumption DEF sendMessageProfile, getUserProfile, At, Goto, Thread,
       ThreadsOK, ThreadOK, HoldsTicket, Input
  <2>. QED
    BY <1>2, <2>1, GotoFrame DEF sendMessageProfile, PC
<1>3. CASE sendMessageSave(r)
  <2> DEFINE row == [ticket |-> thread[r].req.ticketId, autoreId |-> thread[r].req.caller,
                     contenuto |-> thread[r].req.body]
             th == [thread[r] EXCEPT !.pc = "notify", !.saved = Len(messageTable) + 1]
  <2>1. /\ thread[r].pc = "saveMessage" /\ messageTable \in Seq(MessageRow)
        /\ thread[r].req.ticketId \in DOMAIN ticketTable
    BY <1>3 DEF sendMessageSave, EntitiesOK, EntityOK, HoldsTicket, DbTypeOK
  <2>2. row \in MessageRow
    BY <2>1, RequestAssumption DEF ThreadsOK, ThreadOK, MessageRow, Input
  <2>3. messageTable' = Append(messageTable, row)
    BY <1>3 DEF sendMessageSave, insertMessage
  <2>4. TablesGrow /\ DbTypeOK'
    BY <1>3, <2>1, <2>2, <2>3, AppendRow DEF sendMessageSave, TablesGrow, DbTypeOK
  <2>5. th \in Thread
    <3>1. Len(messageTable) + 1 \in Nat
      BY <2>1, Keys
    <3>. QED
      BY <3>1, ThreadGoes DEF PC
  <2>6. OnlyThread(r) /\ thread'[r] = th
    BY <1>3, <2>5, ThreadUpdate DEF sendMessageSave
  <2>7. ThreadOK(r)' /\ EntityOK(r)'
    BY <1>3, <2>1, <2>6 DEF sendMessageSave, Thread, ThreadsOK, ThreadOK,
       EntitiesOK, EntityOK, HoldsTicket
  <2>. QED
    BY <1>3, <2>4, <2>6, <2>7, Frame DEF sendMessageSave
<1>. QED
  BY <1>1, <1>2, <1>3 DEF Message

LEMMA NotifyTypeInv ==
  ASSUME TypeInv, NEW r \in Requests, Notify(r) PROVE TypeInv' /\ TablesGrow /\ OnlyThread(r)
<1> USE DEF TypeInv, TypeOK
<1>1. CASE inviaNotifica(r)
  <2>1. /\ thread[r].pc = "notify" /\ Goto(r, "posted") /\ UNCHANGED dbVars
        /\ underway' \subseteq Requests /\ delivered' \in Seq(Requests)
    BY <1>1 DEF inviaNotifica
  <2> DEFINE th == [thread[r] EXCEPT !.pc = "posted"]
  <2>2. th \in Thread
    BY ThreadGoes DEF PC
  <2>3. OnlyThread(r) /\ thread'[r] = th
    BY <2>1, <2>2, ThreadUpdate DEF Goto
  <2>4. ThreadOK(r)' /\ EntityOK(r)'
    BY <2>1, <2>3 DEF Thread, ThreadsOK, ThreadOK, EntitiesOK, EntityOK, HoldsTicket, dbVars
  <2>. QED
    BY <2>1, <2>3, <2>4, LocalFrame
<1>2. CASE NothingToNotify(r) \/ inviaNotificaReturns(r) \/ inviaNotificaFails(r)
  <2>1. /\ thread[r].pc # "idle"
        /\ \E code \in {"200", "201", "500"} : Reply(r, code)
        /\ UNCHANGED <<dbVars, mailVars>>
    BY <1>2 DEF NothingToNotify, inviaNotificaReturns, inviaNotificaFails, Success
  <2>. QED
    BY <2>1, ReplyFrame DEF Answer
<1>. QED
  BY <1>1, <1>2 DEF Notify

LEMMA SurroundingsTypeInv ==
  ASSUME TypeInv, NEW r \in Requests, Surroundings(r) PROVE TypeInv' /\ TablesGrow /\ OnlyThread(r)
<1> USE DEF TypeInv, TypeOK
<1>1. CASE Accept(r)
  <2>1. PICK q \in Inputs : thread' = [thread EXCEPT ![r] = [@ EXCEPT !.pc = "start", !.req = q, !.earlier = Over]]
    BY <1>1 DEF Accept
  <2> DEFINE th == [thread[r] EXCEPT !.pc = "start", !.req = q, !.earlier = Over]
  <2>2. th \in Thread
    BY ThreadTakes DEF Over
  <2>3. OnlyThread(r) /\ thread'[r] = th
    BY <2>1, <2>2, ThreadUpdate
  <2>4. ThreadOK(r)' /\ EntityOK(r)'
    BY <2>3 DEF Thread, ThreadOK, EntityOK, HoldsTicket
  <2>. QED
    BY <1>1, <2>3, <2>4, LocalFrame DEF Accept, Surroundings
<1>2. CASE getUserProfileFails(r) \/ DatabaseFails(r)
  <2>1. Reply(r, "500") /\ UNCHANGED <<dbVars, mailVars>> /\ thread[r].pc # "idle"
    BY <1>2 DEF getUserProfileFails, DatabaseFails, CallsRepository, Surroundings
  <2>. QED
    BY <2>1, ReplyFrame DEF Answer
<1>. QED
  BY <1>1, <1>2 DEF Surroundings

LEMMA CrashTypeInv ==
  ASSUME TypeInv, Crash, UNCHANGED mailVars PROVE TypeInv' /\ TablesGrow
<1> USE DEF TypeInv, TypeOK
<1>1. thread' \in [Requests -> Thread] /\ UNCHANGED dbVars
  BY DEF Crash, Thread, PC, Answer
<1>2. ASSUME NEW r \in Requests PROVE ThreadOK(r)' /\ EntityOK(r)'
  <2>1. CASE thread'[r] = thread[r]
    BY <1>1, <2>1 DEF ThreadsOK, ThreadOK, EntitiesOK, EntityOK, HoldsTicket, dbVars
  <2>2. CASE thread'[r] = [thread[r] EXCEPT !.pc = "done", !.answer = "lost"] /\ r \in InFlight
    BY <2>2 DEF Thread, InFlight, ThreadsOK, ThreadOK, EntityOK, HoldsTicket
  <2>. QED
    BY <2>1, <2>2 DEF Crash
<1>. QED
  BY <1>1, <1>2, SameTables DEF ThreadsOK, EntitiesOK, DbTypeOK, dbVars

LEMMA ReceivedTypeInv ==
  ASSUME TypeInv, NEW r \in Requests, Received(r) PROVE TypeInv'
<1>1. UNCHANGED <<dbVars, thread>> /\ underway' \subseteq Requests /\ delivered' \in Seq(Requests)
  BY DEF Received, TypeInv, TypeOK
<1>. QED
  BY <1>1 DEF dbVars, TypeInv, TypeOK, DbTypeOK, ThreadsOK, ThreadOK, EntitiesOK, EntityOK, HoldsTicket

LEMMA StepTypeInv ==
  ASSUME TypeInv, NEW r \in Requests, Step(r) PROVE TypeInv' /\ TablesGrow /\ OnlyThread(r)
  BY CreateTypeInv, AssegnaTypeInv, UpdateStatusTypeInv, MessageTypeInv,
     NotifyTypeInv, SurroundingsTypeInv DEF Step

LEMMA NextTypeInv == TypeInv /\ [Next]_vars => TypeInv'
<1> SUFFICES ASSUME TypeInv, [Next]_vars PROVE TypeInv'
  OBVIOUS
<1>1. CASE UNCHANGED vars
  BY <1>1 DEF vars, dbVars, TypeInv, TypeOK, DbTypeOK, ThreadsOK, ThreadOK, EntitiesOK,
     EntityOK, HoldsTicket
<1>2. ASSUME NEW r \in Requests, Step(r) PROVE TypeInv'
  BY <1>2, StepTypeInv
<1>3. CASE Crash /\ UNCHANGED mailVars
  BY <1>3, CrashTypeInv
<1>4. ASSUME NEW r \in Requests, Received(r) PROVE TypeInv'
  BY <1>4, ReceivedTypeInv
<1>. QED
  BY <1>1, <1>2, <1>3, <1>4 DEF Next, AllAnswered

\* Every thread and every entity can rely on what its handler's steps assume
\* (the guards of TicketService and MessageService).
THEOREM ThreadsCorrect == Spec => []TypeInv
  BY InitTypeInv, NextTypeInv, PTL DEF Spec

\* Rows are well-formed, foreign keys refer to rows, and requests never leave
\* the states of their handlers, under every interleaving and fault.
THEOREM TypeCorrect == Spec => []TypeOK
<1>1. TypeInv => TypeOK
  BY DEF TypeInv
<1>. QED
  BY <1>1, ThreadsCorrect, PTL
=============================================================================
