-------------------------- MODULE ReadEndpointsProofs --------------------------
(***************************************************************************)
(* Proofs about the reads: who is sure to be served, and what a listing     *)
(* is sure to have, for any number of sessions, reads and requests.         *)
(***************************************************************************)
EXTENDS ReadEndpoints, HelpDeskStatusProofs, HelpDeskRowProofs

USE DEF mailVars

-----------------------------------------------------------------------------
(* Base64. *)

\* Of a group of ASCII characters only the third can yield a sextet of 62 or 63.
LEMMA AsciiGroup ==
  ASSUME NEW b1 \in 0 .. 127, NEW b2 \in 0 .. 127, NEW b3 \in 0 .. 127
  PROVE  groupDecodes(b1, b2, b3) <=> b3 \notin {62, 63, 126, 127}
<1>1. b1 \div 4 \notin Unreadable
  BY DEF Unreadable
<1>2. (b1 % 4) * 16 + b2 \div 16 \notin Unreadable
  BY DEF Unreadable
<1>3. (b2 % 16) * 4 + b3 \div 64 \notin Unreadable
  BY DEF Unreadable
<1>4. b3 % 64 \in Unreadable <=> b3 \in {62, 63, 126, 127}
  BY DEF Unreadable
<1>. QED
  BY <1>1, <1>2, <1>3, <1>4 DEF groupDecodes, Sextets

LEMMA AsciiDecodes ==
  ASSUME NEW bytes \in Seq(Byte), ReadableAscii(bytes)
  PROVE  basicDecodes(bytes)
<1>1. DOMAIN bytes = 1 .. Len(bytes) /\ Len(bytes) \in Nat
  OBVIOUS
<1>2. ASSUME NEW i \in Nat PROVE ByteAt(bytes, i) \in 0 .. 127
  <2>1. CASE i \in DOMAIN bytes
    <3>1. PICK b \in Byte : b = bytes[i]
      BY <2>1, Elements
    <3>2. b < 128
      BY <2>1, <3>1 DEF ReadableAscii
    <3>3. b \in 0 .. 127
      BY <3>2 DEF Byte
    <3>. QED
      BY <2>1, <3>1, <3>3 DEF ByteAt
  <2>2. CASE i \notin DOMAIN bytes
    BY <2>2 DEF ByteAt
  <2>. QED
    BY <2>1, <2>2
<1>3. ASSUME NEW g \in GroupStarts(bytes)
      PROVE  groupDecodes(ByteAt(bytes, g), ByteAt(bytes, g + 1), ByteAt(bytes, g + 2))
  <2>1. g \in Nat /\ g + 1 \in Nat /\ g + 2 \in Nat
    BY <1>1 DEF GroupStarts
  <2>2. /\ ByteAt(bytes, g) \in 0 .. 127
        /\ ByteAt(bytes, g + 1) \in 0 .. 127
        /\ ByteAt(bytes, g + 2) \in 0 .. 127
    BY <1>2, <2>1
  <2>3. ByteAt(bytes, g + 2) \notin {62, 63, 126, 127}
    <3>1. (g + 2) % 3 = 0
      BY <1>1 DEF GroupStarts
    <3>. QED
      BY <3>1 DEF ByteAt, ReadableAscii
  <2>. QED
    BY <2>2, <2>3, AsciiGroup
<1>. QED
  BY <1>3 DEF basicDecodes

-----------------------------------------------------------------------------
(* What a session may rely on. *)

\* Some read of c was shown these rows of the table its ask names.
Listable(q, i) ==
  \/ q.op = "getMyTickets" /\ i \in getMyTickets(q.token.sub)
  \/ q.op = "getTicketHistory" /\ i \in historyOf(q.ticketId)
  \/ q.op = "getMessagesByTicket" /\ i \in messagesOf(q.ticketId)

\* What a read has to list is there already when it is sent.
DueOK(c) ==
  /\ \A i \in session[c].due : Listable(session[c].ask, i)
  /\ session[c].pc = "list" => session[c].ask.op \in {"getTicketHistory", "getMessagesByTicket"}
  /\ \A op \in ReadOp : WasShown(c, op) => session[c].due \subseteq session[c].rows

\* The status a session was shown is recorded.
ShownOK(c) ==
  LET shown == session[c].shown IN
  shown # NoTicket =>
    /\ shown.ticketId \in DOMAIN ticketTable
    /\ shown.status \in SeenBefore(shown.ticketId, Rows + 1)

\* The rows of a history that was shown explain the status shown before.
HistoryOK(c) ==
  LET t == session[c].ask.ticketId IN
  WasShown(c, "getTicketHistory") =>
    /\ session[c].rows \subseteq DOMAIN historyTable
    /\ session[c].shown # NoTicket /\ session[c].shown.ticketId = t
         => session[c].shown.status \in
              {StartStatus(t)} \cup {historyTable[i].statoSuccessivo : i \in session[c].rows}

SessionType ==
  /\ session \in [Sessions -> Session]
  /\ \A c \in Sessions :
       session[c].pc # "idle" => session[c].ask \in ReadInput /\ session[c].answer = "none"

ShownInv == SessionType /\ \A c \in Sessions : ShownOK(c) /\ HistoryOK(c)

DueInv == \A c \in Sessions : DueOK(c)

\* Reads write nothing: the requests that change the tables see no difference
\* (the four GET endpoints of TicketController).
LEMMA ReadsChangeNothing == ReadSpec => Spec
<1>1. [ReadNext]_readVars => [Next]_vars
  BY DEF ReadNext, readVars, Next
<1>. QED
  BY <1>1, PTL DEF ReadSpec, ReadInit, Spec

-----------------------------------------------------------------------------
(* What the requests change under a session. *)

\* No step of a request, and no crash, takes a row away or changes an old one.
Growth == TablesGrow /\ RowsStay /\ HistoryGrows

LEMMA NextGrowth == TypeInv /\ RowInv /\ [Next]_vars => TypeInv' /\ Growth
<1> SUFFICES ASSUME TypeInv, RowInv, [Next]_vars PROVE TypeInv' /\ Growth
  OBVIOUS
<1>1. TypeInv'
  BY NextTypeInv
<1>2. TablesGrow /\ RowsStay
  <2>1. ASSUME NEW r \in Requests, Step(r) PROVE TablesGrow /\ RowsStay
    BY <2>1, StepTypeInv, StepRows DEF RowInv, RowStep
  <2>2. CASE UNCHANGED dbVars
    BY <2>2, SameTables, TablesSame
  <2>. QED
    BY <2>1, <2>2 DEF Next, Received, Crash, AllAnswered, vars
<1>3. /\ Rows \in Nat /\ DOMAIN historyTable = 1 .. Rows
      /\ Rows' \in Nat /\ (DOMAIN historyTable)' = 1 .. Rows'
  BY <1>1 DEF TypeInv, TypeOK, DbTypeOK, Rows
<1>4. Rows <= Rows'
  <2>1. 1 .. Rows \subseteq 1 .. Rows'
    BY <1>2, <1>3 DEF RowsStay
  <2>. QED
    BY <1>3, <2>1
<1>. QED
  BY <1>1, <1>2, <1>3, <1>4 DEF Growth, RowsStay, HistoryGrows

LEMMA ListableGrows ==
  ASSUME TypeInv, Growth, NEW q, NEW i, Listable(q, i) PROVE Listable(q, i)'
<1>1. CASE q.op = "getMyTickets" /\ i \in getMyTickets(q.token.sub)
  BY <1>1 DEF Growth, TablesGrow, RowsStay, Listable, getMyTickets, findByCreatoDa_ExternalId,
     findByExternalId
<1>2. CASE q.op = "getTicketHistory" /\ i \in historyOf(q.ticketId)
  BY <1>2 DEF Growth, RowsStay, Listable, historyOf
<1>3. CASE q.op = "getMessagesByTicket" /\ i \in messagesOf(q.ticketId)
  BY <1>3 DEF Growth, RowsStay, Listable, messagesOf
<1>. QED
  BY <1>1, <1>2, <1>3 DEF Listable

\* Whose session does not move sees no less.
LEMMA StillShown ==
  ASSUME TypeInv, Growth, NEW c \in Sessions, session'[c] = session[c], ShownOK(c), HistoryOK(c)
  PROVE  ShownOK(c)' /\ HistoryOK(c)'
<1>1. ShownOK(c)'
  <2>1. PICK shown : shown = session[c].shown
    OBVIOUS
  <2>2. SeenBefore(shown.ticketId, Rows + 1) \subseteq SeenBefore(shown.ticketId, Rows + 1)'
    BY SeenGrows DEF Growth
  <2>3. shown # NoTicket => shown.status \in SeenBefore(shown.ticketId, Rows + 1)'
    BY <2>1, <2>2 DEF ShownOK
  <2>4. shown # NoTicket => shown.ticketId \in (DOMAIN ticketTable)'
    BY <2>1 DEF ShownOK, Growth, TablesGrow
  <2>5. session'[c].shown = shown
    BY <2>1
  <2>. QED
    BY <2>3, <2>4, <2>5 DEF ShownOK, SeenBefore, historyOf
<1>2. HistoryOK(c)'
  BY DEF Growth, RowsStay, HistoryOK, WasShown, StartStatus
<1>. QED
  BY <1>1, <1>2

LEMMA StillDue ==
  ASSUME TypeInv, Growth, NEW c \in Sessions, session'[c] = session[c], DueOK(c)
  PROVE  DueOK(c)'
<1>1. PICK q : q = session[c].ask
  OBVIOUS
<1>2. \A i \in session[c].due : Listable(q, i)'
  BY <1>1, ListableGrows DEF DueOK
<1>3. session'[c].ask = q
  BY <1>1
<1>4. \A i \in session'[c].due : Listable(session[c].ask, i)'
  BY <1>2, <1>3 DEF Listable, getMyTickets, findByCreatoDa_ExternalId, findByExternalId,
     historyOf, messagesOf
<1>. QED
  BY <1>4 DEF DueOK, WasShown

-----------------------------------------------------------------------------
(* The steps of a read. *)

OnlySession(c) ==
  /\ session' \in [Sessions -> Session]
  /\ \A d \in Sessions \ {c} : session'[d] = session[d]

\* A step of c that shows nothing.
ShowsNothing(c) ==
  /\ OnlySession(c)
  /\ session'[c].pc = "idle" => session'[c].answer # "200"
  /\ session'[c].shown = session[c].shown
  /\ session'[c].ask = session[c].ask /\ session'[c].due = session[c].due
  /\ session'[c].pc # "idle" =>
       /\ session[c].pc # "idle"
       /\ session[c].ask.op \in {"getTicketHistory", "getMessagesByTicket"}
       /\ session'[c].answer = session[c].answer

\* A step of c that shows a list of rows.
ShowsRows(c, ids) ==
  /\ OnlySession(c)
  /\ session'[c].pc = "idle" /\ session'[c].answer = "200"
  /\ session'[c].rows = ids /\ session'[c].due = session[c].due
  /\ session'[c].ask = session[c].ask /\ session'[c].shown = session[c].shown

LEMMA AnswerShowsNothing ==
  ASSUME SessionType, NEW c \in Sessions, NEW code \in Answer \ {"200"}, AnswerRead(c, code)
  PROVE  ShowsNothing(c)
  BY DEF SessionType, Session, AnswerRead, ShowsNothing, OnlySession

LEMMA AnswerShowsRows ==
  ASSUME SessionType, NEW c \in Sessions, NEW ids \in SUBSET Nat, AnswerRows(c, ids)
  PROVE  ShowsRows(c, ids)
  BY DEF SessionType, Session, Answer, AnswerRows, ShowsRows, OnlySession

LEMMA KeysAreNat ==
  ASSUME TypeInv, NEW t
  PROVE  /\ historyOf(t) \in SUBSET Nat /\ messagesOf(t) \in SUBSET Nat
         /\ getMyTickets(t) \in SUBSET Nat /\ DOMAIN ticketTable \subseteq Nat
<1>1. /\ DOMAIN historyTable \subseteq Nat /\ DOMAIN messageTable \subseteq Nat
      /\ DOMAIN ticketTable \subseteq Nat
  BY Keys DEF TypeInv, TypeOK, DbTypeOK
<1>. QED
  BY <1>1 DEF historyOf, messagesOf, getMyTickets, findByCreatoDa_ExternalId

\* Sending a read.
Sends(c) ==
  /\ OnlySession(c)
  /\ session'[c].pc = "start" /\ session'[c].answer = "none"
  /\ session'[c].shown = session[c].shown
  /\ session'[c].due = Due(session'[c].ask) /\ session'[c].ask \in ReadInput

LEMMA SendReadSends ==
  ASSUME TypeInv, SessionType, NEW c \in Sessions, SendRead(c) PROVE Sends(c)
<1>1. PICK q \in ReadInputs :
        session' = [session EXCEPT ![c] =
          [@ EXCEPT !.pc = "start", !.ask = q, !.answer = "none", !.rows = {}, !.due = Due(q),
                    !.sent = session[c].sent + 1]]
  BY DEF SendRead
<1>2. Due(q) \in SUBSET Nat
  <2>1. \A r \in Requests : thread[r].saved \in Nat
    BY DEF TypeInv, TypeOK, Thread
  <2>2. q.op \in ReadOp
    BY ReadAssumption DEF ReadInput
  <2>. QED
    BY <2>1, <2>2 DEF Due, AnsweredRows, ReadOp
<1>3. session[c].sent \in 0 .. MaxReads /\ session[c].sent < MaxReads
  BY DEF SendRead, SessionType, Session
<1>4. session[c].sent + 1 \in 0 .. MaxReads
  BY <1>3, ReadAssumption
<1>5. session[c] \in Session /\ session \in [Sessions -> Session]
  BY DEF SessionType
<1>6. PICK n \in 0 .. MaxReads, due \in SUBSET Nat : n = session[c].sent + 1 /\ due = Due(q)
  BY <1>2, <1>4
<1>7. session' = [session EXCEPT ![c] =
        [@ EXCEPT !.pc = "start", !.ask = q, !.answer = "none", !.rows = {}, !.due = due,
                  !.sent = n]]
  BY <1>1, <1>5, <1>6
<1>8. [session[c] EXCEPT !.pc = "start", !.ask = q, !.answer = "none", !.rows = {}, !.due = due,
                         !.sent = n] \in Session
  BY <1>5 DEF Session, Answer
<1>9. OnlySession(c) /\ session'[c].pc = "start" /\ session'[c].ask = q /\ session'[c].due = due
      /\ session'[c].shown = session[c].shown /\ session'[c].answer = "none"
  BY <1>5, <1>7, <1>8 DEF OnlySession, Session
<1>. QED
  BY <1>6, <1>9, ReadAssumption DEF Sends

\* Showing a ticket.
Shows(c) ==
  /\ OnlySession(c)
  /\ session'[c].pc = "idle" /\ session[c].ask.op = "getTicketById"
  /\ session'[c].ask = session[c].ask
  /\ session'[c].due = session[c].due
  /\ session'[c].shown.ticketId \in DOMAIN ticketTable
  /\ session'[c].shown.status = ticketTable[session'[c].shown.ticketId].ticketStatus

LEMMA ShowTicketShows ==
  ASSUME TypeInv, SessionType, NEW c \in Sessions, ShowTicket(c)
  PROVE  Shows(c) \/ ShowsNothing(c)
<1> DEFINE t == session[c].ask.ticketId
<1>1. CASE t \notin DOMAIN ticketTable
  BY <1>1, AnswerShowsNothing DEF ShowTicket, Answer
<1>2. CASE t \in DOMAIN ticketTable
  <2>1. t \in Nat /\ ticketTable[t].ticketStatus \in TicketStatus
    <3>1. ticketTable[t] \in TicketRow
      BY <1>2, Elements DEF TypeInv, TypeOK, DbTypeOK
    <3>. QED
      BY <1>2, <3>1, KeysAreNat DEF TicketRow
  <2>2. [ticketId |-> t, status |-> ticketTable[t].ticketStatus] \in Shown
    BY <2>1 DEF Shown
  <2>3. session' = [session EXCEPT ![c] =
          [@ EXCEPT !.pc = "idle", !.answer = "200",
                    !.shown = [ticketId |-> t, status |-> ticketTable[t].ticketStatus]]]
    BY <1>2 DEF ShowTicket
  <2>4. session[c].ask.op = "getTicketById"
    BY DEF ShowTicket, Serves
  <2>5. PICK shown \in Shown : shown = [ticketId |-> t, status |-> ticketTable[t].ticketStatus]
    BY <2>2
  <2>6. session' = [session EXCEPT ![c] =
          [@ EXCEPT !.pc = "idle", !.answer = "200", !.shown = shown]]
    BY <2>3, <2>5
  <2>7. session \in [Sessions -> Session] /\ session[c] \in Session
    BY DEF SessionType
  <2>8. [session[c] EXCEPT !.pc = "idle", !.answer = "200", !.shown = shown] \in Session
    BY <2>7 DEF Session, Answer
  <2>9. /\ OnlySession(c)
        /\ session'[c] = [session[c] EXCEPT !.pc = "idle", !.answer = "200", !.shown = shown]
    BY <2>6, <2>7, <2>8 DEF OnlySession
  <2>10. /\ session'[c].pc = "idle" /\ session'[c].ask = session[c].ask
         /\ session'[c].due = session[c].due /\ session'[c].shown = shown
    BY <2>7, <2>9 DEF Session
  <2>. QED
    BY <1>2, <2>4, <2>5, <2>9, <2>10 DEF Shows
<1>. QED
  BY <1>1, <1>2

\* What a read does to its session.
ReadKind(c) ==
  \/ ShowsNothing(c)
  \/ Sends(c)
  \/ Shows(c)
  \/ /\ session[c].ask.op = "getMyTickets"
     /\ ShowsRows(c, getMyTickets(session[c].ask.token.sub))
  \/ /\ session[c].pc = "list" /\ session[c].ask.op # "getTicketHistory"
     /\ ShowsRows(c, messagesOf(session[c].ask.ticketId))
  \/ /\ session[c].ask.op = "getTicketHistory"
     /\ ShowsRows(c, historyOf(session[c].ask.ticketId))

\* However the header is cut, the claims of the token are the client's.
LEMMA CutKeepsSub ==
  ASSUME NEW q \in ReadInput
  PROVE  /\ cutHeader(q).token.sub = q.token.sub
         /\ cutHeader(q).answer \in {"none", "400", "500"}
<1>1. PICK form \in HeaderForm : form = q.form
  BY DEF ReadInput
<1>2. PICK token \in Token : token = q.token
  BY DEF ReadInput
<1>3. Damaged(token).sub = token.sub
  BY DEF Damaged, Token
<1>4. /\ cutSubstring(form, token).token.sub = token.sub
      /\ cutSubstring(form, token).answer \in {"none", "400", "500"}
  BY <1>3 DEF cutSubstring, HeaderForm, Cut, Answered
<1>5. /\ cutReplace(form, token).token.sub = token.sub
      /\ cutReplace(form, token).answer \in {"none", "400", "500"}
  BY <1>3 DEF cutReplace, HeaderForm, Cut, Answered
<1>. QED
  BY <1>1, <1>2, <1>4, <1>5 DEF cutHeader

LEMMA ReadKinds ==
  ASSUME TypeInv, SessionType, NEW c \in Sessions, ReadStep(c) PROVE ReadKind(c)
<1>1. CASE SendRead(c)
  BY <1>1, SendReadSends DEF ReadKind
<1>2. CASE RefuseRead(c)
  <2>1. session[c].ask \in ReadInput
    BY <1>2 DEF RefuseRead, SessionType
  <2>2. \E code \in Answer \ {"200"} : AnswerRead(c, code)
    BY <1>2, <2>1, CutKeepsSub DEF RefuseRead, Answer
  <2>. QED
    BY <2>2, AnswerShowsNothing DEF ReadKind
<1>3. CASE ListMyTickets(c)
  <2>1. cutHeader(session[c].ask).token.sub = session[c].ask.token.sub
    BY <1>3, CutKeepsSub DEF ListMyTickets, Serves, SessionType
  <2>. QED
    BY <1>3, <2>1, AnswerShowsRows, AnswerShowsNothing, KeysAreNat
    DEF ListMyTickets, Serves, ReadKind, Answer
<1>4. CASE ShowTicket(c)
  BY <1>4, ShowTicketShows DEF ReadKind
<1>5. CASE FindTicket(c)
  <2>1. CASE session' = [session EXCEPT ![c].pc = "list"]
    BY <1>5, <2>1 DEF FindTicket, Serves, SessionType, Session, ReadKind, ShowsNothing, OnlySession
  <2>2. CASE AnswerRead(c, "404")
    BY <2>2, AnswerShowsNothing DEF ReadKind, Answer
  <2>. QED
    BY <1>5, <2>1, <2>2 DEF FindTicket
<1>6. CASE ListRows(c)
  BY <1>6, AnswerShowsRows, KeysAreNat
  DEF ListRows, ReadKind, getTicketHistory, getMessagesByTicket
<1>7. CASE ReadFails(c)
  BY <1>7, AnswerShowsNothing DEF ReadFails, ReadKind, Answer
<1>. QED
  BY <1>1, <1>2, <1>3, <1>4, <1>5, <1>6, <1>7 DEF ReadStep

LEMMA KindType ==
  ASSUME SessionType, NEW c \in Sessions, ReadKind(c) PROVE SessionType'
<1>1. OnlySession(c)
  BY DEF ReadKind, ShowsNothing, Sends, Shows, ShowsRows
<1>2. session'[c].pc # "idle" => session'[c].ask \in ReadInput /\ session'[c].answer = "none"
  BY DEF ReadKind, ShowsNothing, Sends, Shows, ShowsRows, SessionType
<1>. QED
  BY <1>1, <1>2 DEF OnlySession, SessionType

-----------------------------------------------------------------------------
(* What is shown. *)

LEMMA KindShown ==
  ASSUME TypeInv, StatusInv, NEW c \in Sessions, ShownOK(c), HistoryOK(c), UNCHANGED vars,
         ReadKind(c)
  PROVE  ShownOK(c)' /\ HistoryOK(c)'
<1> USE DEF vars, dbVars
<1>1. \A t, n : SeenBefore(t, n)' = SeenBefore(t, n) /\ Rows' = Rows
  BY DEF SeenBefore, historyOf, Rows
<1>2. CASE Shows(c)
  <2>1. session'[c].shown.status \in SeenBefore(session'[c].shown.ticketId, Rows + 1)
    BY <1>2 DEF Shows, StatusInv, StatusIsRecorded
  <2>2. ShownOK(c)'
    BY <1>1, <1>2, <2>1 DEF Shows, ShownOK
  <2>3. HistoryOK(c)'
    BY <1>2 DEF Shows, HistoryOK, WasShown
  <2>. QED
    BY <2>2, <2>3
<1>3. CASE session'[c].shown = session[c].shown
  <2>1. ShownOK(c)'
    BY <1>1, <1>3 DEF ShownOK
  <2>2. CASE WasShown(c, "getTicketHistory")' /\ ~ Shows(c)
    <3>1. ShowsRows(c, historyOf(session[c].ask.ticketId))
      BY <2>2 DEF WasShown, ReadKind, ShowsNothing, Sends, ShowsRows
    <3> DEFINE t == session[c].ask.ticketId
    <3>2. session'[c].rows = historyOf(t) /\ session'[c].ask.ticketId = t
      BY <3>1 DEF ShowsRows
    <3>3. historyOf(t) \subseteq DOMAIN historyTable
      BY DEF historyOf
    <3>4. session[c].shown # NoTicket /\ session[c].shown.ticketId = t
            => session[c].shown.status \in
                 {StartStatus(t)} \cup {historyTable[i].statoSuccessivo : i \in historyOf(t)}
      BY DEF ShownOK, SeenBefore
    <3>. QED
      BY <1>3, <2>1, <3>2, <3>3, <3>4 DEF HistoryOK, StartStatus
  <2>3. CASE ~ WasShown(c, "getTicketHistory")'
    BY <2>1, <2>3 DEF HistoryOK
  <2>. QED
    BY <1>2, <2>2, <2>3
<1>. QED
  BY <1>2, <1>3 DEF ReadKind, ShowsNothing, Sends, ShowsRows

LEMMA NextShownInv ==
  TypeInv /\ RowInv /\ StatusInv /\ ShownInv /\ [ReadNext]_readVars => ShownInv'
<1> SUFFICES ASSUME TypeInv, RowInv, StatusInv, ShownInv, [ReadNext]_readVars PROVE ShownInv'
  OBVIOUS
<1>1. CASE [Next]_vars /\ UNCHANGED session
  <2>1. Growth
    BY <1>1, NextGrowth
  <2>2. SessionType'
    BY <1>1 DEF ShownInv, SessionType
  <2>. QED
    BY <1>1, <2>1, <2>2, StillShown DEF ShownInv
<1>2. CASE Crash /\ UNCHANGED mailVars /\ LoseReads
  <2>1. Growth
    BY <1>2, NextGrowth DEF Next
  <2>2. ASSUME NEW c \in Sessions
        PROVE  \/ session'[c] = session[c]
               \/ /\ session'[c].pc = "idle" /\ session'[c].answer = "lost"
                  /\ session'[c].shown = session[c].shown
    BY <1>2 DEF LoseReads, ShownInv, SessionType, Session
  <2>3. SessionType'
    <3>1. ASSUME NEW c \in Sessions
          PROVE  [session[c] EXCEPT !.pc = "idle", !.answer = "lost"] \in Session
      BY DEF ShownInv, SessionType, Session, Answer
    <3>2. session' \in [Sessions -> Session]
      BY <1>2, <3>1 DEF LoseReads, ShownInv, SessionType
    <3>3. ASSUME NEW c \in Sessions
          PROVE  session'[c].pc # "idle"
                   => session'[c].ask \in ReadInput /\ session'[c].answer = "none"
      BY <2>2 DEF ShownInv, SessionType
    <3>. QED
      BY <3>2, <3>3 DEF SessionType
  <2>4. ASSUME NEW c \in Sessions PROVE ShownOK(c)' /\ HistoryOK(c)'
    <3>1. CASE session'[c] = session[c]
      BY <2>1, <3>1, StillShown DEF ShownInv
    <3>2. CASE session'[c].pc = "idle" /\ session'[c].answer = "lost"
               /\ session'[c].shown = session[c].shown
      <4>1. ShownOK(c)'
        BY <1>2, <3>2 DEF Crash, dbVars, ShownInv, ShownOK, SeenBefore, historyOf, Rows
      <4>. QED
        BY <3>2, <4>1 DEF HistoryOK, WasShown
    <3>. QED
      BY <2>2, <3>1, <3>2
  <2>. QED
    BY <2>3, <2>4 DEF ShownInv
<1>3. ASSUME NEW c \in Sessions, ReadStep(c), UNCHANGED vars PROVE ShownInv'
  <2>1. ReadKind(c)
    BY <1>3, ReadKinds DEF ShownInv
  <2>2. ShownOK(c)' /\ HistoryOK(c)' /\ SessionType'
    BY <1>3, <2>1, KindShown, KindType DEF ShownInv
  <2>3. Growth
    BY <1>3, NextGrowth
  <2>4. OnlySession(c)
    BY <2>1 DEF ReadKind, ShowsNothing, Sends, Shows, ShowsRows
  <2>5. ASSUME NEW d \in Sessions, d # c PROVE ShownOK(d)' /\ HistoryOK(d)'
    <3>1. session'[d] = session[d]
      BY <2>4, <2>5 DEF OnlySession
    <3>. QED
      BY <2>3, <3>1, StillShown DEF ShownInv
  <2>. QED
    BY <2>2, <2>5 DEF ShownInv
<1>. QED
  BY <1>1, <1>2, <1>3 DEF ReadNext, readVars, Next, vars

LEMMA InitShownInv == ReadInit => ShownInv
  BY ReadAssumption DEF ReadInit, IdleSession, ShownInv, SessionType, Session, Answer, ShownOK, HistoryOK,
     WasShown

LEMMA ShownInvariant == ReadSpec => [](TypeInv /\ RowInv /\ StatusInv /\ ShownInv)
<1>1. [ReadNext]_readVars => [Next]_vars
  BY DEF ReadNext, readVars, Next
<1>2. ReadSpec => [][ReadNext]_readVars
  BY DEF ReadSpec
<1>. QED
  BY <1>1, <1>2, InitShownInv, NextShownInv, ReadsChangeNothing, ThreadsCorrect, RowInvariant,
     StatusInvariant, PTL DEF ReadSpec

\* Whoever reads a ticket and then its history finds the status explained, since
\* updateTicketStatus inserts the history row before it writes the ticket
\* (TicketService:139, 149), and no row is ever taken away.
THEOREM ShownStatusesAreExplained == ReadSpec => []HistoryExplainsShownStatus
<1>1. ShownInv => HistoryExplainsShownStatus
  BY DEF ShownInv, HistoryOK, HistoryExplainsShownStatus
<1>. QED
  BY <1>1, ShownInvariant, PTL

\* A person whose payload has nothing to trip the decoder of extractPayload on.
Readable(token) == ReadableAscii(token.payload) /\ token.sub # NoSub

LEMMA CutKeepsPayload ==
  ASSUME NEW q \in ReadInput
  PROVE  cutHeader(q).token.payload = q.token.payload /\ q.token.payload \in Seq(Byte)
<1>1. PICK form \in HeaderForm : form = q.form
  BY DEF ReadInput
<1>2. PICK token \in Token : token = q.token
  BY DEF ReadInput
<1>3. Damaged(token).payload = token.payload
  BY DEF Damaged, Token
<1>4. cutSubstring(form, token).token.payload = token.payload
  BY <1>3 DEF cutSubstring, HeaderForm, Cut, Answered
<1>5. cutReplace(form, token).token.payload = token.payload
  BY <1>3 DEF cutReplace, HeaderForm, Cut, Answered
<1>. QED
  BY <1>1, <1>2, <1>4, <1>5 DEF cutHeader, Token

\* The claim of such a person is found.
LEMMA ReadableIsExtracted ==
  ASSUME NEW q \in ReadInput, Admitted(q), Readable(q.token)
  PROVE  extractsSub(cutHeader(q).token)
<1>1. cutHeader(q).token.parts = 3
  BY DEF Admitted, validateJwt
<1>2. basicDecodes(cutHeader(q).token.payload)
  BY CutKeepsPayload, AsciiDecodes DEF Readable
<1>3. cutHeader(q).token.sub # NoSub
  BY CutKeepsSub DEF Readable
<1>. QED
  BY <1>1, <1>2, <1>3 DEF extractsSub

LEMMA OnlyReadsFail ==
  ASSUME SessionType, [ReadNext]_readVars, NEW c \in Sessions, Serves(c, "getMyTickets"),
         Readable(session[c].ask.token), session'[c].answer = "500"
  PROVE  ReadFails(c)
<1>1. /\ session \in [Sessions -> Session] /\ session[c] \in Session
      /\ session[c].pc = "start" /\ session[c].answer = "none"
      /\ session[c].ask \in ReadInput /\ session[c].ask.op = "getMyTickets"
      /\ Admitted(session[c].ask)
  BY DEF SessionType, Serves
<1>2. session'[c] # session[c]
  BY <1>1
<1>3. CASE LoseReads
  BY <1>1, <1>3 DEF LoseReads, Session
<1>4. ASSUME NEW d \in Sessions, ReadStep(d) PROVE ReadFails(c)
  <2>1. CASE d # c
    <3>1. session'[c] = session[c]
      BY <1>1, <1>4, <2>1
      DEF ReadStep, SendRead, RefuseRead, ListMyTickets, ShowTicket, FindTicket, ListRows,
          ReadFails, AnswerRead, AnswerRows
    <3>. QED
      BY <1>2, <3>1
  <2>2. CASE d = c
    <3>1. ~ SendRead(c) /\ ~ RefuseRead(c) /\ ~ ShowTicket(c) /\ ~ FindTicket(c) /\ ~ ListRows(c)
      BY <1>1 DEF SendRead, RefuseRead, ShowTicket, FindTicket, ListRows, Serves
    <3>2. ~ ListMyTickets(c)
      <4>1. extractsSub(cutHeader(session[c].ask).token)
        BY <1>1, ReadableIsExtracted
      <4>2. ASSUME NEW ids, AnswerRows(c, ids) PROVE FALSE
        BY <1>1, <4>2 DEF AnswerRows, Session
      <4>. QED
        BY <4>1, <4>2 DEF ListMyTickets
    <3>. QED
      BY <1>4, <2>2, <3>1, <3>2 DEF ReadStep
  <2>. QED
    BY <2>1, <2>2
<1>. QED
  BY <1>2, <1>3, <1>4 DEF ReadNext, readVars

\* The wrong Base64 alphabet of JwtUtils.extractPayload does not reach a person whose
\* payload is ASCII text without > ? ~ DEL at third places, however long it is,
\* however the header is cut and whatever requests do: getMyTickets serves them
\* unless a query throws.
THEOREM AsciiServed == ReadSpec => AsciiTokensAreServed
<1>1. ShownInv /\ [ReadNext]_readVars
        => [\A c \in Sessions :
              LET token == session[c].ask.token IN
              /\ Serves(c, "getMyTickets")
              /\ ReadableAscii(token.payload)
              /\ token.sub # NoSub
              /\ session'[c].answer = "500"
              => ReadFails(c)]_readVars
  BY OnlyReadsFail DEF ShownInv, Readable
<1>. QED
  BY <1>1, ShownInvariant, PTL DEF ReadSpec, AsciiTokensAreServed

-----------------------------------------------------------------------------
(* What a listing has. *)

SubIsProfileId == \A u \in ExternalId : SubOf[u] = u

\* The row of a request that was answered with success is in its listing.
LEMMA DueIsListable ==
  ASSUME SubIsProfileId, TypeInv, RowInv, NEW q \in ReadInput, NEW i \in Due(q)
  PROVE  Listable(q, i)
<1>1. ASSUME NEW r \in Requests, Succeeded(r), thread[r].pc # "idle"
      PROVE  /\ SavedOK(r) /\ thread[r].saved # NoId
             /\ thread[r].req.op \in {"createTicket", "updateTicketStatus", "sendMessage"}
  BY <1>1 DEF RowInv, SavedOK
<1>2. CASE q.op = "getMyTickets"
  <2>1. PICK r \in Requests : /\ Asks(r, "createTicket") /\ Succeeded(r) /\ thread[r].saved = i
                              /\ SubOf[thread[r].req.caller] = q.token.sub
    BY <1>2 DEF Due, AnsweredRows
  <2>2. /\ i \in DOMAIN ticketTable
        /\ userTable[ticketTable[i].creatoDa].externalId = thread[r].req.caller
    BY <1>1, <2>1 DEF Asks, SavedOK
  <2>3. ticketTable[i].creatoDa \in DOMAIN userTable
    BY <2>2 DEF TypeInv, TypeOK, DbTypeOK
  <2>4. userTable[ticketTable[i].creatoDa] \in UserRow
    BY <2>3, Elements DEF TypeInv, TypeOK, DbTypeOK
  <2>5. userTable[ticketTable[i].creatoDa].externalId = q.token.sub
    BY <2>1, <2>2, <2>4 DEF SubIsProfileId, UserRow
  <2>. QED
    BY <1>2, <2>2, <2>3, <2>5 DEF Listable, getMyTickets, findByCreatoDa_ExternalId,
       findByExternalId
<1>3. CASE q.op = "getTicketHistory"
  <2>1. PICK r \in Requests : /\ Asks(r, "updateTicketStatus") /\ Succeeded(r) /\ thread[r].saved = i
                              /\ thread[r].req.ticketId = q.ticketId
    BY <1>3 DEF Due, AnsweredRows
  <2>. QED
    BY <1>1, <1>3, <2>1 DEF Asks, SavedOK, Listable, historyOf
<1>4. CASE q.op = "getMessagesByTicket"
  <2>1. PICK r \in Requests : /\ Asks(r, "sendMessage") /\ Succeeded(r) /\ thread[r].saved = i
                              /\ thread[r].req.ticketId = q.ticketId
    BY <1>4 DEF Due, AnsweredRows
  <2>. QED
    BY <1>1, <1>4, <2>1 DEF Asks, SavedOK, Listable, messagesOf
<1>5. CASE q.op = "getTicketById"
  BY <1>5 DEF Due
<1>. QED
  BY <1>2, <1>3, <1>4, <1>5 DEF ReadInput, ReadOp

LEMMA KindDue ==
  ASSUME SubIsProfileId, TypeInv, RowInv, SessionType, NEW c \in Sessions, DueOK(c),
         UNCHANGED vars, ReadKind(c)
  PROVE  DueOK(c)'
<1> USE DEF vars, dbVars
<1>1. \A q, i : Listable(q, i) <=> Listable(q, i)'
  BY DEF Listable, getMyTickets, findByCreatoDa_ExternalId, findByExternalId, historyOf, messagesOf
<1>2. ASSUME session'[c].ask = session[c].ask, session'[c].due = session[c].due
      PROVE  \A i \in session'[c].due : Listable(session'[c].ask, i)
  BY <1>2 DEF DueOK
<1>3. CASE Sends(c)
  <2>1. \A i \in session'[c].due : Listable(session'[c].ask, i)
    BY <1>3, DueIsListable DEF Sends
  <2>. QED
    BY <1>3, <2>1 DEF Sends, DueOK, WasShown, Listable, getMyTickets, findByCreatoDa_ExternalId,
       findByExternalId, historyOf, messagesOf
<1>4. CASE ShowsNothing(c)
  BY <1>2, <1>4 DEF ShowsNothing, DueOK, WasShown, Listable, getMyTickets,
     findByCreatoDa_ExternalId, findByExternalId, historyOf, messagesOf
<1>5. CASE Shows(c)
  <2>1. session[c].due = {}
    BY <1>5 DEF Shows, DueOK, Listable
  <2>. QED
    BY <1>5, <2>1 DEF Shows, DueOK, WasShown
<1>6. ASSUME NEW ids, ShowsRows(c, ids), \A i : Listable(session[c].ask, i) => i \in ids
      PROVE  DueOK(c)'
  <2>1. session[c].due \subseteq ids
    BY <1>6 DEF DueOK
  <2>2. \A i \in session'[c].due : Listable(session'[c].ask, i)
    BY <1>2, <1>6 DEF ShowsRows
  <2>. QED
    BY <1>6, <2>1, <2>2 DEF ShowsRows, DueOK, WasShown, Listable, getMyTickets,
       findByCreatoDa_ExternalId, findByExternalId, historyOf, messagesOf
<1>7. CASE session[c].ask.op = "getMyTickets" /\ ShowsRows(c, getMyTickets(session[c].ask.token.sub))
  BY <1>6, <1>7 DEF Listable
<1>8. CASE /\ session[c].pc = "list" /\ session[c].ask.op # "getTicketHistory"
           /\ ShowsRows(c, messagesOf(session[c].ask.ticketId))
  BY <1>6, <1>8 DEF Listable, DueOK
<1>9. CASE session[c].ask.op = "getTicketHistory" /\ ShowsRows(c, historyOf(session[c].ask.ticketId))
  BY <1>6, <1>9 DEF Listable
<1>. QED
  BY <1>3, <1>4, <1>5, <1>7, <1>8, <1>9 DEF ReadKind

LEMMA NextDueInv ==
  ASSUME SubIsProfileId
  PROVE  TypeInv /\ RowInv /\ ShownInv /\ DueInv /\ [ReadNext]_readVars => DueInv'
<1> SUFFICES ASSUME TypeInv, RowInv, ShownInv, DueInv, [ReadNext]_readVars PROVE DueInv'
  OBVIOUS
<1>1. CASE [Next]_vars /\ UNCHANGED session
  BY <1>1, NextGrowth, StillDue DEF DueInv
<1>2. CASE Crash /\ UNCHANGED mailVars /\ LoseReads
  <2>1. Growth
    BY <1>2, NextGrowth DEF Next
  <2>2. ASSUME NEW c \in Sessions PROVE DueOK(c)'
    <3>1. CASE session'[c] = session[c]
      BY <2>1, <3>1, StillDue DEF DueInv
    <3>2. CASE session'[c] # session[c]
      <4>1. /\ session'[c].pc = "idle" /\ session'[c].answer = "lost"
            /\ session'[c].ask = session[c].ask /\ session'[c].due = session[c].due
        BY <1>2, <3>2 DEF LoseReads, ShownInv, SessionType, Session
      <4>. QED
        BY <1>2, <4>1 DEF DueInv, DueOK, WasShown, Crash, dbVars, Listable, getMyTickets,
           findByCreatoDa_ExternalId, findByExternalId, historyOf, messagesOf
    <3>. QED
      BY <3>1, <3>2
  <2>. QED
    BY <2>2 DEF DueInv
<1>3. ASSUME NEW c \in Sessions, ReadStep(c), UNCHANGED vars PROVE DueInv'
  <2>1. ReadKind(c)
    BY <1>3, ReadKinds DEF ShownInv
  <2>2. DueOK(c)'
    BY <1>3, <2>1, KindDue DEF ShownInv, DueInv
  <2>3. Growth
    BY <1>3, NextGrowth
  <2>4. OnlySession(c)
    BY <2>1 DEF ReadKind, ShowsNothing, Sends, Shows, ShowsRows
  <2>5. ASSUME NEW d \in Sessions, d # c PROVE DueOK(d)'
    BY <2>3, <2>4, <2>5, StillDue DEF OnlySession, DueInv
  <2>. QED
    BY <2>2, <2>5 DEF DueInv
<1>. QED
  BY <1>1, <1>2, <1>3 DEF ReadNext, readVars, Next, vars

\* A listing has every row whose request was answered before it was asked for,
\* whatever requests, crashes and database failures meet it (getMyTickets,
\* getTicketHistory, getMessagesByTicket).
THEOREM AnsweredMeansListed ==
  ASSUME SubIsProfileId PROVE ReadSpec => []AnsweredRowsAreListed
<1>1. ReadInit => DueInv
  BY DEF ReadInit, IdleSession, DueInv, DueOK, WasShown
<1>2. DueInv => AnsweredRowsAreListed
  BY DEF DueInv, DueOK, AnsweredRowsAreListed
<1>3. TypeInv /\ RowInv /\ ShownInv /\ DueInv /\ [ReadNext]_readVars => DueInv'
  BY NextDueInv
<1>. QED
  BY <1>1, <1>2, <1>3, ShownInvariant, PTL DEF ReadSpec
=============================================================================
