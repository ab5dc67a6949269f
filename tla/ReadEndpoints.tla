---------------------------- MODULE ReadEndpoints ----------------------------
(***************************************************************************)
(* The four GET endpoints, used by people while the requests of HelpDesk    *)
(* change the tables under them.  A session sends one read after the other  *)
(* and remembers the last status it was shown.                              *)
(***************************************************************************)
EXTENDS HelpDesk, Tokens

CONSTANTS
  Sessions,     \* clients that read
  ReadInputs,   \* what they may send
  MaxReads,     \* how many reads a session sends
  NoRead        \* content of a session that has sent nothing yet

VARIABLE session

ReadOp == {"getMyTickets", "getTicketById", "getTicketHistory", "getMessagesByTicket"}

ReadInput == [op : ReadOp, ticketId : Nat, form : HeaderForm, token : Token]

ASSUME ReadAssumption ==
  /\ ReadInputs \subseteq ReadInput
  /\ NoRead \notin ReadInputs
  /\ NoSub \notin Subject
  /\ MaxReads \in Nat

Shown == [ticketId : Nat, status : TicketStatus]

\* ask: the last read; answer: what it was answered; rows: the ids it listed;
\* due: the ids it has to list (see Due); shown: the last TicketResponse of
\* getTicketById; sent: the number of reads.
Session == [pc : {"idle", "start", "list"}, ask : ReadInputs \cup {NoRead}, answer : Answer,
            rows : SUBSET Nat, due : SUBSET Nat, shown : Shown \cup {NoTicket}, sent : 0 .. MaxReads]

IdleSession == [pc |-> "idle", ask |-> NoRead, answer |-> "none",
                rows |-> {}, due |-> {}, shown |-> NoTicket, sent |-> 0]

readVars == <<vars, session>>

ReadInit == Init /\ session = [c \in Sessions |-> IdleSession]

AnswerRead(c, code) ==
  session' = [session EXCEPT ![c] = [@ EXCEPT !.pc = "idle", !.answer = code]]

AnswerRows(c, ids) ==
  session' = [session EXCEPT ![c] = [@ EXCEPT !.pc = "idle", !.answer = "200", !.rows = ids]]

-----------------------------------------------------------------------------
(* Sending. *)

\* The rows of requests that were answered with success: the read must list
\* those it is about.
AnsweredRows(op, Relevant(_)) ==
  {thread[r].saved : r \in {s \in Requests : Asks(s, op) /\ Succeeded(s) /\ Relevant(thread[s].req)}}

Due(q) ==
  LET SameTicket(w) == w.ticketId = q.ticketId
      SamePerson(w) == SubOf[w.caller] = q.token.sub
  IN CASE q.op = "getMyTickets"        -> AnsweredRows("createTicket", SamePerson)
       [] q.op = "getTicketHistory"    -> AnsweredRows("updateTicketStatus", SameTicket)
       [] q.op = "getMessagesByTicket" -> AnsweredRows("sendMessage", SameTicket)
       [] q.op = "getTicketById"       -> {}

SendRead(c) ==
  /\ session[c].pc = "idle"
  /\ session[c].sent < MaxReads
  /\ \E q \in ReadInputs :
       session' = [session EXCEPT ![c] =
         [@ EXCEPT !.pc = "start", !.ask = q, !.answer = "none", !.rows = {}, !.due = Due(q),
                   !.sent = session[c].sent + 1]]

-----------------------------------------------------------------------------
(* Handlers. *)

\* getMessagesByTicket cuts the header with replace, the others with substring.
cutHeader(q) ==
  IF q.op = "getMessagesByTicket" THEN cutReplace(q.form, q.token)
                                  ELSE cutSubstring(q.form, q.token)

\* Whether the handler of q gets past its token check.
Admitted(q) == cutHeader(q).answer = "none" /\ validateJwt(cutHeader(q).token)

RefuseRead(c) ==
  LET q == session[c].ask IN
  /\ session[c].pc = "start"
  /\ ~Admitted(q)
  /\ AnswerRead(c, IF cutHeader(q).answer = "none" THEN "401" ELSE cutHeader(q).answer)

Serves(c, op) == session[c].pc = "start" /\ session[c].ask.op = op /\ Admitted(session[c].ask)

\* Mutant of ListMyTickets: the tickets are looked up by the key of the person's row.
ListTicketsByKey(c) ==
  /\ Serves(c, "getMyTickets")
  /\ \/ /\ extractsSub(session[c].ask.token)
        /\ AnswerRows(c, {t \in DOMAIN ticketTable : ticketTable[t].creatoDa \in
                            {u \in findByExternalId(session[c].ask.token.sub) :
                               \A v \in findByExternalId(session[c].ask.token.sub) : u <= v}})
     \/ /\ ~extractsSub(session[c].ask.token)
        /\ AnswerRead(c, "500")

\* Nothing catches what extractExternalUserId throws.
ListMyTickets(c) ==
  LET token == cutHeader(session[c].ask).token IN
  /\ Serves(c, "getMyTickets")
  /\ \/ /\ extractsSub(token)
        /\ AnswerRows(c, getMyTickets(token.sub))
     \/ /\ ~extractsSub(token)
        /\ AnswerRead(c, "500")

ShowTicket(c) ==
  LET t == session[c].ask.ticketId IN
  /\ Serves(c, "getTicketById")
  /\ \/ /\ t \notin DOMAIN ticketTable
        /\ AnswerRead(c, "404")
     \/ /\ t \in DOMAIN ticketTable
        /\ session' = [session EXCEPT ![c] =
             [@ EXCEPT !.pc = "idle", !.answer = "200",
                       !.shown = [ticketId |-> t, status |-> ticketTable[t].ticketStatus]]]

\* findById of the two listings of a ticket.
FindTicket(c) ==
  /\ Serves(c, "getTicketHistory") \/ Serves(c, "getMessagesByTicket")
  /\ IF session[c].ask.ticketId \in DOMAIN ticketTable
     THEN session' = [session EXCEPT ![c].pc = "list"]
     ELSE AnswerRead(c, "404")

ListRows(c) ==
  LET q == session[c].ask IN
  /\ session[c].pc = "list"
  /\ AnswerRows(c, IF q.op = "getTicketHistory" THEN getTicketHistory(q.ticketId)
                                                ELSE getMessagesByTicket(q.ticketId))

\* A repository call of a read throws.
ReadFails(c) ==
  /\ "database" \in Faults
  /\ \/ session[c].pc = "list"
     \/ /\ session[c].pc = "start"
        /\ Admitted(session[c].ask)
        /\ session[c].ask.op = "getMyTickets" => extractsSub(cutHeader(session[c].ask).token)
  /\ AnswerRead(c, "500")

ReadStep(c) ==
  \/ SendRead(c) \/ RefuseRead(c) \/ ListMyTickets(c) \/ ShowTicket(c)
  \/ FindTicket(c) \/ ListRows(c) \/ ReadFails(c)

\* The reads being served when the process stops are lost like other requests.
LoseReads ==
  session' = [c \in Sessions |-> IF session[c].pc = "idle" THEN session[c]
                                 ELSE [session[c] EXCEPT !.pc = "idle", !.answer = "lost"]]

ReadNext ==
  \/ (\E r \in Requests : Step(r) \/ Received(r)) /\ UNCHANGED session
  \/ Crash /\ UNCHANGED mailVars /\ LoseReads
  \/ AllAnswered /\ UNCHANGED session
  \/ (\E c \in Sessions : ReadStep(c)) /\ UNCHANGED vars

ReadSpec == ReadInit /\ [][ReadNext]_readVars

-----------------------------------------------------------------------------
(* Properties. *)

\* Whether the last read of c was one of op, answered with success.
WasShown(c, op) ==
  /\ session[c].pc = "idle"
  /\ session[c].answer = "200"
  /\ session[c].ask.op = op

\* The history shown to somebody explains the status they were shown before:
\* updateTicketStatus inserts the history row first, so of two reads, ticket
\* then history, the second knows about the status of the first.
HistoryExplainsShownStatus ==
  \A c \in Sessions :
    LET t == session[c].ask.ticketId IN
    WasShown(c, "getTicketHistory") /\ session[c].shown # NoTicket /\ session[c].shown.ticketId = t
      => session[c].shown.status \in
           {StartStatus(t)} \cup {historyTable[i].statoSuccessivo : i \in session[c].rows}

\* A listing has every row whose request had been answered with success before
\* the listing was asked for, whatever other requests do meanwhile.
AnsweredRowsAreListed ==
  \A c \in Sessions, op \in ReadOp : WasShown(c, op) => session[c].due \subseteq session[c].rows

\* Bytes of ASCII text whose third, sixth, ... is none of > ? ~ and DEL.
ReadableAscii(bytes) ==
  \A i \in DOMAIN bytes : bytes[i] < 128 /\ (i % 3 = 0 => bytes[i] \notin {62, 63, 126, 127})

\* getMyTickets of a person whose token verifies and has such a payload, of whatever
\* length, ends in a server error only because a query throws: the wrong Base64
\* alphabet of JwtUtils.extractPayload does not show in it.
AsciiTokensAreServed ==
  [][\A c \in Sessions :
       LET token == session[c].ask.token IN
       /\ Serves(c, "getMyTickets")
       /\ ReadableAscii(token.payload)
       /\ token.sub # NoSub
       /\ session'[c].answer = "500"
       => ReadFails(c)]_readVars

\* "Restituisce la lista dei ticket creati dall'utente autenticato"
\* (TicketController:60): with all services up, a person with a valid token is
\* given the list.
ValidTokensAreGivenTheList ==
  \A c \in Sessions :
    LET q == session[c].ask IN
    /\ session[c].pc = "idle"
    /\ q # NoRead
    /\ q.op = "getMyTickets"
    /\ q.form = "Bearer"
    /\ validateJwt(q.token)
    /\ q.token.sub # NoSub
    => session[c].answer = "200"
=============================================================================
