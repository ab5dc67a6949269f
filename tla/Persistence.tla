----------------------------- MODULE Persistence -----------------------------
(***************************************************************************)
(* The four PostgreSQL tables of the help desk and the JpaRepository        *)
(* methods the services call on them.  No method of the services is         *)
(* @Transactional, so each repository call is a transaction of its own and  *)
(* one atomic step of a request.                                            *)
(*                                                                          *)
(* A table is the sequence of its rows; a row's IDENTITY primary key is its *)
(* position.  A reference to another entity is the key of that row, NoId    *)
(* for a null reference and Transient for a Java object that was never      *)
(* saved and so has no key.  Columns nothing reads back (nome, titolo,      *)
(* descrizione, categoria, timestamps) are left out.                        *)
(***************************************************************************)
EXTENDS Integers, Sequences, FiniteSets

CONSTANTS
  ExternalId,       \* ids the user service gives to people
  InitialUsers,     \* app_user rows in the database when the service starts
  InitialTickets    \* ticket rows in the database when the service starts

VARIABLES
  userTable,
  ticketTable,
  historyTable,
  messageTable

dbVars == <<userTable, ticketTable, historyTable, messageTable>>

NoId == 0
Transient == -1

TicketStatus ==
  {"PRESO_IN_CARICO", "IN_LAVORAZIONE", "INFO_NECESSARIE", "RISOLTO", "CHIUSO"}

\* What matters of the text a client sends: TicketRequest.categoria names a
\* Categoria, MessageRequest.contenuto is there; or not.
Body == {"present", "missing"}

UserRow == [externalId : ExternalId]

TicketRow == [ticketStatus : TicketStatus, creatoDa : Nat, assegnatoA : Nat]

HistoryRow == [ticket : Nat, statoPrecedente : TicketStatus,
               statoSuccessivo : TicketStatus, modificatoDa : ExternalId]

MessageRow == [ticket : Nat, autoreId : ExternalId, contenuto : Body]

\* The database outlives the service (hibernate.ddl-auto=update) and may hold
\* rows that were put there by hand, assigned tickets among them.
ASSUME InitialRowsAssumption ==
  /\ InitialUsers \in Seq(UserRow)
  /\ InitialTickets \in Seq(TicketRow)
  /\ \A t \in DOMAIN InitialTickets :
       /\ InitialTickets[t].creatoDa \in DOMAIN InitialUsers
       /\ InitialTickets[t].assegnatoA \in DOMAIN InitialUsers \cup {NoId}

DbInit ==
  /\ userTable = InitialUsers
  /\ ticketTable = InitialTickets
  /\ historyTable = <<>>
  /\ messageTable = <<>>

-----------------------------------------------------------------------------
(* Queries. *)

\* Ids of the rows the query behind UserRepository.findByExternalId selects.
\* No column is declared unique, so there may be several.
findByExternalId(e) == {u \in DOMAIN userTable : userTable[u].externalId = e}

\* TicketRepository.findByCreatoDa_ExternalId: ids of the tickets of a person.
findByCreatoDa_ExternalId(e) ==
  {t \in DOMAIN ticketTable : ticketTable[t].creatoDa \in findByExternalId(e)}

\* TicketHistoryRepository.findByTicket_Id: the ids of a ticket's history rows.
historyOf(t) == {i \in DOMAIN historyTable : historyTable[i].ticket = t}

\* MessaggioRepository.findByTicket_Id: the ids of a ticket's messages.
messagesOf(t) == {m \in DOMAIN messageTable : messageTable[m].ticket = t}

-----------------------------------------------------------------------------
(* Writes: JpaRepository.save of a new entity inserts a row; of a loaded one *)
(* it merges and flushes.                                                    *)

insertUser(row)    == userTable' = Append(userTable, row)
insertTicket(row)  == ticketTable' = Append(ticketTable, row)
insertHistory(row) == historyTable' = Append(historyTable, row)
insertMessage(row) == messageTable' = Append(messageTable, row)

\* The flush refuses an entity that references an unsaved one: Ticket.creatoDa
\* and Ticket.assegnatoA are @ManyToOne without cascade.
Flushable(ticket) ==
  /\ ticket.creatoDa \in DOMAIN userTable
  /\ ticket.assegnatoA \in DOMAIN userTable \cup {NoId}

\* The flush of a loaded ticket: no UPDATE when nothing differs from what was
\* loaded, else an UPDATE of every column (the entity has neither @Version nor
\* @DynamicUpdate), whatever other requests committed in between.
updateTicket(id, loaded, ticket) ==
  ticketTable' = IF ticket = loaded THEN ticketTable
                                    ELSE [ticketTable EXCEPT ![id] = ticket]

-----------------------------------------------------------------------------
\* The tables hold well-formed rows and every foreign key refers to a row.
DbTypeOK ==
  /\ userTable \in Seq(UserRow)
  /\ ticketTable \in Seq(TicketRow)
  /\ historyTable \in Seq(HistoryRow)
  /\ messageTable \in Seq(MessageRow)
  /\ \A t \in DOMAIN ticketTable :
       /\ ticketTable[t].creatoDa \in DOMAIN userTable
       /\ ticketTable[t].assegnatoA \in DOMAIN userTable \cup {NoId}
  /\ \A i \in DOMAIN historyTable : historyTable[i].ticket \in DOMAIN ticketTable
  /\ \A m \in DOMAIN messageTable : messageTable[m].ticket \in DOMAIN ticketTable
=============================================================================
