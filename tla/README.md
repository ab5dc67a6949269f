# Verification of the UniMol help desk service

TLA+ models, TLC runs and TLAPS proofs for the Spring Boot service under
`src/src/main/java/it/unimol/newunimol/helpdesk/` (paths below are relative to it). The rest
of the repository is a vendored JDK, which is not the program's own code.

## The system

| part | state it keeps | operations | interacts with |
|---|---|---|---|
| `controller/TicketController` | none | 8 endpoints under `/api/v1/tickets` | calls the two services |
| `service/TicketService` | none between requests; local entities during one | `createTicket`, `getMyTickets`, `getTicketById`, `assegnaOperatore`, `updateTicketStatus`, `getTicketHistory` (and two methods without a caller) | repositories, `UserClient`, `NotificationService` |
| `service/MessageService` | as above | `sendMessage`, `getMessagesByTicket` | the same |
| `service/NotificationService`, `client/NotificationClient` | none | three kinds of notification, a blocking POST | the notification service |
| `client/UserClient` | none | GET of the caller's profile (id, role) | the user service |
| `security/JwtUtils` | the public key | verify a token, read its `sub` | - |
| `mapper/*`, `dto/*` | none | copy fields; `toEntity` sets the first status | - |
| `model/*`, `repository/*` | tables `app_user`, `ticket`, `ticket_history`, `messaggio` | save, find | PostgreSQL through Hibernate |
| `config/RestTemplateConfig` | none | a `RestTemplate` without timeouts | the two clients |
| Tomcat, Hikari (by default) | request threads, JDBC connections | take, give back | every request |

The README of the repository also names RabbitMQ; there is no code for it. There are no tests.

**What is hard in it.** Requests run in parallel on Tomcat's threads. No service method is
`@Transactional`, so every repository call commits on its own and a request is a sequence of
transactions with HTTP calls in between; entities have no `@Version`, so a save writes what was
read long ago; `app_user` has no unique constraint; the association to the operator has no
cascade; nothing retries, nothing compensates, and a notification is posted after the commit.
`application.properties` leaves open-in-view on and the pools at their defaults, so a request keeps
its connection while it waits for another service, for ever if that hangs.
`PROJECT.json` lists the hazards line by line. For each part, what makes it correct:

* **Tickets and history**: a status is never without a trace; a history row starts from a status
  the ticket had, and from none that had been replaced for good before the update was asked for;
  where the updates of a ticket do not overlap, one that was acknowledged holds until the next,
  and the history is a journal in which only unacknowledged changes turn out void.
* **Opening**: people find the tickets they opened; a person has one row.
* **Messages and notifications**: what is told is true, told at most once, and told before the
  request is answered with success.
* **Reads**: what a person is shown first is explained by what they are shown next; a list has
  what was answered with success before.
* **Tokens**: a person whose token the issuer signed is served.
* **Threads and connections**: every handler ends and frees both, and waiting for a connection
  ends although another request never gives its own back.

## Modules

    Persistence            tables, queries, inserts, the flush of a loaded ticket
      Requests             a thread per request, its local state, faults around it
        Notifications      NotificationService + NotificationClient
          TicketService    createTicket, assegnaOperatore, updateTicketStatus
            MessageService sendMessage
              HelpDesk     Init, Next, Spec, the properties
                HelpDeskClaims       what the documentation says and the code does not do
                HelpDeskRefinement   refinement of AuditTrail and of StatusJournal
                HelpDeskInvariants   the inductive invariants
                  HelpDeskApart      HelpDesk among clients that keep apart; extends
                                     HelpDeskRefinement too
                  ConnectionPool     HelpDesk with JDBC connections and calls that hang
                  HelpDeskProofs             type correctness
                    HelpDeskStatusProofs     statuses and history rows
                      HelpDeskRefinementProofs   HelpDesk implements AuditTrail
                    HelpDeskRowProofs        rows and requests, lists, notifications
                      HelpDeskUpToDateProofs how old a status can be
                      HelpDeskApartProofs    clients that keep apart; extends
                                             HelpDeskRefinementProofs too
                    ConnectionPoolProofs
                ReadEndpoints        HelpDesk with the four GET endpoints; uses Tokens
                  ReadEndpointsProofs
    Tokens                 the Authorization header, JwtUtils, the two Base64 alphabets
    AuditTrail, StatusJournal   abstract specifications
    MCHelpDesk, MCReadEndpoints, MCConnectionPool   instances for TLC

State and code:

* `userTable`, `ticketTable`, `historyTable`, `messageTable` are the tables; a row's position is its
  IDENTITY key. Columns nothing reads back are left out (name, title, description, category,
  timestamps). A reference to an entity is its key, `NoId` for null, `Transient` for a Java object
  that was never saved.
* `thread[r]` is one HTTP request: `pc` the next repository or HTTP call, `req` what the client
  sent, `ticket` the loaded entity (a copy: other requests do not change it), `creatoDa` the key of
  the person's row, `answer` the status code. Two fields are history variables that no guard reads:
  `saved`, the key of the row the request inserted, and `earlier`, the requests that were over when
  this one was taken, which is what its client can know of. A request's `caller` is the id in the
  profile the user service answers for its token; `Nobody` has a token that does not verify.
* `underway` are the requests whose POST has left and not been received, `delivered` those whose
  POST the notification service has received, in order. What a request posts is `notifica(r)`, made
  from the entity it holds, which does not change once its row is inserted.

An action is the code from one repository or HTTP call up to the next, so that every point at
which another request can get in between is a state. Each call is one transaction, hence atomic.
`save` of a loaded ticket is `updateTicket`: no UPDATE if the entity is unchanged, all columns
otherwise, refused (`Flushable`) when it references an unsaved `User`. That is what happens to
every assignment, so an assigned ticket exists only when its row was put into the database by
other means, as the API collection in the repository describes for its demonstration;
`InitialUsers` and `InitialTickets` hold such rows.

The environment: `Accept` is Tomcat giving a request to a free thread; `getUserProfileFails`,
`DatabaseFails` and `inviaNotificaFails` are the exceptions of the calls, which nothing catches. A
POST leaves with `inviaNotifica` and is received by a step of its own, `Received`, which may come at
once, after the call that sent it threw or was lost in a crash, or never; the call returns
(`inviaNotificaReturns`) only once it has been received. `Crash` loses all requests being served and
keeps the tables and the POSTs underway. `Faults` says which of them an instance has. The exception
of an empty profile body is part of `getUserProfileFails`.

`ReadEndpoints` adds `session[c]`, a client that sends one GET after the other: `ask` is the read,
`rows` the ids it listed, `shown` the last `TicketResponse` of `getTicketById`, `due` the rows that
had been answered with success when the read was sent. A listing of a ticket is two steps,
`findById` and the query, with other requests in between. `SendRead` is the client; `RefuseRead`,
`ListMyTickets`, `ShowTicket`, `FindTicket` and `ListRows` are the code; `ReadFails` is a query that
throws and `LoseReads` the part of the crash that hits reads. The tables change only by the steps of
`HelpDesk`.

`Tokens` has no state. A header has one of five forms, which `substring(7)` and `replace` treat
differently (`cutSubstring`, `cutReplace`); a token that lost or gained characters no longer
verifies. Base64 is modelled by what it does: bytes in groups of three become sextets, the two
alphabets differ in the symbols of 62 and 63, and `basicDecodes` says whether the basic decoder of
`extractPayload` reads what an issuer of JWTs wrote in the URL alphabet.

`ConnectionPool` adds `connections` (the requests that hold one) and `hung` (those whose call never
returns). A request needs a free connection for its first repository call and keeps it until it is
answered; `ConnectionTimeout` is Hikari giving up, which the handler sees as a repository call that
throws; `Hang` is a call of a service that is never answered, whether a POST that it made is
received or not. Only a restart ends it. The configuration has 200 threads and 10 connections, the
run 2 and 1: what matters is that there are more of the first. Reads take connections as well, but
hold them across no call, so they are not part of this module.

`HelpDeskApart` restricts the clients, not the code: `ApartSpec` has the behaviours of `HelpDesk`
in which two updates of one ticket never run at once, nor do two openings of one person; all other
requests overlap as they like, and any fault may happen. The service does not enforce this. It is
what an operator gets who waits for an answer, or learns that it is lost, before anybody updates
the same ticket again. It is as little as the properties of `outages` need: `history_race` and
`opening_race` refute what they say of a single update or opening with nothing but one such
overlap. What happens to overlapping updates is the subject of `status`, above all of
`HistoryIsUpToDate`: the loss of a concurrent update is bounded by what its client was told.

`AuditTrail` is what the help desk keeps of its promise to trace changes under every
interleaving and fault: the log only grows, its entries start from statuses the ticket was given,
and a ticket only gets statuses the log gives it. `StatusJournal` is what a reader of the history
of a service that can fail may expect: change and entry are one step, an entry starts from the
status the ticket has, and a change may turn out void only while its client has not been told
that it succeeded (`confirmed`) and no other change of the ticket has followed. `HelpDesk`
implements the first always, and the second, under every fault, when updates of one ticket do not
overlap. `HelpDeskRefinement` has both mappings; for the journal, an update that has its history
row but has not written its ticket counts as done, until it fails or is lost in a crash (`Void`).

## Runs

`anna` is a student, `olga` and `omar` operators, `omar` has no row yet.

| run | shows |
|---|---|
| `status` | `TypeOK`, `StatusIsRecorded`, `HistoryIsExplained`, `EveryRowHasOneRequest`, `HeldStatusesOK` (part of an inductive invariant), `HistoryIsUpToDate`, `ImplementsAuditTrail`; updates, messages and openings, three at once, crashes, failing database and notification service |
| `opening` | `MyTicketsAreListed`; four requests to open or to take a ticket, three at once, failures of database and user service, crashes |
| `outages` | `OneRowPerPerson`, `AcknowledgedUpdatesHold`, `ImplementsStatusJournal`; `ApartSpec`, requests of every kind, three at once, all faults |
| `pool` | `ConnectionsAreGivenBack`, `NotificationsAreTrue`, `NotifiedAtMostOnce`, `ToldBeforeAnswered`, `AnsweredUnlessHung`, `WorkRunsOut`, `ImplementsHelpDesk`; two threads, one connection, services that fail or hang, POSTs received late or never, crashes |
| `reads` | `HistoryExplainsShownStatus`, `AnsweredRowsAreListed`, `AsciiTokensAreServed`; two reads with any header and token among updates, messages and openings, database failures, crashes |

Runs that TLC refutes, each a sentence of the documentation, an annotation or a signature that
the code does not keep (the quotations are in `PROJECT.json`, "findings"):

| run | what happens |
|---|---|
| `history_race` | two overlapping updates: the second history row starts from a status that had been replaced |
| `history_cut` | history row committed, ticket not |
| `opening_race` | two first requests of a person make two rows, and `findByExternalId` throws from then on |
| `take` | `assegnaOperatore` always ends in 500: the operator is a transient entity |
| `null_status` | an update without `nuovoStato`, documented as 400, is answered 500 |
| `stub` | with the stub of the user service the API collection documents, whose profile id is not the `sub` claim, a person does not find the ticket they opened |
| `token` | a valid token with `?` or `~` or a letter outside ASCII at the wrong place of its payload makes `getMyTickets` answer 500 |

Divergences seen in the code that have no run of their own: the notification is a blocking POST
whose exception becomes the answer of a committed change (`inviaNotificaFails`), where `src/README.md`
line 34 has "Invio asincrono di notifiche"; `assegnaOperatore` does not validate
the token and answers 500 where 401 is documented (`Nobody` in `getUserProfileFails`); an
unknown category is answered 500 (`createTicketSaveTicket`); `APERTO` and `IN_ATTESA` of the
README are not in the enum and are refused; a message without content is stored
(`sendMessageSave`); and the controllers and services ask a valid token of whoever reads a
ticket, its history or its messages, or writes a message, and the operator role of whoever updates
a ticket, but not that the ticket is theirs or assigned to them (`TicketController` 73-77, 105,
126-131, 149-153), which is how the actions have it.

`opening` shows the other side of `opening_race`: even with several rows per person the list is
complete, because `findByCreatoDa_ExternalId` joins on the external id, provided the `sub` of the
token is the profile id (`SubIsProfileId`); `stub` is the same property without this.

**Bounds.** Every constant of a run is in its cfg. Requests are finite in number, three or four, and
that bounds the tables, the history and the notifications; no counter needs another bound. Three
requests at once are enough for the races of the code: it takes two to make an entity stale, or to
give a person two rows, and a third to meet the result. `opening` has four, because what it looks
for shows in a request after the damage. One ticket is contended in `status`; id 4 exists only once
a concurrent `createTicket` has committed, so that the 404 and the found case both occur. Olga
updates ticket 2 to a status and to the one it began with, because a save that writes nothing is the
case in which an old status comes back. Ticket 9 never exists. Requests are interchangeable, so
their permutations are a symmetry of specification and properties alike; it is used where only
safety is checked (the refinements have no fairness and their mappings single out no request). In
`outages` two updates of ticket 2 follow each other while a third request of another kind, or for
another ticket, runs with each: an update that follows one cut short is the second. `reads` has two
requests and two reads: a read is two steps at most, so one update in flight gets between them and
another between the reads. Its payloads have two to seven bytes, enough for each of the symbols 62
and 63 to fall in and out of the place where it matters. `pool` has three requests, for two that
share threads and connection and one that is still waiting for a thread; and for an update and a
message whose POSTs arrive in either order, and a request that is sent after the answer to another.
One known user, anna, has two rows in `reads`, so that a list by person and a list by row differ.

**Deadlock** is checked in every run; `AllAnswered` is the stuttering of a service whose clients
have nothing more to send.

**Fairness.** `PoolFairSpec` asks weak fairness of each request's next step unless its call hangs,
and of the connection timeout: the JVM schedules runnable threads, the connector serves the queue,
Hikari's timeout (30 s by default) expires. For a handler that waits for its POST this means that it
throws, or that the POST is received (`PostReturns`) and the call returns. That a call of another
service returns is not assumed: `RestTemplateConfig` sets no timeout, and `Hang` may happen to any.
No fairness is asked of `Hang` or the crash. Fairness forces no fault: wherever a call can fail it
can also succeed, so the fair step may be either; the one exception is a token that does not verify,
which the user service always refuses. `AnsweredUnlessHung` therefore says what is left: a request
is answered, or its own call hangs, or all threads hang and it is never taken.

## Proofs

For every set of people, inputs, initial rows that satisfy the foreign keys
(`InitialRowsAssumption`), requests, threads and faults (`RequestAssumption`):

| theorem | statement |
|---|---|
| `TypeCorrect` | `Spec => []TypeOK` |
| `NoStatusWithoutTrace` | `Spec => []StatusIsRecorded` |
| `NoUnexplainedHistory` | `Spec => []HistoryIsExplained` |
| `HeldStatusesAreRecorded` | `Spec => []HeldStatusesOK` |
| `NoOutdatedHistory` | `Spec => []HistoryIsUpToDate` |
| `HistoryIsAuditTrail` | `Spec => ImplementsAuditTrail` |
| `RowsAreAsked` | `Spec => []EveryRowHasOneRequest` |
| `TicketsAreFound` | `Spec => []MyTicketsAreListed`, if the `sub` claim is the profile id |
| `ToldTheTruth`, `ToldOnce` | `Spec => []NotificationsAreTrue`, `Spec => []NotifiedAtMostOnce` |
| `AnsweredHaveTold` | `Spec => []ToldBeforeAnswered` |
| `PersonsHaveOneRow` | `ApartSpec => []OneRowPerPerson`, if it is so at the start |
| `AcknowledgedStays` | `ApartSpec => []AcknowledgedUpdatesHold` |
| `ApartIsStatusJournal` | `ApartSpec => ImplementsStatusJournal` |
| `PooledServiceIsHelpDesk` | `PoolSpec => ImplementsHelpDesk`, so what is proved of `Spec` holds of it |
| `NoConnectionIsLost` | `PoolSpec => []ConnectionsAreGivenBack` |
| `WorkGetsLess` | `PoolSpec => WorkRunsOut` |
| `ShownStatusesAreExplained` | `ReadSpec => []HistoryExplainsShownStatus` |
| `AnsweredMeansListed` | `ReadSpec => []AnsweredRowsAreListed`, if the `sub` claim is the profile id |
| `AsciiServed` | `ReadSpec => AsciiTokensAreServed` |

`PersonsHaveOneRow`, `AcknowledgedStays` and `ApartIsStatusJournal` are about `ApartSpec` because
the code does not keep clients apart; `history_race` and `opening_race` show what happens when
nobody does. No theorem excludes a fault.

*Types.* `TypeOK` is not inductive: to see that a save writes a well-formed row one must know
what the handler read, and that it still fits the table. `TypeInv` adds what every program point
may rely on (`ThreadsOK`) and that the entity a handler holds agrees with its row in creator and
assignee (`EntitiesOK`). It is preserved because tables only grow and no step changes creator or
assignee (`TablesGrow`): a status update writes back what it read, and `assegnaOperatore` is
always refused (`AssegnaOperatoreIsRefused`). `Frame` carries this over to the other threads once
for all actions, and each action has to show only what it does to its own thread.

*History.* `StatusInv` adds that the status a handler holds is among those the history has recorded
(`HeldStatusesOK`). It is needed because the entity may be old: what was recorded stays recorded
(`SeenGrows`), so however stale the entity, the row made from it is explained. `StepKinds` sorts
the actions into five kinds (quiet, load, open, insert history, write ticket), and both the
invariant and the refinement are proved kind by kind.

*Rows.* `RowInv` says what `saved` means at each step: a handler inserts once, the row says what its
request asked for, no two requests have the same row and each row has a request. Lists follow.

*Notifications.* `MailInv` says that a POST leaves once, late in a handler that has its row
(`PostedOK`), is received at most once, and that the entity it is made from still agrees with its
ticket in creator and assignee (`KeptOK`), whoever has changed the ticket since and however late
it is received. With `RowInv` a notification is true when it leaves and stays so, and no two are
about one row. `ToldInv` has the order: a handler that waits for its call has sent its POST, and
the call returns only when that has been received; a request whose `earlier` holds the answered
one cannot have been in `delivered` by then, because it had not been taken (`EarlierOver`).

*How old a status can be.* `HistoryIsUpToDate` speaks of a row and of what its client could know. It
is inductive only with the same statement about the entities of running handlers
(`EntitiesAreUpToDate`) and about the tickets (`StatusIsUpToDate`): `MayFind(t, v, n, A)` says that
`v` is what some update asked for that none of the updates `A` was sent after. For a ticket, `A`
holds the updates that have written it (`Settled`), acknowledged or not, and those whose entity
has another status by now (`Outdated`): if such an update asks for the status its entity has, its
save writes nothing and yet it settles, which is harmless only because it was counted before. A
write makes the writer the witness for its ticket: no settled update can have been sent after the
writer was over, since it is not over (`EarlierOver`).

*Clients that keep apart.* Even for `ApartSpec` the history is no chain under faults: an update that
is cut short leaves a row whose status its ticket never got, and the next row starts from the status
before. `ApartInv` therefore says where a row *leaves* its ticket (`EndsIn`): at the status it ends
in or, if its update was cut short (`CutShort`), at the one it starts from. Each row starts where
the one before left the ticket (`ChainOK`); the ticket is where the newest row left it, unless an
update is half done (`WrittenOK`), whose row is the newest and starts from the entity (`PendingOK`);
the entity of a running update equals the row in the table, which is where keeping apart comes in
(`CurrentOK`); and an update that was cut short was not acknowledged, and only a crash or the
database cuts one short (`CutOK`). `ApartFrame` carries all of this over steps that only move
threads along, so that four kinds of step are left: opening, inserting the history row, writing the
ticket, and what cuts an update short. What an acknowledged row leaves open is nothing
(`CutIsNotAcknowledged`), which gives `AcknowledgedUpdatesHold`. For the journal each step is mapped
by its kind: the insert of the history row is `Change`, the answer of success is `Confirm`, which
needs that the row is still the newest of its ticket (`PendingOK`), a failure of the second
transaction is `Void` of one entry, and a crash is `Void` of those of all requests at `saveStatus`.
A person who was looked up in vain is still unknown at the insert (`NewPersonInv`).

*Connections.* A pooled step is a step of `HelpDesk`, and a timeout is `DatabaseFails`.
`ConnectionsAreGivenBack` is inductive given `TypeInv`; the pool's bound follows because a
connection is only taken when one is free. `WorkRunsOut` compares, action by action, the calls a
handler still has to make (`CallsLeft`) and the POST that is underway before and after: an
exception, a timeout and a crash end a request, the paths of a handler lead on, a call that hangs is
half made, and no step puts another request back.

*Reads.* `ShownInv` ties what a session was shown to the tables: a status that was recorded stays
recorded, and a history that was listed after it has the row. `DueInv` says the rows due were
there when the read was sent, so they are when it is answered. `AsciiServed` goes through the
steps a session in `start` can see: only `ListMyTickets` and a failing query end in 500, and the
first does not, since `AsciiGroup`, the arithmetic of one group of three bytes, makes the payload
decodable and cutting the header leaves the claims alone (`CutKeepsPayload`). That the reads change
no table is in the form of `ReadNext` and stays a lemma.

*Only model-checked*: `AnsweredUnlessHung`, since liveness under fairness is beyond the prover.
What can be proved of it is: `WorkRunsOut` bounds the number of steps, so that what TLC's
run adds is that fair steps are enabled until each request is answered or hangs. Each property of
the other passing runs has a theorem.

## Not modelled

The text of notifications and responses; an unreadable public key, which ends the service at its
first token; a profile without an id or a role; `addTicketHistory`, which nothing calls; clients
that repeat a request on their own (the API gives a request no identity, so a repetition is one
more request, which the runs have); reads waiting for a connection; RabbitMQ, which has no code.
Database constraints other than keys are not declared by the entities. The copying of fields by
the mappers and the DTOs has no state.

## Plan

The four parts of the first plan are done: the connection pool, tokens, the read endpoints, and
the proofs of the properties that were only model-checked. The theorems about one request
at a time have become theorems about clients that keep apart, those about clients that
keep apart without faults have become theorems under every fault, and POSTs have become messages
that arrive late. What could follow:

* the part of `AnsweredUnlessHung` that is a safety property: a request waits for a connection
  only while others hold them all, and for a thread only while all are busy;
* reads that take connections in `ConnectionPool`, and the order of notifications of overlapping
  updates, should the service ever promise one.
