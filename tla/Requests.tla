------------------------------- MODULE Requests -------------------------------
(***************************************************************************)
(* The life of an HTTP request: a Tomcat thread takes it, runs one method   *)
(* of a service and answers.  Between two repository calls or HTTP calls a  *)
(* thread keeps what it read in local entities; that is the state here.     *)
(***************************************************************************)
EXTENDS Persistence

CONSTANTS
  Requests,    \* identities of the requests of a behaviour
  Inputs,      \* what the clients may send
  Threads,     \* server.tomcat.threads.max: requests served at once
  Operators,   \* people whose profile has the role OPERATORE
  Nobody,      \* sender of a request whose token does not verify
  NoRequest,   \* content of a request not yet received
  NoTicket,    \* a null Ticket reference
  Faults       \* what may go wrong around the service in this instance

VARIABLE thread

Op == {"createTicket", "assegnaOperatore", "updateTicketStatus", "sendMessage"}

\* nuovoStato of a TicketStatusUpdateRequest: a constant of the enum, another
\* name, or absent from the JSON body.
Stato == TicketStatus \cup {"APERTO", "IN_ATTESA", "null"}

Input == [op : Op, caller : ExternalId \cup {Nobody}, ticketId : Nat,
          stato : Stato, body : Body]

PC == {"idle", "start", "profile", "findUser", "saveUser", "saveTicket",
       "saveAssignment", "saveHistory", "saveStatus", "saveMessage", "notify", "posted", "done"}

Answer == {"none", "lost", "200", "201", "400", "401", "403", "404", "500"}

\* pc: next step; req: the request; ticket: the loaded Ticket entity;
\* creatoDa: key of the User entity of createTicket.  Two history variables:
\* saved, the key of the row this request inserted (a ticket, a history row or a
\* message), and earlier, the requests that were over when this one was taken.
Thread == [pc : PC, req : Inputs \cup {NoRequest}, ticket : TicketRow \cup {NoTicket},
           creatoDa : Nat, saved : Nat, earlier : SUBSET Requests, answer : Answer]

FaultKinds == {"crash", "database", "userService", "notifications"}

ASSUME RequestAssumption ==
  /\ Inputs \subseteq Input
  /\ Operators \subseteq ExternalId
  /\ Nobody \notin ExternalId
  /\ NoRequest \notin Inputs
  /\ NoTicket \notin TicketRow
  /\ Threads \in Nat \ {0}
  /\ Faults \subseteq FaultKinds

IdleThread == [pc |-> "idle", req |-> NoRequest, ticket |-> NoTicket,
               creatoDa |-> NoId, saved |-> NoId, earlier |-> {}, answer |-> "none"]

RequestsInit == thread = [r \in Requests |-> IdleThread]

Over == {r \in Requests : thread[r].pc = "done"}

InFlight == {r \in Requests : thread[r].pc \notin {"idle", "done"}}

At(r, l, op) == thread[r].pc = l /\ thread[r].req.op = op

Goto(r, l) == thread' = [thread EXCEPT ![r].pc = l]

Reply(r, code) == thread' = [thread EXCEPT ![r] = [@ EXCEPT !.pc = "done", !.answer = code]]

\* JwtUtils.validateToken: whether the signature of the token verifies.
validateToken(q) == q.caller # Nobody

-----------------------------------------------------------------------------
\* The connector hands a request to a free thread.
Accept(r) ==
  /\ thread[r].pc = "idle"
  /\ Cardinality(InFlight) < Threads
  /\ \E q \in Inputs :
       thread' = [thread EXCEPT ![r] = [@ EXCEPT !.pc = "start", !.req = q, !.earlier = Over]]
  /\ UNCHANGED dbVars

\* GET /users/profile fails: the user service is down, answers an error or an
\* empty body, or refuses the token.  Nothing catches the exception.
getUserProfileFails(r) ==
  /\ thread[r].pc = "profile"
  /\ "userService" \in Faults \/ thread[r].req.caller = Nobody
  /\ Reply(r, "500")
  /\ UNCHANGED dbVars

\* GET /users/profile answers with the caller's profile.
getUserProfile(r, op) ==
  /\ At(r, "profile", op)
  /\ thread[r].req.caller # Nobody

\* Whether the next step of r is a repository call.
CallsRepository(r) ==
  \/ thread[r].pc \in {"findUser", "saveUser", "saveTicket", "saveAssignment",
                       "saveHistory", "saveStatus", "saveMessage"}
  \/ /\ thread[r].pc = "start"
     /\ thread[r].req.op # "createTicket"
     /\ validateToken(thread[r].req) \/ thread[r].req.op = "assegnaOperatore"

\* A repository call throws: its transaction is rolled back, those of the
\* calls before it are not.
DatabaseFails(r) ==
  /\ "database" \in Faults
  /\ CallsRepository(r)
  /\ Reply(r, "500")
  /\ UNCHANGED dbVars

\* The process stops and is started again: every request being served is lost,
\* the tables stay.
Crash ==
  /\ "crash" \in Faults
  /\ InFlight # {}
  /\ thread' = [r \in Requests |->
                  IF r \in InFlight
                  THEN [thread[r] EXCEPT !.pc = "done", !.answer = "lost"]
                  ELSE thread[r]]
  /\ UNCHANGED dbVars
=============================================================================
