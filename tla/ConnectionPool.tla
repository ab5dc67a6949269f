---------------------------- MODULE ConnectionPool ----------------------------
(***************************************************************************)
(* HelpDesk with what it shares besides the tables: a pool of JDBC          *)
(* connections.  Under open-in-view, which application.properties leaves    *)
(* on, a request keeps the connection of its first repository call until it *)
(* is answered, the calls of the other services included; and these may     *)
(* hang, since the RestTemplate has no timeouts.                            *)
(***************************************************************************)
EXTENDS HelpDeskInvariants

CONSTANTS
  PoolSize,    \* spring.datasource.hikari.maximum-pool-size
  Hanging      \* the services that may take a call and never answer it

\* A pool that can run dry is a database that can fail.
ASSUME PoolAssumption ==
  /\ PoolSize \in Nat \ {0}
  /\ Hanging \subseteq {"userService", "notifications"}
  /\ "database" \in Faults

VARIABLES
  connections,   \* the requests that have a connection
  hung           \* the requests whose thread waits for a call that hangs

poolVars == <<vars, connections, hung>>

PoolInit == Init /\ connections = {} /\ hung = {}

NeedsConnection(r) == CallsRepository(r) /\ r \notin connections

PoolIsEmpty == Cardinality(connections) >= PoolSize

\* Mutant of ConnectionsAfter: an exception leaves the connection where it is.
ConnectionsAfterSuccess(r) ==
  IF Succeeded(r)' THEN connections \ {r}
  ELSE IF CallsRepository(r) THEN connections \cup {r} ELSE connections

\* Who has a connection after a step of r: it is taken at the first repository
\* call and given back with the answer, whichever that is.
ConnectionsAfter(r) ==
  IF thread'[r].pc = "done" THEN connections \ {r}
  ELSE IF CallsRepository(r) THEN connections \cup {r} ELSE connections

PooledStep(r) ==
  /\ r \notin hung
  /\ NeedsConnection(r) => ~PoolIsEmpty
  /\ Step(r)
  /\ connections' = ConnectionsAfter(r)
  /\ UNCHANGED hung

\* Mutant of ConnectionTimeout: getConnection waits without a limit.
ConnectionAwaited(r) ==
  /\ NeedsConnection(r)
  /\ PoolIsEmpty
  /\ UNCHANGED poolVars

\* Mutant of ConnectionTimeout: the request goes back to the connector's queue.
ConnectionRequeued(r) ==
  /\ NeedsConnection(r)
  /\ PoolIsEmpty
  /\ thread' = [thread EXCEPT ![r] = IdleThread]
  /\ UNCHANGED <<dbVars, mailVars, connections, hung>>

\* getConnection gives up after spring.datasource.hikari.connection-timeout; the
\* repository call throws.
ConnectionTimeout(r) ==
  /\ NeedsConnection(r)
  /\ PoolIsEmpty
  /\ Reply(r, "500")
  /\ UNCHANGED <<dbVars, mailVars, connections, hung>>

\* A call never returns, whether the service receives a POST or not; only a restart
\* of the help desk frees the thread.
Hang(r) ==
  /\ r \notin hung
  /\ \/ "userService" \in Hanging /\ thread[r].pc = "profile"
     \/ "notifications" \in Hanging /\ thread[r].pc = "posted"
  /\ hung' = hung \cup {r}
  /\ UNCHANGED <<vars, connections>>

PooledReceived(r) == Received(r) /\ UNCHANGED <<connections, hung>>

PooledCrash ==
  /\ Crash
  /\ connections' = {}
  /\ hung' = {}
  /\ UNCHANGED mailVars

PoolNext ==
  \/ \E r \in Requests :
       PooledStep(r) \/ ConnectionTimeout(r) \/ Hang(r) \/ PooledReceived(r)
  \/ PooledCrash
  \/ AllAnswered /\ UNCHANGED <<connections, hung>>

PoolSpec == PoolInit /\ [][PoolNext]_poolVars

\* A call that returns because its POST is received.
PostReturns(r) == thread[r].pc = "posted" /\ r \notin hung /\ PooledReceived(r)

\* Threads that do not hang are scheduled, a call that does not hang returns or
\* throws, and the pool's timeout expires.
PoolFairSpec ==
  /\ PoolSpec
  /\ \A r \in Requests : WF_poolVars(PooledStep(r) \/ ConnectionTimeout(r) \/ PostReturns(r))

-----------------------------------------------------------------------------
(* Properties. *)

\* No connection is lost on any path of a handler, exceptions and crashes
\* included: exactly the running handlers that have been at the database hold
\* one.  A createTicket has called the user service by then; the others hold it
\* during that call.
ConnectionsAreGivenBack ==
  /\ connections =
       {r \in Requests : HoldsTicket(r) \/ thread[r].pc \in {"saveUser", "saveTicket"}}
  /\ Cardinality(connections) <= PoolSize
  /\ hung \subseteq {r \in Requests : thread[r].pc \in {"profile", "posted"}}

\* Requests that wait for a connection never wait on each other, or for ever on
\* one that hangs: each request is answered unless its own call hangs, or it was
\* never taken because the calls of all threads do.
AnsweredUnlessHung ==
  \A r \in Requests :
    <>(thread[r].pc = "done" \/ r \in hung \/ (thread[r].pc = "idle" /\ Cardinality(hung) = Threads))

\* The most steps a handler still makes, waiting for a thread first.
CallsLeft ==
  [pc \in PC |->
     CASE pc = "done" -> 0
       [] pc \in {"posted", "saveTicket"} -> 1
       [] pc \in {"notify", "saveUser"} -> 2
       [] pc \in {"saveStatus", "saveMessage", "saveAssignment", "findUser"} -> 3
       [] pc = "saveHistory" -> 4
       [] pc = "profile" -> 5
       [] pc = "start" -> 6
       [] pc = "idle" -> 7]

\* The work left to request r, and to its POST; a call that hangs is half made.
Left(r) ==
  3 * CallsLeft[thread[r].pc] + (IF r \in underway THEN 1 ELSE 0) - (IF r \in hung THEN 1 ELSE 0)

\* Nothing is ever made again, after an exception, a timeout or a crash: each
\* step brings a request closer to its answer and sets no other back.  With
\* finitely many requests the service comes to rest by itself, so what could
\* keep one from its answer is waiting and no endless loop.
WorkRunsOut ==
  [][/\ \A r \in Requests : Left(r)' <= Left(r)
     /\ \E r \in Requests : Left(r)' < Left(r)]_poolVars

\* To its clients a service with a pool that runs dry is one whose database fails:
\* whatever holds of HelpDesk holds of it.
ImplementsHelpDesk == Spec
=============================================================================
