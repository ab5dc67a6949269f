-------------------------- MODULE ConnectionPoolProofs --------------------------
(***************************************************************************)
(* Proofs, for every number of threads and connections and every set of     *)
(* hanging services, that no connection is lost and that a service with a   *)
(* pool is the service of HelpDesk.                                         *)
(***************************************************************************)
EXTENDS ConnectionPool, HelpDeskProofs, FiniteSetTheorems

USE DEF mailVars

-----------------------------------------------------------------------------
(* The pool only ever delays a request or fails its database. *)

LEMMA TimeoutIsDatabaseFailure ==
  ASSUME NEW r \in Requests, ConnectionTimeout(r) PROVE Step(r)
  BY PoolAssumption
  DEF ConnectionTimeout, NeedsConnection, Step, Surroundings, DatabaseFails

LEMMA PoolStepIsNext == [PoolNext]_poolVars => [Next]_vars
<1> SUFFICES ASSUME [PoolNext]_poolVars PROVE [Next]_vars
  OBVIOUS
<1>1. ASSUME NEW r \in Requests, PooledStep(r) \/ ConnectionTimeout(r) PROVE Next
  BY <1>1, TimeoutIsDatabaseFailure DEF PooledStep, Next
<1>2. ASSUME NEW r \in Requests, Hang(r) PROVE UNCHANGED vars
  BY <1>2 DEF Hang
<1>5. ASSUME NEW r \in Requests, PooledReceived(r) PROVE Next
  BY <1>5 DEF PooledReceived, Next
<1>3. CASE PooledCrash
  BY <1>3 DEF PooledCrash, Next
<1>4. CASE AllAnswered \/ UNCHANGED poolVars
  BY <1>4 DEF AllAnswered, poolVars
<1>. QED
  BY <1>1, <1>2, <1>3, <1>4, <1>5 DEF PoolNext

\* Whatever size the pool has and whichever calls hang (RestTemplateConfig,
\* open-in-view), the service does nothing HelpDesk does not do.
THEOREM PooledServiceIsHelpDesk == PoolSpec => ImplementsHelpDesk
  BY PoolStepIsNext, PTL DEF PoolSpec, PoolInit, Spec, ImplementsHelpDesk

-----------------------------------------------------------------------------
(* Connections. *)

\* The handlers that have been at the database.
AtDatabase(r) == HoldsTicket(r) \/ thread[r].pc \in {"saveUser", "saveTicket"}

PoolInv == ConnectionsAreGivenBack /\ IsFiniteSet(connections)

\* The first repository call takes a handler to the database, its end takes it away.
Accounted(r) ==
  AtDatabase(r)' <=> thread'[r].pc # "done" /\ (AtDatabase(r) \/ CallsRepository(r))

LEMMA ReplyAccounted ==
  ASSUME TypeInv, NEW r \in Requests, NEW code, Reply(r, code)
  PROVE  Accounted(r)
  BY DEF TypeInv, TypeOK, Thread, Reply, Accounted, AtDatabase, HoldsTicket

\* findByExternalId and the save of the ticket, unless they throw.
LEMMA UserFound ==
  ASSUME TypeInv, NEW r \in Requests, createTicketFindUser(r), ~ Reply(r, "500")
  PROVE  thread[r].pc = "findUser" /\ thread'[r].pc \in {"saveUser", "saveTicket"}
<1>1. thread[r] \in Thread /\ thread \in [Requests -> Thread] /\ thread[r].pc = "findUser"
  BY DEF TypeInv, TypeOK, createTicketFindUser
<1>2. CASE Goto(r, "saveUser")
  BY <1>1, <1>2 DEF Goto, Thread
<1>3. CASE \E u \in findByExternalId(thread[r].req.caller) :
             thread' = [thread EXCEPT ![r] = [@ EXCEPT !.pc = "saveTicket", !.creatoDa = u]]
  <2>1. PICK u : thread' = [thread EXCEPT ![r] = [@ EXCEPT !.pc = "saveTicket", !.creatoDa = u]]
    BY <1>3
  <2>. QED
    BY <1>1, <2>1 DEF Thread
<1>. QED
  BY <1>1, <1>2, <1>3 DEF createTicketFindUser

LEMMA TicketSaved ==
  ASSUME TypeInv, NEW r \in Requests, createTicketSaveTicket(r), ~ Reply(r, "500")
  PROVE  thread[r].pc = "saveTicket" /\ thread'[r].pc = "done"
<1>1. thread[r] \in Thread /\ thread \in [Requests -> Thread] /\ thread[r].pc = "saveTicket"
  BY DEF TypeInv, TypeOK, createTicketSaveTicket
<1>2. thread' = [thread EXCEPT ![r] = [@ EXCEPT !.pc = "done", !.answer = "200",
                                                !.saved = Len(ticketTable) + 1]]
  BY DEF createTicketSaveTicket
<1>. QED
  BY <1>1, <1>2 DEF Thread

LEMMA CreateAccounted ==
  ASSUME TypeInv, NEW r \in Requests, Create(r) PROVE Accounted(r)
<1> USE DEF TypeInv, TypeOK
<1>1. CASE \E code \in {"401", "500"} : Reply(r, code)
  BY <1>1, ReplyAccounted
<1>2. CASE createTicket(r) /\ Goto(r, "profile")
  BY <1>2 DEF createTicket, At, Goto, Thread, Accounted, AtDatabase, HoldsTicket, CallsRepository
<1>3. CASE createTicketProfile(r)
  BY <1>3 DEF createTicketProfile, getUserProfile, At, Goto, Thread, Accounted, AtDatabase,
     HoldsTicket, CallsRepository
<1>5. CASE createTicketFindUser(r) /\ ~ Reply(r, "500")
  BY <1>5, UserFound DEF Accounted, AtDatabase, CallsRepository
<1>6. CASE createTicketSaveUser(r)
  BY <1>6 DEF createTicketSaveUser, Thread, Accounted, AtDatabase, CallsRepository
<1>7. CASE createTicketSaveTicket(r) /\ ~ Reply(r, "500")
  BY <1>7, TicketSaved DEF Accounted, AtDatabase, HoldsTicket
<1>. QED
  BY <1>1, <1>2, <1>3, <1>5, <1>6, <1>7 DEF Create, createTicket

LEMMA LoadAccounted ==
  ASSUME TypeInv, NEW r \in Requests, thread[r].pc = "start", CallsRepository(r),
         NEW t, thread' = [thread EXCEPT ![r] = [@ EXCEPT !.pc = "profile", !.ticket = t]]
  PROVE  Accounted(r)
<1>1. thread'[r] = [thread[r] EXCEPT !.pc = "profile", !.ticket = t]
  BY DEF TypeInv, TypeOK
<1>2. thread'[r].pc = "profile" /\ thread'[r].req = thread[r].req
  BY <1>1 DEF TypeInv, TypeOK, Thread
<1>. QED
  BY <1>2 DEF Accounted, AtDatabase, HoldsTicket, CallsRepository

LEMMA LoadTicketAccounted ==
  ASSUME TypeInv, NEW r \in Requests, NEW op \in {"updateTicketStatus", "sendMessage"},
         At(r, "start", op), LoadTicket(r)
  PROVE  Accounted(r)
<1>1. CASE \E code \in {"401", "404"} : Reply(r, code)
  BY <1>1, ReplyAccounted
<1>2. CASE ~ \E code \in {"401", "404"} : Reply(r, code)
  BY <1>2, LoadAccounted DEF LoadTicket, At, CallsRepository
<1>. QED
  BY <1>1, <1>2

\* A handler that goes on with its ticket.
LEMMA HeldAccounted ==
  ASSUME NEW r \in Requests, HoldsTicket(r), HoldsTicket(r)'
  PROVE  Accounted(r)
  BY DEF Accounted, AtDatabase, HoldsTicket

LEMMA AssegnaAccounted ==
  ASSUME TypeInv, NEW r \in Requests, Assegna(r) PROVE Accounted(r)
<1> USE DEF TypeInv, TypeOK
<1>1. CASE \E code \in {"400", "403", "404", "500"} : Reply(r, code)
  BY <1>1, ReplyAccounted
<1>2. CASE assegnaOperatore(r) /\ ~ \E code \in {"400", "404"} : Reply(r, code)
  BY <1>2, LoadAccounted DEF assegnaOperatore, At, CallsRepository
<1>3. CASE assegnaOperatoreProfile(r) /\ Goto(r, "saveAssignment")
  BY <1>3, HeldAccounted
  DEF assegnaOperatoreProfile, getUserProfile, At, Goto, Thread, HoldsTicket
<1>4. CASE assegnaOperatoreSave(r)
  BY <1>1, <1>4, AssegnaOperatoreIsRefused
<1>. QED
  BY <1>1, <1>2, <1>3, <1>4 DEF Assegna, assegnaOperatoreProfile

LEMMA UpdateStatusAccounted ==
  ASSUME TypeInv, NEW r \in Requests, UpdateStatus(r) PROVE Accounted(r)
<1> USE DEF TypeInv, TypeOK
<1>1. CASE updateTicketStatus(r)
  BY <1>1, LoadTicketAccounted DEF updateTicketStatus
<1>2. CASE updateTicketStatusProfile(r)
  <2>1. CASE \E code \in {"400", "403", "500"} : Reply(r, code)
    BY <2>1, ReplyAccounted
  <2>2. CASE Goto(r, "saveHistory")
    BY <1>2, <2>2, HeldAccounted
    DEF updateTicketStatusProfile, getUserProfile, At, Goto, Thread, HoldsTicket
  <2>. QED
    BY <1>2, <2>1, <2>2 DEF updateTicketStatusProfile
<1>3. CASE updateTicketStatusSaveHistory(r) \/ updateTicketStatusSave(r)
  <2>1. thread[r].pc \in {"saveHistory", "saveStatus"} /\ thread'[r].pc \in {"saveStatus", "notify"}
    BY <1>3 DEF updateTicketStatusSaveHistory, updateTicketStatusSave, Thread
  <2>. QED
    BY <2>1, HeldAccounted DEF HoldsTicket
<1>. QED
  BY <1>1, <1>2, <1>3 DEF UpdateStatus

LEMMA MessageAccounted ==
  ASSUME TypeInv, NEW r \in Requests, Message(r) PROVE Accounted(r)
<1> USE DEF TypeInv, TypeOK
<1>1. CASE sendMessage(r)
  BY <1>1, LoadTicketAccounted DEF sendMessage
<1>2. CASE sendMessageProfile(r)
  BY <1>2, HeldAccounted DEF sendMessageProfile, getUserProfile, At, Goto, Thread, HoldsTicket
<1>3. CASE sendMessageSave(r)
  BY <1>3, HeldAccounted DEF sendMessageSave, Thread, HoldsTicket
<1>. QED
  BY <1>1, <1>2, <1>3 DEF Message

LEMMA StepAccounted ==
  ASSUME TypeInv, NEW r \in Requests, Step(r) PROVE Accounted(r)
<1>1. CASE Notify(r)
  <2>1. CASE \E code \in {"200", "201", "500"} : Reply(r, code)
    BY <2>1, ReplyAccounted
  <2>2. CASE inviaNotifica(r)
    <3>1. thread[r].pc = "notify" /\ thread'[r].pc = "posted"
      BY <2>2 DEF inviaNotifica, Goto, TypeInv, TypeOK, Thread
    <3>. QED
      BY <3>1, HeldAccounted DEF HoldsTicket
  <2>. QED
    BY <1>1, <2>1, <2>2
    DEF Notify, NothingToNotify, inviaNotificaReturns, inviaNotificaFails, Success
<1>2. CASE Accept(r)
  BY <1>2 DEF Accept, TypeInv, TypeOK, Thread, Accounted, AtDatabase, HoldsTicket, CallsRepository
<1>3. CASE getUserProfileFails(r) \/ DatabaseFails(r)
  BY <1>3, ReplyAccounted DEF getUserProfileFails, DatabaseFails
<1>. QED
  BY <1>1, <1>2, <1>3, CreateAccounted, AssegnaAccounted, UpdateStatusAccounted, MessageAccounted
  DEF Step, Surroundings

-----------------------------------------------------------------------------
LEMMA InitPoolInv == PoolInit => PoolInv
<1>1. IsFiniteSet({}) /\ Cardinality({}) = 0
  BY FS_EmptySet
<1>. QED
  BY <1>1, PoolAssumption
  DEF PoolInit, Init, RequestsInit, IdleThread, PoolInv, ConnectionsAreGivenBack, HoldsTicket

\* Others take no part in a step of r.
LEMMA OthersStay ==
  ASSUME NEW r \in Requests, OnlyThread(r), NEW s \in Requests, s # r
  PROVE  /\ AtDatabase(s)' <=> AtDatabase(s)
         /\ thread'[s].pc = thread[s].pc
  BY DEF OnlyThread, AtDatabase, HoldsTicket

LEMMA PooledStepPoolInv ==
  ASSUME TypeInv, PoolInv, NEW r \in Requests, PooledStep(r) PROVE PoolInv'
<1> USE DEF PoolInv, ConnectionsAreGivenBack
<1>1. OnlyThread(r) /\ Accounted(r)
  BY StepTypeInv, StepAccounted DEF PooledStep
<1>2. connections' = {s \in Requests : AtDatabase(s)'}
  <2>1. connections = {s \in Requests : AtDatabase(s)}
    BY DEF AtDatabase
  <2>2. connections' = ConnectionsAfter(r)
    BY DEF PooledStep
  <2>3. \A s \in Requests : s \in connections' <=> AtDatabase(s)'
    BY <1>1, <2>1, <2>2, OthersStay DEF ConnectionsAfter, Accounted, AtDatabase, HoldsTicket
  <2>. QED
    BY <2>1, <2>2, <2>3 DEF ConnectionsAfter
<1>3. IsFiniteSet(connections') /\ Cardinality(connections') <= PoolSize
  <2>1. CASE connections' = connections
    BY <2>1
  <2>2. CASE connections' = connections \ {r}
    <3>1. /\ IsFiniteSet(connections \ {r})
          /\ Cardinality(connections \ {r}) \in {Cardinality(connections), Cardinality(connections) - 1}
      BY FS_RemoveElement
    <3>2. Cardinality(connections) \in Nat /\ PoolSize \in Nat
      BY FS_CardinalityType, PoolAssumption
    <3>. QED
      BY <2>2, <3>1, <3>2
  <2>3. CASE connections' = connections \cup {r} /\ r \notin connections /\ CallsRepository(r)
    <3>1. Cardinality(connections) \in Nat /\ PoolSize \in Nat
      BY FS_CardinalityType, PoolAssumption
    <3>2. Cardinality(connections) < PoolSize
      BY <2>3, <3>1 DEF PooledStep, NeedsConnection, PoolIsEmpty
    <3>3. /\ IsFiniteSet(connections \cup {r})
          /\ Cardinality(connections \cup {r}) = Cardinality(connections) + 1
      BY <2>3, FS_AddElement
    <3>. QED
      BY <2>3, <3>1, <3>2, <3>3
  <2>. QED
    BY <2>1, <2>2, <2>3 DEF PooledStep, ConnectionsAfter
<1>4. hung' \subseteq {s \in Requests : thread'[s].pc \in {"profile", "posted"}}
  BY <1>1, OthersStay DEF PooledStep
<1>. QED
  BY <1>2, <1>3, <1>4 DEF AtDatabase

LEMMA TimeoutPoolInv ==
  ASSUME TypeInv, PoolInv, NEW r \in Requests, ConnectionTimeout(r) PROVE PoolInv'
<1> USE DEF PoolInv, ConnectionsAreGivenBack
<1>1. Step(r) /\ Reply(r, "500") /\ UNCHANGED <<connections, hung>> /\ r \notin connections
  BY TimeoutIsDatabaseFailure DEF ConnectionTimeout, NeedsConnection
<1>2. OnlyThread(r) /\ Accounted(r) /\ thread'[r].pc = "done"
  BY <1>1, StepTypeInv, StepAccounted DEF TypeInv, TypeOK, Reply, Thread
<1>3. connections' = {s \in Requests : AtDatabase(s)'}
  <2>1. \A s \in Requests : s \in connections' <=> AtDatabase(s)'
    BY <1>1, <1>2, OthersStay DEF Accounted, AtDatabase
  <2>. QED
    BY <1>1, <2>1
<1>4. r \notin hung
  BY DEF ConnectionTimeout, NeedsConnection, CallsRepository
<1>5. hung' \subseteq {s \in Requests : thread'[s].pc \in {"profile", "posted"}}
  BY <1>1, <1>2, <1>4, OthersStay
<1>. QED
  BY <1>1, <1>3, <1>5 DEF AtDatabase

LEMMA NextPoolInv == TypeInv /\ PoolInv /\ [PoolNext]_poolVars => PoolInv'
<1> SUFFICES ASSUME TypeInv, PoolInv, [PoolNext]_poolVars PROVE PoolInv'
  OBVIOUS
<1> USE DEF PoolInv, ConnectionsAreGivenBack
<1>1. ASSUME NEW r \in Requests, Hang(r) PROVE PoolInv'
  BY <1>1 DEF Hang, vars, HoldsTicket
<1>2. CASE PooledCrash
  <2>1. ASSUME NEW r \in Requests PROVE thread'[r].pc \in {"idle", "done"}
    <3>1. thread[r] \in Thread /\ thread \in [Requests -> Thread]
      BY DEF TypeInv, TypeOK
    <3>2. thread'[r] = IF r \in InFlight THEN [thread[r] EXCEPT !.pc = "done", !.answer = "lost"]
                                         ELSE thread[r]
      BY <1>2, <3>1 DEF PooledCrash, Crash
    <3>. QED
      BY <3>1, <3>2 DEF InFlight, Thread
  <2>2. IsFiniteSet({}) /\ Cardinality({}) = 0
    BY FS_EmptySet
  <2>. QED
    BY <1>2, <2>1, <2>2, PoolAssumption DEF PooledCrash, HoldsTicket
<1>3. CASE (AllAnswered /\ UNCHANGED <<connections, hung>>) \/ UNCHANGED poolVars
  BY <1>3 DEF AllAnswered, poolVars, vars, HoldsTicket
<1>4. ASSUME NEW r \in Requests, PooledReceived(r) PROVE PoolInv'
  BY <1>4 DEF PooledReceived, Received, HoldsTicket
<1>. QED
  BY <1>1, <1>2, <1>3, <1>4, PooledStepPoolInv, TimeoutPoolInv DEF PoolNext

\* Every path of every handler gives its connection back, and a handler that
\* hangs keeps one only if it has been at the database.
THEOREM NoConnectionIsLost == PoolSpec => []ConnectionsAreGivenBack
<1>1. PoolSpec => []TypeInv
  BY PooledServiceIsHelpDesk, ThreadsCorrect, PTL DEF ImplementsHelpDesk
<1>2. PoolInv => ConnectionsAreGivenBack
  BY DEF PoolInv
<1>. QED
  BY <1>1, <1>2, InitPoolInv, NextPoolInv, PTL DEF PoolSpec

-----------------------------------------------------------------------------
(* Work. *)

LEMMA CallsLeftIs ==
  /\ CallsLeft["done"] = 0
  /\ \A l \in PC : CallsLeft[l] \in Nat /\ (l # "done" => CallsLeft[l] > 0)
  /\ CallsLeft["posted"] = 1 /\ CallsLeft["saveTicket"] = 1
  /\ CallsLeft["notify"] = 2 /\ CallsLeft["saveUser"] = 2
  /\ CallsLeft["saveStatus"] = 3 /\ CallsLeft["saveMessage"] = 3
  /\ CallsLeft["saveAssignment"] = 3 /\ CallsLeft["findUser"] = 3
  /\ CallsLeft["saveHistory"] = 4 /\ CallsLeft["profile"] = 5
  /\ CallsLeft["start"] = 6 /\ CallsLeft["idle"] = 7
  BY DEF CallsLeft, PC

\* The handler of r has less to do after the step than before.
GetsOn(r) == CallsLeft[thread'[r].pc] < CallsLeft[thread[r].pc]

LEMMA ReplyGetsOn ==
  ASSUME TypeInv, NEW r \in Requests, thread[r].pc # "done", NEW code, Reply(r, code)
  PROVE  GetsOn(r)
<1>1. thread[r].pc \in PC /\ thread'[r].pc = "done"
  BY DEF TypeInv, TypeOK, Thread, Reply
<1>. QED
  BY <1>1, CallsLeftIs DEF GetsOn

LEMMA CreateGetsOn ==
  ASSUME TypeInv, NEW r \in Requests, Create(r) PROVE GetsOn(r)
<1> USE CallsLeftIs DEF TypeInv, TypeOK, GetsOn
<1>1. CASE \E code \in {"401", "500"} : Reply(r, code)
  <2>1. thread[r].pc # "done"
    BY DEF Create, createTicket, createTicketProfile, createTicketFindUser, createTicketSaveUser,
       createTicketSaveTicket, getUserProfile, At
  <2>. QED
    BY <1>1, <2>1, ReplyGetsOn
<1>2. CASE createTicket(r) /\ Goto(r, "profile")
  BY <1>2 DEF createTicket, At, Goto, Thread
<1>3. CASE createTicketProfile(r)
  BY <1>3 DEF createTicketProfile, getUserProfile, At, Goto, Thread
<1>4. CASE createTicketFindUser(r) /\ ~ Reply(r, "500")
  <2>1. thread[r].pc = "findUser" /\ thread'[r].pc \in {"saveUser", "saveTicket"}
    BY <1>4, UserFound
  <2>. QED
    BY <2>1
<1>5. CASE createTicketSaveUser(r)
  <2>1. thread[r].pc = "saveUser" /\ thread'[r].pc = "saveTicket"
    BY <1>5 DEF createTicketSaveUser, Thread
  <2>. QED
    BY <2>1
<1>6. CASE createTicketSaveTicket(r) /\ ~ Reply(r, "500")
  <2>1. thread[r].pc = "saveTicket" /\ thread'[r].pc = "done"
    BY <1>6, TicketSaved
  <2>. QED
    BY <2>1
<1>. QED
  BY <1>1, <1>2, <1>3, <1>4, <1>5, <1>6 DEF Create, createTicket

\* findById has answered.
LEMMA LoadGetsOn ==
  ASSUME TypeInv, NEW r \in Requests, thread[r].pc = "start", NEW t,
         thread' = [thread EXCEPT ![r] = [@ EXCEPT !.pc = "profile", !.ticket = t]]
  PROVE  GetsOn(r)
<1>1. thread'[r].pc = "profile"
  BY DEF TypeInv, TypeOK, Thread
<1>. QED
  BY <1>1, CallsLeftIs DEF GetsOn

LEMMA AssegnaGetsOn ==
  ASSUME TypeInv, NEW r \in Requests, Assegna(r) PROVE GetsOn(r)
<1>1. CASE assegnaOperatore(r)
  BY <1>1, LoadGetsOn, ReplyGetsOn DEF assegnaOperatore, At
<1>2. CASE assegnaOperatoreProfile(r)
  <2>1. thread[r].pc = "profile" /\ (Goto(r, "saveAssignment") \/ Reply(r, "403"))
    BY <1>2 DEF assegnaOperatoreProfile, getUserProfile, At
  <2>2. CASE Goto(r, "saveAssignment")
    BY <2>1, <2>2, CallsLeftIs DEF Goto, TypeInv, TypeOK, Thread, GetsOn
  <2>. QED
    BY <2>1, <2>2, ReplyGetsOn
<1>3. CASE assegnaOperatoreSave(r)
  BY <1>3, AssegnaOperatoreIsRefused, ReplyGetsOn DEF assegnaOperatoreSave
<1>. QED
  BY <1>1, <1>2, <1>3 DEF Assegna

LEMMA UpdateStatusGetsOn ==
  ASSUME TypeInv, NEW r \in Requests, UpdateStatus(r) PROVE GetsOn(r)
<1>1. CASE updateTicketStatus(r)
  BY <1>1, LoadGetsOn, ReplyGetsOn DEF updateTicketStatus, LoadTicket, At
<1>2. CASE updateTicketStatusProfile(r)
  <2>1. thread[r].pc = "profile" /\ (Goto(r, "saveHistory") \/ \E code : Reply(r, code))
    BY <1>2 DEF updateTicketStatusProfile, getUserProfile, At
  <2>2. CASE Goto(r, "saveHistory")
    BY <2>1, <2>2, CallsLeftIs DEF Goto, TypeInv, TypeOK, Thread, GetsOn
  <2>. QED
    BY <2>1, <2>2, ReplyGetsOn
<1>3. CASE updateTicketStatusSaveHistory(r)
  <2>1. thread[r].pc = "saveHistory" /\ thread'[r].pc = "saveStatus"
    BY <1>3 DEF updateTicketStatusSaveHistory, TypeInv, TypeOK, Thread
  <2>. QED
    BY <2>1, CallsLeftIs DEF GetsOn
<1>4. CASE updateTicketStatusSave(r)
  <2>1. thread[r].pc = "saveStatus" /\ thread'[r].pc = "notify"
    BY <1>4 DEF updateTicketStatusSave, TypeInv, TypeOK, Thread
  <2>. QED
    BY <2>1, CallsLeftIs DEF GetsOn
<1>. QED
  BY <1>1, <1>2, <1>3, <1>4 DEF UpdateStatus

LEMMA MessageGetsOn ==
  ASSUME TypeInv, NEW r \in Requests, Message(r) PROVE GetsOn(r)
<1>1. CASE sendMessage(r)
  BY <1>1, LoadGetsOn, ReplyGetsOn DEF sendMessage, LoadTicket, At
<1>2. CASE sendMessageProfile(r)
  BY <1>2, CallsLeftIs
  DEF sendMessageProfile, getUserProfile, At, Goto, TypeInv, TypeOK, Thread, GetsOn
<1>3. CASE sendMessageSave(r)
  <2>1. thread[r].pc = "saveMessage" /\ thread'[r].pc = "notify"
    BY <1>3 DEF sendMessageSave, TypeInv, TypeOK, Thread
  <2>. QED
    BY <2>1, CallsLeftIs DEF GetsOn
<1>. QED
  BY <1>1, <1>2, <1>3 DEF Message

LEMMA StepGetsOn ==
  ASSUME TypeInv, NEW r \in Requests, Step(r) PROVE GetsOn(r)
<1>1. CASE Notify(r)
  <2>1. CASE thread[r].pc \in {"notify", "posted"} /\ \E code : Reply(r, code)
    BY <2>1, ReplyGetsOn
  <2>2. CASE inviaNotifica(r)
    <3>1. thread[r].pc = "notify" /\ thread'[r].pc = "posted"
      BY <2>2 DEF inviaNotifica, Goto, TypeInv, TypeOK, Thread
    <3>. QED
      BY <3>1, CallsLeftIs DEF GetsOn
  <2>. QED
    BY <1>1, <2>1, <2>2 DEF Notify, NothingToNotify, inviaNotificaReturns, inviaNotificaFails
<1>2. CASE Accept(r)
  <2>1. thread[r].pc = "idle" /\ thread'[r].pc = "start"
    BY <1>2 DEF Accept, TypeInv, TypeOK, Thread
  <2>. QED
    BY <2>1, CallsLeftIs DEF GetsOn
<1>3. CASE getUserProfileFails(r) \/ DatabaseFails(r)
  BY <1>3, ReplyGetsOn DEF getUserProfileFails, DatabaseFails, CallsRepository
<1>. QED
  BY <1>1, <1>2, <1>3, CreateGetsOn, AssegnaGetsOn, UpdateStatusGetsOn, MessageGetsOn
  DEF Step, Surroundings

\* A step of r sends no POST but its own.
LEMMA StepSends ==
  ASSUME NEW r \in Requests, Step(r)
  PROVE  underway' \subseteq underway \cup {r}
<1>1. CASE inviaNotifica(r)
  BY <1>1 DEF inviaNotifica
<1>2. CASE ~ inviaNotifica(r)
  BY <1>2
  DEF Step, Create, createTicket, createTicketProfile, createTicketFindUser, createTicketSaveUser,
      createTicketSaveTicket, Assegna, assegnaOperatore, assegnaOperatoreProfile,
      assegnaOperatoreSave, UpdateStatus, updateTicketStatus, LoadTicket,
      updateTicketStatusProfile, updateTicketStatusSaveHistory, updateTicketStatusSave,
      Message, sendMessage, sendMessageProfile, sendMessageSave, Notify, NothingToNotify,
      inviaNotificaReturns, inviaNotificaFails, Surroundings
<1>. QED
  BY <1>1, <1>2

\* What is left to a request, by what a step does to its parts.
LEMMA LeftIs ==
  ASSUME NEW s \in Requests, CallsLeft[thread[s].pc] \in Nat, CallsLeft[thread'[s].pc] \in Nat
  PROVE  /\ thread'[s] = thread[s] /\ (s \in underway' => s \in underway) /\ (s \in hung <=> s \in hung')
            => Left(s)' <= Left(s)
         /\ GetsOn(s) /\ (s \in hung <=> s \in hung') => Left(s)' < Left(s)
         /\ GetsOn(s) /\ (s \in underway <=> s \in underway') => Left(s)' < Left(s)
         /\ thread'[s] = thread[s] /\ s \in underway /\ s \notin underway' /\ (s \in hung <=> s \in hung')
            => Left(s)' < Left(s)
         /\ thread'[s] = thread[s] /\ (s \in underway <=> s \in underway') /\ s \notin hung /\ s \in hung'
            => Left(s)' < Left(s)
         /\ Left(s)' < Left(s) => Left(s)' <= Left(s)
  BY DEF Left, GetsOn

LEMMA LessIsLeft ==
  ASSUME TypeInv, TypeInv', PoolInv, [PoolNext]_poolVars
  PROVE  \/ UNCHANGED poolVars
         \/ /\ \A r \in Requests : Left(r)' <= Left(r)
            /\ \E r \in Requests : Left(r)' < Left(r)
<1> DEFINE Goal == /\ \A r \in Requests : Left(r)' <= Left(r)
                   /\ \E r \in Requests : Left(r)' < Left(r)
<1> SUFFICES ASSUME ~ UNCHANGED poolVars PROVE Goal
  OBVIOUS
<1>1. \A s \in Requests : CallsLeft[thread[s].pc] \in Nat /\ CallsLeft[thread'[s].pc] \in Nat
  <2>1. \A s \in Requests : thread[s].pc \in PC /\ thread'[s].pc \in PC
    BY DEF TypeInv, TypeOK, Thread
  <2>. QED
    BY <2>1, CallsLeftIs
<1>2. ASSUME NEW r \in Requests, Left(r)' < Left(r),
             \A s \in Requests \ {r} : /\ thread'[s] = thread[s]
                                       /\ s \in underway' => s \in underway
                                       /\ s \in hung <=> s \in hung'
      PROVE  Goal
  <2>1. Left(r)' <= Left(r)
    BY <1>1, <1>2, LeftIs
  <2>2. \A s \in Requests \ {r} : Left(s)' <= Left(s)
    BY <1>1, <1>2, LeftIs
  <2>. QED
    BY <1>2, <2>1, <2>2
<1>3. ASSUME NEW r \in Requests, Step(r), UNCHANGED hung PROVE Goal
  <2>1. OnlyThread(r) /\ GetsOn(r) /\ underway' \subseteq underway \cup {r}
    BY <1>3, StepTypeInv, StepGetsOn, StepSends
  <2>2. Left(r)' < Left(r)
    BY <1>1, <1>3, <2>1, LeftIs
  <2>. QED
    BY <1>2, <1>3, <2>1, <2>2 DEF OnlyThread
<1>4. ASSUME NEW r \in Requests, Hang(r) PROVE Goal
  <2>1. UNCHANGED <<thread, underway>> /\ r \notin hung /\ hung' = hung \cup {r}
    BY <1>4 DEF Hang, vars
  <2>2. Left(r)' < Left(r)
    BY <1>1, <2>1, LeftIs
  <2>. QED
    BY <1>2, <2>1, <2>2
<1>5. ASSUME NEW r \in Requests, PooledReceived(r) PROVE Goal
  <2>1. UNCHANGED <<thread, hung>> /\ r \in underway /\ underway' = underway \ {r}
    BY <1>5 DEF PooledReceived, Received
  <2>2. Left(r)' < Left(r)
    BY <1>1, <2>1, LeftIs
  <2>. QED
    BY <1>2, <2>1, <2>2
<1>6. CASE PooledCrash
  <2>1. /\ InFlight # {} /\ InFlight \subseteq Requests /\ hung' = {} /\ UNCHANGED underway
        /\ \A r \in InFlight : thread[r].pc \in PC /\ thread[r].pc # "done" /\ thread'[r].pc = "done"
        /\ \A r \in Requests \ InFlight : thread'[r] = thread[r] /\ r \notin hung
    BY <1>6 DEF PooledCrash, Crash, InFlight, TypeInv, TypeOK, Thread, PoolInv, ConnectionsAreGivenBack
  <2>2. \A r \in InFlight : GetsOn(r)
    BY <2>1, CallsLeftIs DEF GetsOn
  <2>3. \A r \in InFlight : Left(r)' < Left(r) /\ Left(r)' <= Left(r)
    BY <1>1, <2>1, <2>2, LeftIs
  <2>4. \A r \in Requests \ InFlight : Left(r)' <= Left(r)
    BY <1>1, <2>1, LeftIs
  <2>. QED
    BY <2>1, <2>3, <2>4
<1>7. ~ (AllAnswered /\ UNCHANGED <<connections, hung>>)
  BY DEF AllAnswered, poolVars
<1>8. ASSUME NEW r \in Requests, PooledStep(r) \/ ConnectionTimeout(r) PROVE Goal
  BY <1>3, <1>8, TimeoutIsDatabaseFailure DEF PooledStep, ConnectionTimeout
<1> HIDE DEF Goal
<1>. QED
  BY <1>4, <1>5, <1>6, <1>7, <1>8 DEF PoolNext

\* No handler makes a call again, whatever fails, times out, hangs or crashes: the
\* work left to all requests only gets less, for any number of requests.
THEOREM WorkGetsLess == PoolSpec => WorkRunsOut
<1>1. PoolSpec => []TypeInv
  BY PooledServiceIsHelpDesk, ThreadsCorrect, PTL DEF ImplementsHelpDesk
<1>2. TypeInv /\ TypeInv' /\ PoolInv /\ [PoolNext]_poolVars
        => [/\ \A r \in Requests : Left(r)' <= Left(r)
            /\ \E r \in Requests : Left(r)' < Left(r)]_poolVars
  BY LessIsLeft
<1>. QED
  BY <1>1, <1>2, InitPoolInv, NextPoolInv, PTL DEF PoolSpec, WorkRunsOut
=============================================================================
