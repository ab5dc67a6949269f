--------------------------- MODULE MCConnectionPool ---------------------------
(***************************************************************************)
(* Small instances of ConnectionPool: more threads than connections, as in  *)
(* the defaults of the service (200 and 10).                                *)
(***************************************************************************)
EXTENDS ConnectionPool

CONSTANTS anna, olga, omar

KnownUsers == <<[externalId |-> anna], [externalId |-> olga]>>

\* Anna's ticket, taken by olga.
KnownTickets == <<[ticketStatus |-> "IN_LAVORAZIONE", creatoDa |-> 1, assegnatoA |-> 2]>>

Ask(op, caller, t, stato, body) ==
  [op |-> op, caller |-> caller, ticketId |-> t, stato |-> stato, body |-> body]

\* An update and a message with somebody to tell, and an opening.
PoolInputs ==
  {Ask("updateTicketStatus", omar, 1, "RISOLTO", "present"),
   Ask("sendMessage", anna, 1, "null", "present"),
   Ask("createTicket", omar, 0, "null", "present")}

SubIsProfileId == [u \in ExternalId |-> u]
=============================================================================
