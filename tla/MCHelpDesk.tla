------------------------------ MODULE MCHelpDesk ------------------------------
(***************************************************************************)
(* Small instances of HelpDesk: anna is a student, olga and omar operators. *)
(* Each run picks the rows already there and what clients send.             *)
(***************************************************************************)
EXTENDS HelpDeskApart, HelpDeskClaims, TLC

CONSTANTS anna, olga, omar

Symmetry == Permutations(Requests)

-----------------------------------------------------------------------------
(* Rows in the database at the start. *)

NoRows == <<>>

\* anna and olga are known; omar has no row yet.
TwoUsers == <<[externalId |-> anna], [externalId |-> olga]>>

OpenTicket(status, creatoDa, assegnatoA) ==
  [ticketStatus |-> status, creatoDa |-> creatoDa, assegnatoA |-> assegnatoA]

\* A ticket of anna nobody has taken.
AnnasTicket == <<OpenTicket("PRESO_IN_CARICO", 1, NoId)>>

\* Three tickets: anna's, taken by olga; one olga opened and took herself;
\* and anna's second, which nobody has taken.
AssignedTickets ==
  <<OpenTicket("IN_LAVORAZIONE", 1, 2), OpenTicket("PRESO_IN_CARICO", 2, 2),
    OpenTicket("PRESO_IN_CARICO", 1, NoId)>>

-----------------------------------------------------------------------------
(* What clients send. *)

Ask(op, caller, t, stato, body) ==
  [op |-> op, caller |-> caller, ticketId |-> t, stato |-> stato, body |-> body]

Open(caller, body)        == Ask("createTicket", caller, 0, "null", body)
Take(caller, t)           == Ask("assegnaOperatore", caller, t, "null", "present")
Move(caller, t, stato)    == Ask("updateTicketStatus", caller, t, stato, "present")
Write(caller, t, body)    == Ask("sendMessage", caller, t, "null", body)

\* Two operators move a ticket of one of them and one opened meanwhile, one of them
\* to the status it began with, while it is written to; nonsense is refused.
StatusInputs ==
  {Move(olga, 2, "RISOLTO"), Move(olga, 2, "PRESO_IN_CARICO"), Move(omar, 2, "CHIUSO"),
   Move(omar, 4, "RISOLTO"), Move(olga, 2, "APERTO"), Move(olga, 2, "null"),
   Write(olga, 2, "present"), Open(anna, "present")}

\* Tickets opened by people with and without a row in app_user, one of whom tries to
\* take the first.
OpenInputs ==
  {Open(omar, "present"), Open(omar, "missing"), Open(olga, "present"), Open(Nobody, "present"),
   Take(omar, 1)}

\* Updates of olga's ticket and of one opened meanwhile, openings of people with
\* and without a row, and updates, assignments and messages that are refused.
ApartInputs ==
  {Move(olga, 2, "RISOLTO"), Move(olga, 2, "CHIUSO"), Move(omar, 2, "PRESO_IN_CARICO"),
   Move(olga, 4, "RISOLTO"), Move(anna, 2, "CHIUSO"), Open(anna, "present"), Open(omar, "present"),
   Open(omar, "missing"), Take(olga, 3), Take(olga, 1), Take(anna, 3), Take(olga, 9),
   Take(Nobody, 3), Write(Nobody, 1, "present")}

\* For the claims.
RacingUpdates   == {Move(olga, 1, "RISOLTO"), Move(omar, 1, "CHIUSO")}
RacingOpenings  == {Open(omar, "present")}
TakeInputs      == {Take(olga, 1), Take(olga, 9), Take(anna, 1)}
UpdateInputs    == {Move(olga, 1, "RISOLTO"), Move(olga, 1, "null"), Move(olga, 1, "APERTO")}

-----------------------------------------------------------------------------
\* The sub claim is the id of the profile.
SubIsProfileId == [u \in ExternalId |-> u]

\* A stub of the user service answers the token with anna's sub claim with olga's
\* profile ("Help Desk API.postman_collection.json":85).
StubProfiles == [u \in ExternalId |-> IF u = olga THEN anna ELSE u]
=============================================================================
