--------------------------- MODULE MCReadEndpoints ---------------------------
(***************************************************************************)
(* Small instances of ReadEndpoints: anna and olga read, while olga, omar   *)
(* and anna change anna's ticket.                                           *)
(***************************************************************************)
EXTENDS ReadEndpoints

CONSTANTS anna, olga, omar

\* anna has two rows in app_user and a ticket under each; olga has one row.
KnownUsers == <<[externalId |-> anna], [externalId |-> olga], [externalId |-> anna]>>

KnownTickets ==
  <<[ticketStatus |-> "PRESO_IN_CARICO", creatoDa |-> 1, assegnatoA |-> NoId],
    [ticketStatus |-> "PRESO_IN_CARICO", creatoDa |-> 3, assegnatoA |-> NoId]>>

Ask(op, caller, t, stato) ==
  [op |-> op, caller |-> caller, ticketId |-> t, stato |-> stato, body |-> "present"]

WriteInputs ==
  {Ask("updateTicketStatus", olga, 1, "RISOLTO"), Ask("updateTicketStatus", omar, 1, "CHIUSO"),
   Ask("sendMessage", anna, 1, "null"), Ask("createTicket", omar, 0, "null")}

SubIsProfileId == [u \in ExternalId |-> u]

-----------------------------------------------------------------------------
(* Tokens. *)

TokenOf(payload, sub) == [parts |-> 3, signed |-> TRUE, payload |-> payload, sub |-> sub]

\* Payloads as JSON begins, {"s, and ones that end a group in a question mark, a
\* tilde and a letter outside ASCII, or have one elsewhere.
Plain        == TokenOf(<<123, 34, 115, 63>>, anna)
Question     == TokenOf(<<123, 34, 63>>, anna)
Tilde        == TokenOf(<<123, 63, 115, 34, 97, 126, 125>>, anna)
Accented     == TokenOf(<<123, 195, 190>>, anna)
OmarsToken   == TokenOf(<<126, 62>>, omar)
WithoutSub   == TokenOf(<<123, 125>>, NoSub)
Unsigned     == [Plain EXCEPT !.signed = FALSE]
TwoParts     == [Plain EXCEPT !.parts = 2]

Read(op, t, form, token) == [op |-> op, ticketId |-> t, form |-> form, token |-> token]

TokenInputs ==
  {Read("getMyTickets", 0, "Bearer", token) :
     token \in {Plain, Question, Tilde, Accented, OmarsToken, WithoutSub, Unsigned, TwoParts}}

HeaderInputs ==
  {Read("getTicketById", 1, form, Plain) : form \in HeaderForm}
    \cup {Read("getMessagesByTicket", 1, form, Plain) : form \in HeaderForm}

AllReads ==
  TokenInputs \cup HeaderInputs
    \cup {Read("getTicketHistory", t, "Bearer", Plain) : t \in {1, 9}}
    \cup {Read(op, 9, "Bearer", Plain) : op \in {"getTicketById", "getMessagesByTicket"}}
=============================================================================
