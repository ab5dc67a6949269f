------------------------------ MODULE AuditTrail ------------------------------
(***************************************************************************)
(* What the help desk keeps of its promise to trace status changes whatever *)
(* the interleaving and whatever fails: a log that only grows, whose every  *)
(* entry starts from a status the ticket had been given before, and tickets *)
(* whose status only ever changes to one the log gives them.                *)
(***************************************************************************)
EXTENDS Naturals, Sequences

CONSTANTS
  Status,
  OpeningStatus,   \* of a newly opened ticket
  FirstStatus      \* the statuses of the tickets there at the start

VARIABLES
  status,   \* the status of each ticket
  log       \* entries [ticket, from, to]

Given(t) == {log[i].to : i \in {j \in DOMAIN log : log[j].ticket = t}}

Known(t) ==
  Given(t) \cup {IF t \in DOMAIN FirstStatus THEN FirstStatus[t] ELSE OpeningStatus}

Init == status = FirstStatus /\ log = <<>>

Open == status' = Append(status, OpeningStatus) /\ UNCHANGED log

Record(t, from, to) ==
  /\ from \in Known(t)
  /\ log' = Append(log, [ticket |-> t, from |-> from, to |-> to])
  /\ UNCHANGED status

Apply(t, to) ==
  /\ to \in Given(t)
  /\ status' = [status EXCEPT ![t] = to]
  /\ UNCHANGED log

Next ==
  \/ Open
  \/ \E t \in DOMAIN status, to \in Status : (\E from \in Status : Record(t, from, to)) \/ Apply(t, to)

Spec == Init /\ [][Next]_<<status, log>>
=============================================================================
