----------------------------- MODULE StatusJournal -----------------------------
(***************************************************************************)
(* What a reader of the history may expect of a service that can fail: a    *)
(* status change and its log entry are one step, and the entry starts from  *)
(* the status the ticket has.  A change whose client has not been told that *)
(* it succeeded may turn out void, as long as no other change followed.     *)
(***************************************************************************)
EXTENDS Naturals, Sequences

CONSTANTS Status, OpeningStatus, FirstStatus

VARIABLES
  status, log,
  confirmed    \* the entries whose clients have been told that they succeeded

Init == status = FirstStatus /\ log = <<>> /\ confirmed = {}

Open == status' = Append(status, OpeningStatus) /\ UNCHANGED <<log, confirmed>>

Change(t, to) ==
  /\ status' = [status EXCEPT ![t] = to]
  /\ log' = Append(log, [ticket |-> t, from |-> status[t], to |-> to])
  /\ UNCHANGED confirmed

Newest(i) == \A j \in DOMAIN log : log[j].ticket = log[i].ticket => j <= i

Confirm(i) ==
  /\ Newest(i)
  /\ status[log[i].ticket] = log[i].to
  /\ confirmed' = confirmed \cup {i}
  /\ UNCHANGED <<status, log>>

\* Several changes at once turn out void when the service stops.
Void(S) ==
  /\ \A i \in S : Newest(i) /\ i \notin confirmed
  /\ status' = [t \in DOMAIN status |->
                  IF \E i \in S : log[i].ticket = t
                  THEN log[CHOOSE i \in S : log[i].ticket = t].from ELSE status[t]]
  /\ UNCHANGED <<log, confirmed>>

Next ==
  \/ Open
  \/ \E t \in DOMAIN status, to \in Status : Change(t, to)
  \/ \E i \in DOMAIN log : Confirm(i)
  \/ \E S \in SUBSET DOMAIN log : Void(S)

Spec == Init /\ [][Next]_<<status, log, confirmed>>
=============================================================================
