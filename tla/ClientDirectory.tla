-------------------------- MODULE ClientDirectory --------------------------
(***************************************************************************)
(* What the store promises about client keys: every change of a client is   *)
(* one step, a client that was created stays known, and a revoked one stays *)
(* revoked.  Clients implements this with the rows of its sqlite table.     *)
(***************************************************************************)
CONSTANTS Client, Limits, None
VARIABLE row   \* row[c]: the status of client c and its limits

Status == {"absent", "active", "revoked"}
Row == [status : Status, limits : Limits]

Init == row = [c \in Client |-> [status |-> "absent", limits |-> None]]

Create(c, l) ==
  /\ row[c].status = "absent"
  /\ row' = [row EXCEPT ![c] = [status |-> "active", limits |-> l]]

Revoke(c) ==
  /\ row[c].status # "absent"
  /\ row' = [row EXCEPT ![c].status = "revoked"]

SetLimits(c, l) ==
  /\ row[c].status # "absent"
  /\ row' = [row EXCEPT ![c].limits = l]

Next == \E c \in Client :
  \/ Revoke(c)
  \/ \E l \in Limits : Create(c, l) \/ SetLimits(c, l)

Spec == Init /\ [][Next]_row
=============================================================================
