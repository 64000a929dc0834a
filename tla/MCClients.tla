----------------------------- MODULE MCClients -----------------------------
(***************************************************************************)
(* Small instances of Clients for TLC: records with the configuration's     *)
(* limits or a tighter override.                                            *)
(***************************************************************************)
EXTENDS Clients, TLC

CONSTANTS c1, c2, a1, a2, q1, q2, tight, standard

DailyOf == [l \in Limits |-> IF l = tight THEN 1 ELSE 2]
MonthlyOf == [l \in Limits |-> 1]
Symmetry == Permutations(Client) \cup Permutations(Admin) \cup Permutations(Request)
=============================================================================
