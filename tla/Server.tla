------------------------------- MODULE Server -------------------------------
(***************************************************************************)
(* The parts of a running server around its operations: the configuration  *)
(* with the calls that are made under it, and the quota engine.  These two  *)
(* share no state that either decides by, so that a behaviour of an         *)
(* instance has the steps of one of them: left["poll"] says of which.       *)
(***************************************************************************)
EXTENDS Serving, QuotaReports

vars == <<filesVars, servingVars, quotaVars>>

Init == FilesInit /\ ServingInit /\ QuotaInit

\* Nothing is in progress: an instance may stop.  Anywhere else it may not.
Rest ==
  /\ \A a \in Admin : job[a].at = "idle"
  /\ \A c \in Caller : calls[c].at \in {"idle", "done"}
  /\ UNCHANGED vars

Next ==
  \/ left["poll"] = 0 /\ ServingNext /\ UNCHANGED quotaVars
  \/ left["poll"] > 0 /\ QuotaNext /\ UNCHANGED <<filesVars, servingVars>>
  \/ Rest

Spec == Init /\ [][Next]_vars
=============================================================================
