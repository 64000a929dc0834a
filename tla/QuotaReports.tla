---------------------------- MODULE QuotaReports ----------------------------
(***************************************************************************)
(* The quota engine (store/src/quota.rs): what vendors say of their usage   *)
(* is polled, by the loop and by the dashboard's refresh at once, and the   *)
(* local counters are raised to it; reports take the larger of the two,     *)
(* and alerts are logged once for each window.                              *)
(*                                                                         *)
(* One vendor and its daily window in the vendor's own unit; the monthly    *)
(* one is alike.  The vendor also serves others with the same key, and not  *)
(* every request that is metered reaches it.                                *)
(***************************************************************************)
EXTENDS Integers, FiniteSets

CONSTANTS
  Poller,      \* polls that may be in progress at once
  AlertAt,     \* alert_pct of the effective budget, as usage
  Effective,   \* the effective budget
  Limit,       \* the vendor's limit
  MaxUsed,     \* bound: the usage of one day
  LastDay,     \* bound: the days of a behaviour
  MaxPolls     \* bound: the polls of a behaviour

Day == 0..LastDay

ASSUME QuotaAssumption ==
  /\ AlertAt \subseteq Nat \ {0} /\ Effective \in Nat \ {0} /\ Limit \in Nat \ {0}
  /\ MaxUsed \in Nat /\ LastDay \in Nat /\ MaxPolls \in Nat

VARIABLES
  day,        \* the day
  own,        \* history: own[d] is what the router has metered
  truth,      \* truth[d]: what the vendor has counted
  local,      \* local[d]: the counter of the day, by which the router decides
  reported,   \* what the last poll brought: the vendor's answer, or nothing after an error
  polls,      \* polls[p]: where poll p is
  started,    \* how many polls there have been
  alerted,    \* what has been logged, for which day
  witnessed,  \* history: the most that a poll of day d has brought on that day
  audited     \* history: what was witnessed when the alerts were checked last

quotaVars == <<day, own, truth, local, reported, polls, started, alerted, witnessed, audited>>

NoPoll == [at |-> "idle", day |-> 0, used |-> 0, sameDay |-> FALSE, local |-> 0]

QuotaInit ==
  /\ day = 0
  /\ own = [d \in Day |-> 0] /\ truth = [d \in Day |-> 0] /\ local = [d \in Day |-> 0]
  /\ reported = {}
  /\ polls = [p \in Poller |-> NoPoll] /\ started = 0
  /\ alerted = {}
  /\ witnessed = [d \in Day |-> 0] /\ audited = [d \in Day |-> 0]

-----------------------------------------------------------------------------
\* A request is metered, and counted by the vendor, or one of the two.
Meter ==
  /\ own[day] < MaxUsed
  /\ own' = [own EXCEPT ![day] = @ + 1]
  /\ local' = [local EXCEPT ![day] = @ + 1]
  /\ \/ truth[day] < MaxUsed /\ truth' = [truth EXCEPT ![day] = @ + 1]
     \/ truth' = truth
  /\ UNCHANGED <<day, reported, polls, started, alerted, witnessed, audited>>

UsedElsewhere ==
  /\ truth[day] < MaxUsed
  /\ truth' = [truth EXCEPT ![day] = @ + 1]
  /\ UNCHANGED <<day, own, local, reported, polls, started, alerted, witnessed, audited>>

NextDay ==
  /\ day < LastDay
  /\ day' = day + 1
  /\ UNCHANGED <<own, truth, local, reported, polls, started, alerted, witnessed, audited>>

-----------------------------------------------------------------------------
(***************************************************************************)
(* poll: `now` is taken once, before the vendors are asked.                 *)
(***************************************************************************)
Poll(p) ==
  /\ polls[p].at = "idle" /\ started < MaxPolls
  /\ started' = started + 1
  /\ polls' = [polls EXCEPT ![p] = [NoPoll EXCEPT !.at = "asking", !.day = day]]
  /\ UNCHANGED <<day, own, truth, local, reported, alerted, witnessed, audited>>

Answered(p) ==
  /\ polls[p].at = "asking"
  /\ polls' = [polls EXCEPT ![p].at = "answered", ![p].used = truth[day], ![p].sameDay = polls[p].day = day]
  /\ UNCHANGED <<day, own, truth, local, reported, started, alerted, witnessed, audited>>

\* An error or no answer in time: the previous report is forgotten.
PollFails(p) ==
  /\ polls[p].at = "asking"
  /\ polls' = [polls EXCEPT ![p] = NoPoll]
  /\ reported' = {}
  /\ UNCHANGED <<day, own, truth, local, started, alerted, witnessed, audited>>

\* reconcile: the counter is read, and what it lacks is added.
ReadLocal(p) ==
  /\ polls[p].at = "answered"
  /\ polls' = [polls EXCEPT ![p].at = "reconciling", ![p].local = local[polls[p].day]]
  /\ UNCHANGED <<day, own, truth, local, reported, started, alerted, witnessed, audited>>

Raised(p) ==
  IF polls[p].used > polls[p].local
  THEN local[polls[p].day] + (polls[p].used - polls[p].local) ELSE local[polls[p].day]

Reconcile(p) ==
  /\ polls[p].at = "reconciling"
  /\ local' = [local EXCEPT ![polls[p].day] = Raised(p)]
  /\ polls' = [polls EXCEPT ![p].at = "reporting"]
  /\ UNCHANGED <<day, own, truth, reported, started, alerted, witnessed, audited>>

Larger(a, b) == IF a < b THEN b ELSE a

Publish(p) ==
  /\ polls[p].at = "reporting"
  /\ reported' = {polls[p].used}
  /\ witnessed' = IF polls[p].sameDay
                  THEN [witnessed EXCEPT ![polls[p].day] = Larger(@, polls[p].used)] ELSE witnessed
  /\ polls' = [polls EXCEPT ![p] = NoPoll]
  /\ UNCHANGED <<day, own, truth, local, started, alerted, audited>>

-----------------------------------------------------------------------------
(***************************************************************************)
(* report and check_alerts.  What was reported yesterday counts until the   *)
(* next poll.                                                               *)
(***************************************************************************)
\* Mutant: the vendor's word is enough where there is one.
MutantVendorOnly(d) == IF reported = {} THEN local[d] ELSE CHOOSE u \in reported : TRUE
Report(d) == IF \E u \in reported : u > local[d] THEN CHOOSE u \in reported : TRUE ELSE local[d]

State(used) == IF used >= Limit THEN {"exhausted"} ELSE IF used >= Effective THEN {"reserve"} ELSE {}
Due(d) == {[day |-> d, what |-> "percent", at |-> t] : t \in {t \in AlertAt : Report(d) >= t}}
          \cup {[day |-> d, what |-> s, at |-> 0] : s \in State(Report(d))}

CheckAlerts ==
  /\ alerted' = alerted \cup Due(day)
  /\ audited' = [audited EXCEPT ![day] = witnessed[day]]
  /\ UNCHANGED <<day, own, truth, local, reported, polls, started, witnessed>>

PollStep(p) == Poll(p) \/ Answered(p) \/ PollFails(p) \/ ReadLocal(p) \/ Reconcile(p) \/ Publish(p)

QuotaNext == Meter \/ UsedElsewhere \/ NextDay \/ (\E p \in Poller : PollStep(p)) \/ CheckAlerts

QuotaSpec == QuotaInit /\ [][QuotaNext]_quotaVars

-----------------------------------------------------------------------------
(***************************************************************************)
(* Properties.                                                              *)
(***************************************************************************)
(* The counters err on the safe side: in any order of polls and requests, the counter by
   which the router decides is never below what it has metered itself, nor below what a
   vendor has said on the day of the poll; a report says no less, though later polls may
   have failed; and what was over a threshold when the alerts were checked has been told. *)
NeverUnderCounted ==
  \A d \in Day :
    /\ local[d] >= own[d] /\ local[d] >= witnessed[d]
    /\ Report(d) >= witnessed[d]
    /\ \A t \in AlertAt : audited[d] >= t => [day |-> d, what |-> "percent", at |-> t] \in alerted
    /\ audited[d] >= Effective =>
         \E s \in {"reserve", "exhausted"} : [day |-> d, what |-> s, at |-> 0] \in alerted
=============================================================================
