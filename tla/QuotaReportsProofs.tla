------------------------- MODULE QuotaReportsProofs -------------------------
(***************************************************************************)
(* Theorems about QuotaReports, for any number of polls, requests and days. *)
(***************************************************************************)
EXTENDS QuotaReports, TLAPS

PollRecord ==
  [at : {"idle", "asking", "answered", "reconciling", "reporting"},
   day : Day, used : Nat, sameDay : BOOLEAN, local : Nat]

QuotaTypeOK ==
  /\ day \in Day
  /\ own \in [Day -> Nat] /\ truth \in [Day -> Nat] /\ local \in [Day -> Nat]
  /\ witnessed \in [Day -> Nat] /\ audited \in [Day -> Nat]
  /\ reported = {} \/ \E u \in Nat : reported = {u}
  /\ polls \in [Poller -> PollRecord]

\* The counter is never below what was metered, what was witnessed, or what a poll has read of it
\* or is about to publish.
Counted ==
  /\ \A d \in Day : local[d] >= own[d] /\ local[d] >= witnessed[d]
  /\ \A p \in Poller :
       /\ polls[p].at = "reconciling" => local[polls[p].day] >= polls[p].local
       /\ polls[p].at = "reporting" => local[polls[p].day] >= polls[p].used

\* What was witnessed at a check of the alerts has been told.
Told ==
  \A d \in Day :
    /\ \A t \in AlertAt : audited[d] >= t => [day |-> d, what |-> "percent", at |-> t] \in alerted
    /\ audited[d] >= Effective =>
         \E s \in {"reserve", "exhausted"} : [day |-> d, what |-> s, at |-> 0] \in alerted

QuotaInv == QuotaTypeOK /\ Counted /\ Told

-----------------------------------------------------------------------------
(* A report is a number, and not below the counter. *)
LEMMA ReportIsLarger ==
  ASSUME QuotaTypeOK, NEW d \in Day
  PROVE  Report(d) \in Nat /\ Report(d) >= local[d]
<1>1. local[d] \in Nat
  BY DEF QuotaTypeOK
<1>2. CASE \E u \in reported : u > local[d]
  <2>1. PICK w \in Nat : reported = {w}
    BY <1>2 DEF QuotaTypeOK
  <2>2. (CHOOSE u \in reported : TRUE) = w /\ w > local[d]
    BY <1>2, <2>1
  <2>3. Report(d) = w
    BY <1>2, <2>2 DEF Report
  <2>4. QED
    BY <1>1, <2>2, <2>3
<1>3. CASE ~(\E u \in reported : u > local[d])
  BY <1>1, <1>3 DEF Report
<1>4. QED
  BY <1>2, <1>3

(* What the invariant says is what the property claims. *)
LEMMA InvSuffices == QuotaInv => NeverUnderCounted
<1> SUFFICES ASSUME QuotaInv, NEW d \in Day
             PROVE  /\ local[d] >= own[d] /\ local[d] >= witnessed[d]
                    /\ Report(d) >= witnessed[d]
    BY DEF NeverUnderCounted, QuotaInv, Told
<1>1. Report(d) \in Nat /\ Report(d) >= local[d]
  BY ReportIsLarger DEF QuotaInv
<1>2. QED
  BY <1>1 DEF QuotaInv, QuotaTypeOK, Counted

LEMMA QuotaInitInv == QuotaInit => QuotaInv
<1> SUFFICES ASSUME QuotaInit PROVE QuotaInv
  OBVIOUS
<1>1. 0 \in Day
  BY QuotaAssumption DEF Day
<1>2. QuotaTypeOK
  BY <1>1 DEF QuotaInit, QuotaTypeOK, NoPoll, PollRecord
<1>3. Counted
  BY DEF QuotaInit, Counted, NoPoll
<1>4. Told
  BY QuotaAssumption DEF QuotaInit, Told
<1>5. QED
  BY <1>2, <1>3, <1>4 DEF QuotaInv

(* Requests and days: the counter only grows, and a day is what its counters are of. *)
LEMMA UsageStep ==
  ASSUME QuotaInv, Meter \/ UsedElsewhere \/ NextDay
  PROVE  QuotaInv'
<1>1. /\ UNCHANGED <<reported, polls, alerted, witnessed, audited>>
      /\ \A d \in Day : local'[d] >= local[d]
  BY DEF Meter, UsedElsewhere, NextDay, QuotaInv, QuotaTypeOK
<1>2. QuotaTypeOK'
  <2>1. /\ day' \in Day
        /\ own' \in [Day -> Nat] /\ truth' \in [Day -> Nat] /\ local' \in [Day -> Nat]
    <3>1. CASE Meter
      BY <3>1 DEF Meter, QuotaInv, QuotaTypeOK
    <3>2. CASE UsedElsewhere
      BY <3>2 DEF UsedElsewhere, QuotaInv, QuotaTypeOK
    <3>3. CASE NextDay
      <4>1. day \in Day /\ day' = day + 1 /\ day < LastDay
        BY <3>3 DEF NextDay, QuotaInv, QuotaTypeOK
      <4>2. day' \in Day
        BY <4>1, QuotaAssumption DEF Day
      <4>3. QED
        BY <3>3, <4>2 DEF NextDay, QuotaInv, QuotaTypeOK
    <3>4. QED
      BY <3>1, <3>2, <3>3
  <2>2. QED
    BY <1>1, <2>1 DEF QuotaInv, QuotaTypeOK
<1>3. \A d \in Day : local'[d] >= own'[d]
  BY DEF Meter, UsedElsewhere, NextDay, QuotaInv, QuotaTypeOK, Counted
<1>4. \A d \in Day : local'[d] >= witnessed'[d]
  BY <1>1, <1>2 DEF QuotaInv, QuotaTypeOK, Counted
<1>5. \A p \in Poller :
        /\ polls[p].day \in Day /\ polls[p].used \in Nat /\ polls[p].local \in Nat
        /\ local[polls[p].day] \in Nat /\ local'[polls[p].day] \in Nat
  BY <1>2 DEF QuotaInv, QuotaTypeOK, PollRecord
<1>6. Counted'
  BY <1>1, <1>3, <1>4, <1>5 DEF QuotaInv, Counted
<1>7. Told'
  BY <1>1 DEF QuotaInv, Told
<1>8. QED
  BY <1>2, <1>6, <1>7 DEF QuotaInv

(* A poll: it reads the counter before it adds, and publishes what the counter has reached. *)
LEMMA PollKeeps ==
  ASSUME QuotaInv, NEW p \in Poller, PollStep(p)
  PROVE  QuotaInv'
<1> USE DEF QuotaInv
<1>0. NoPoll \in PollRecord
  BY QuotaAssumption DEF NoPoll, PollRecord, Day
<1>1. /\ UNCHANGED <<day, own, truth, alerted, audited>>
      /\ \A q \in Poller \ {p} : polls'[q] = polls[q]
  BY DEF PollStep, Poll, Answered, PollFails, ReadLocal, Reconcile, Publish, QuotaTypeOK
<1>2. Told'
  BY <1>1 DEF Told
<1>3. polls[p] \in PollRecord /\ \A q \in Poller : polls[q] \in PollRecord
  BY DEF QuotaTypeOK
<1>4. CASE Poll(p) \/ Answered(p) \/ PollFails(p)
  <2>1. /\ UNCHANGED <<local, witnessed>>
        /\ reported' = reported \/ reported' = {}
        /\ \E r \in PollRecord : polls' = [polls EXCEPT ![p] = r] /\ r.at \in {"idle", "asking", "answered"}
    <3>1. CASE Poll(p)
      <4> DEFINE r == [NoPoll EXCEPT !.at = "asking", !.day = day]
      <4>1. r \in PollRecord /\ r.at = "asking"
        BY <1>0 DEF PollRecord, QuotaTypeOK
      <4>2. QED
        BY <3>1, <4>1 DEF Poll
    <3>2. CASE Answered(p)
      <4> DEFINE r == [polls[p] EXCEPT !.at = "answered", !.used = truth[day], !.sameDay = polls[p].day = day]
      <4>1. r \in PollRecord /\ r.at = "answered"
        BY <1>3 DEF PollRecord, QuotaTypeOK
      <4>2. polls' = [polls EXCEPT ![p] = r]
        BY <3>2 DEF Answered, QuotaTypeOK
      <4>3. QED
        BY <3>2, <4>1, <4>2 DEF Answered
    <3>3. CASE PollFails(p)
      BY <1>0, <3>3 DEF PollFails, NoPoll
    <3>4. QED
      BY <1>4, <3>1, <3>2, <3>3
  <2>2. polls'[p].at \in {"idle", "asking", "answered"} /\ QuotaTypeOK'
    BY <1>1, <2>1 DEF QuotaTypeOK
  <2>3. Counted'
    BY <1>1, <2>1, <2>2 DEF Counted
  <2>4. QED
    BY <1>2, <2>2, <2>3
<1>5. CASE ReadLocal(p)
  <2>1. QuotaTypeOK'
    BY <1>3, <1>5 DEF ReadLocal, QuotaTypeOK, PollRecord
  <2>2. /\ UNCHANGED <<local, witnessed>>
        /\ polls'[p].at = "reconciling" /\ polls'[p].day = polls[p].day
        /\ polls'[p].local = local[polls[p].day]
    BY <1>3, <1>5 DEF ReadLocal, QuotaTypeOK, PollRecord
  <2>3. Counted'
    BY <1>1, <1>3, <2>2 DEF Counted, QuotaTypeOK, PollRecord
  <2>4. QED
    BY <1>2, <2>1, <2>3
<1>6. CASE Reconcile(p)
  <2> DEFINE d == polls[p].day
  <2>1. /\ d \in Day /\ local[d] \in Nat /\ polls[p].used \in Nat /\ polls[p].local \in Nat
        /\ local[d] >= polls[p].local
    BY <1>3, <1>6 DEF Reconcile, QuotaTypeOK, PollRecord, Counted
  <2>2. Raised(p) \in Nat /\ Raised(p) >= local[d] /\ Raised(p) >= polls[p].used
    BY <2>1 DEF Raised
  <2>3. /\ UNCHANGED <<witnessed, reported>>
        /\ polls' = [polls EXCEPT ![p].at = "reporting"]
        /\ local' = [local EXCEPT ![d] = Raised(p)]
    BY <1>6 DEF Reconcile
  <2>4. QuotaTypeOK'
    BY <1>1, <1>3, <2>1, <2>2, <2>3 DEF QuotaTypeOK, PollRecord
  <2>5. /\ \A e \in Day : local[e] \in Nat /\ local'[e] \in Nat /\ local'[e] >= local[e]
        /\ local'[d] >= polls[p].used
    BY <2>1, <2>2, <2>3 DEF QuotaTypeOK
  <2>6. \A e \in Day : local'[e] >= own'[e] /\ local'[e] >= witnessed'[e]
    BY <1>1, <2>3, <2>5 DEF QuotaTypeOK, Counted
  <2>7. polls'[p].at = "reporting" /\ polls'[p].day = d /\ polls'[p].used = polls[p].used
    BY <1>3, <2>3 DEF QuotaTypeOK, PollRecord
  <2>8. ASSUME NEW q \in Poller
        PROVE  /\ polls'[q].at = "reconciling" => local'[polls'[q].day] >= polls'[q].local
               /\ polls'[q].at = "reporting" => local'[polls'[q].day] >= polls'[q].used
    <3>1. CASE q = p
      BY <2>5, <2>7, <3>1
    <3>2. CASE q # p
      <4>1. polls'[q] = polls[q] /\ polls[q] \in PollRecord
        BY <1>1, <1>3, <3>2
      <4>2. polls[q].day \in Day /\ polls[q].used \in Nat /\ polls[q].local \in Nat
        BY <4>1 DEF PollRecord
      <4>3. QED
        BY <2>5, <4>1, <4>2 DEF Counted
    <3>3. QED
      BY <3>1, <3>2
  <2>9. QED
    BY <1>2, <2>4, <2>6, <2>8 DEF Counted
<1>7. CASE Publish(p)
  <2> DEFINE d == polls[p].day
  <2>1. /\ d \in Day /\ polls[p].used \in Nat /\ local[d] \in Nat /\ witnessed[d] \in Nat
        /\ local[d] >= polls[p].used
    BY <1>3, <1>7 DEF Publish, QuotaTypeOK, PollRecord, Counted
  <2>2. /\ Larger(witnessed[d], polls[p].used) \in Nat
        /\ local[d] >= Larger(witnessed[d], polls[p].used)
    BY <2>1 DEF Larger, Counted
  <2>3. /\ UNCHANGED local
        /\ polls' = [polls EXCEPT ![p] = NoPoll]
        /\ reported' = {polls[p].used}
        /\ \/ witnessed' = witnessed
           \/ witnessed' = [witnessed EXCEPT ![d] = Larger(witnessed[d], polls[p].used)]
    BY <1>7 DEF Publish
  <2>4. QuotaTypeOK'
    BY <1>0, <1>1, <2>1, <2>2, <2>3 DEF QuotaTypeOK
  <2>5. \A e \in Day : local[e] >= witnessed'[e]
    BY <2>1, <2>2, <2>3 DEF QuotaTypeOK, Counted
  <2>6. polls'[p].at = "idle"
    BY <2>3 DEF QuotaTypeOK, NoPoll
  <2>7. Counted'
    BY <1>1, <2>3, <2>5, <2>6 DEF Counted
  <2>8. QED
    BY <1>2, <2>4, <2>7
<1>8. QED
  BY <1>4, <1>5, <1>6, <1>7 DEF PollStep

(* A check of the alerts tells of all that the report is over. *)
LEMMA AlertStep ==
  ASSUME QuotaInv, CheckAlerts
  PROVE  QuotaInv'
<1>1. /\ UNCHANGED <<day, own, truth, local, reported, polls, witnessed>>
      /\ day \in Day /\ witnessed[day] \in Nat /\ local[day] \in Nat
      /\ audited' = [audited EXCEPT ![day] = witnessed[day]]
      /\ alerted' = alerted \cup Due(day)
  BY DEF CheckAlerts, QuotaInv, QuotaTypeOK
<1>2. QuotaTypeOK' /\ Counted'
  BY <1>1 DEF QuotaInv, QuotaTypeOK, Counted
<1>3. Report(day) \in Nat /\ Report(day) >= witnessed[day]
  <2>1. Report(day) \in Nat /\ Report(day) >= local[day]
    BY <1>1, ReportIsLarger DEF QuotaInv
  <2>2. local[day] >= witnessed[day]
    BY <1>1 DEF QuotaInv, Counted
  <2>3. QED
    BY <1>1, <2>1, <2>2
<1>4. \A t \in AlertAt : witnessed[day] >= t =>
        [day |-> day, what |-> "percent", at |-> t] \in Due(day)
  <2>1. SUFFICES ASSUME NEW t \in AlertAt, witnessed[day] >= t
        PROVE  [day |-> day, what |-> "percent", at |-> t] \in Due(day)
    OBVIOUS
  <2>2. Report(day) >= t
    BY <1>1, <1>3, <2>1, QuotaAssumption
  <2>3. QED
    BY <2>2 DEF Due
<1>5. witnessed[day] >= Effective =>
        \E s \in {"reserve", "exhausted"} : [day |-> day, what |-> s, at |-> 0] \in Due(day)
  <2>1. SUFFICES ASSUME witnessed[day] >= Effective
        PROVE  \E s \in {"reserve", "exhausted"} : [day |-> day, what |-> s, at |-> 0] \in Due(day)
    OBVIOUS
  <2>2. Report(day) >= Effective
    BY <1>1, <1>3, <2>1, QuotaAssumption
  <2>3. PICK s \in {"reserve", "exhausted"} : s \in State(Report(day))
    BY <2>2 DEF State
  <2>4. [day |-> day, what |-> s, at |-> 0] \in Due(day)
    BY <2>3 DEF Due
  <2>5. QED
    BY <2>4
<1>6. Told'
  <2>1. SUFFICES ASSUME NEW d \in Day
        PROVE  /\ \A t \in AlertAt : audited'[d] >= t =>
                    [day |-> d, what |-> "percent", at |-> t] \in alerted'
               /\ audited'[d] >= Effective =>
                    \E s \in {"reserve", "exhausted"} : [day |-> d, what |-> s, at |-> 0] \in alerted'
    BY DEF Told
  <2>2. CASE d = day
    BY <1>1, <1>4, <1>5, <2>2 DEF QuotaInv, QuotaTypeOK
  <2>3. CASE d # day
    BY <1>1, <2>3 DEF QuotaInv, QuotaTypeOK, Told
  <2>4. QED
    BY <2>2, <2>3
<1>7. QED
  BY <1>2, <1>6 DEF QuotaInv

LEMMA QuotaNextInv == QuotaInv /\ [QuotaNext]_quotaVars => QuotaInv'
<1> SUFFICES ASSUME QuotaInv, [QuotaNext]_quotaVars PROVE QuotaInv'
  OBVIOUS
<1>1. CASE UNCHANGED quotaVars
  BY <1>1 DEF quotaVars, QuotaInv, QuotaTypeOK, Counted, Told
<1>2. CASE Meter \/ UsedElsewhere \/ NextDay
  BY <1>2, UsageStep
<1>3. ASSUME NEW p \in Poller, PollStep(p) PROVE QuotaInv'
  BY <1>3, PollKeeps
<1>4. CASE CheckAlerts
  BY <1>4, AlertStep
<1>5. QED
  BY <1>1, <1>2, <1>3, <1>4 DEF QuotaNext

(* However polls, requests and midnights interleave, the counter the router decides by and the
   report are at least what was metered and what a vendor has said that day, and what was over a
   threshold at a check of the alerts has been logged. *)
THEOREM CountersErrSafe == QuotaSpec => []NeverUnderCounted
<1>1. QuotaInv => NeverUnderCounted
  BY InvSuffices
<1>2. QED
  BY <1>1, QuotaInitInv, QuotaNextInv, PTL DEF QuotaSpec
=============================================================================
