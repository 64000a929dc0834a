--------------------------- MODULE RoutingProofs ---------------------------
(***************************************************************************)
(* Theorems about Routing, for every set of vendors and requests, every     *)
(* table, threshold, cooldown and number of retries: the breakers and the   *)
(* calls of the vendors, then what the strategies promise, return and       *)
(* spend, whatever order they ask in and whatever vendors answer.           *)
(***************************************************************************)
EXTENDS Routing, FiniteSetTheorems, WellFoundedInduction, TLAPS

-----------------------------------------------------------------------------
(***************************************************************************)
(* Lemmas about the operators of VendorState.                               *)
(***************************************************************************)

(* A recorded delay, announced or default, is a length of time. *)
LEMMA MarkLengthType ==
  ASSUME NEW a, NEW after \in Delay \cup {NoDelay}
  PROVE  MarkLength(a, after) \in Nat
BY DelayAssumption DEF MarkLength, NoDelay

(* Recording an answer keeps a vendor state well formed (RuntimeState::record). *)
LEMMA RecordType ==
  ASSUME NEW s \in State, NEW composite \in BOOLEAN, NEW a, NEW after \in Delay \cup {NoDelay}
  PROVE  Record(s, composite, a, after) \in State
<1>1. CountFailure(s) \in State
  <2>1. s.fails \in Nat /\ 0 \in 0..(Threshold - 1)
    BY ThresholdAssumption DEF State
  <2>2. CASE s.breaker = "closed" /\ s.fails + 1 < Threshold
    <3>1. s.fails + 1 \in 0..(Threshold - 1)
      BY <2>1, <2>2, ThresholdAssumption
    <3>2. CountFailure(s) = [s EXCEPT !.fails = s.fails + 1]
      BY <2>2 DEF CountFailure
    <3>3. QED
      BY <3>1, <3>2 DEF State
  <2>3. CASE ~(s.breaker = "closed" /\ s.fails + 1 < Threshold)
    <3>1. CountFailure(s) = [s EXCEPT !.breaker = "open", !.fails = 0, !.cool = Cooldown]
      BY <2>3 DEF CountFailure
    <3>2. QED
      BY <3>1, <2>1, DelayAssumption DEF State
  <2>4. QED
    BY <2>2, <2>3
<1>2. \A t \in State : CloseBreaker(t) \in State
  <2>1. 0 \in 0..(Threshold - 1) /\ 0 \in Nat
    BY ThresholdAssumption
  <2>2. QED
    BY <2>1 DEF CloseBreaker, State
<1>3. SetMark(s, MarkLength(a, after)) \in State
  BY MarkLengthType DEF SetMark, State
<1>4. QED
  BY <1>1, <1>2, <1>3 DEF Record

(* So do the other operations on a vendor state. *)
LEMMA StateTypes ==
  ASSUME NEW s \in State, NEW after \in Delay \cup {NoDelay}
  PROVE  /\ Admitted(s) \in State
         /\ RecordRateLimit(s, after) \in State
         /\ Elapse(s) \in State
<1>1. Admitted(s) \in State
  BY DEF Admitted, State
<1>2. RecordRateLimit(s, after) \in State
  BY DelayAssumption DEF RecordRateLimit, SetMark, State, NoDelay
<1>3. Elapse(s) \in State
  <2>1. Countdown(s.cool) \in Nat /\ Countdown(s.mark) \in Nat
    BY DEF Countdown, State
  <2>2. QED
    BY <2>1 DEF Elapse, State
<1>4. QED
  BY <1>1, <1>2, <1>3

-----------------------------------------------------------------------------
(***************************************************************************)
(* Lemmas about requests.                                                   *)
(***************************************************************************)

(* A nonempty set of positions has a first one. *)
LEMMA FirstIn ==
  ASSUME NEW S \in SUBSET Slot, S # {}
  PROVE  First(S) \in S /\ \A j \in S : First(S) <= j
<1>1. S \subseteq Nat
  BY DEF Slot
<1> DEFINE Less == {p \in Nat \X Nat : p[1] < p[2]}
<1>2. IsWellFoundedOn(Less, Nat)
  BY NatLessThanWellFounded, Zenon DEF OpToRel
<1>3. PICK x \in S : \A y \in S : <<y, x>> \notin Less
  BY <1>1, <1>2, WFMin
<1>4. \A j \in S : x <= j
  <2> SUFFICES ASSUME NEW j \in S PROVE ~(j < x)
    BY <1>1
  <2>1. j \in Nat /\ x \in Nat
    BY <1>1
  <2>2. j < x => <<j, x>> \in Less
    BY <2>1
  <2>3. QED
    BY <1>3, <2>2
<1>5. QED
  BY <1>4 DEF First

(* What a request returns is well formed, whatever its rows say (route_error, provenance). *)
LEMMA ResultType ==
  ASSUME NEW r \in Request
  PROVE  Result(r) \in Outcome
<1>1. ErrorCode(r) \in Code
  BY DEF ErrorCode, Code
<1>2. \A c \in Code : Failed(c) \in Outcome
  BY DEF Failed, NoResult, Outcome, Code, Source
<1>3. ASSUME Oks(r) # {}
      PROVE  [code |-> "ok", winner |-> First(Oks(r)), source |-> SourceOf(r, First(Oks(r)))]
               \in Outcome
  <2>1. First(Oks(r)) \in Slot
    BY <1>3, FirstIn DEF Oks, Rows
  <2>2. SourceOf(r, First(Oks(r))) \in Source
    BY DEF SourceOf, Source
  <2>3. QED
    BY <2>1, <2>2 DEF Outcome, Code
<1>4. "CONFLICT" \in Code
  BY DEF Code
<1>5. NoResult \in Outcome
  BY DEF NoResult, Outcome, Source
<1>6. QED
  BY <1>1, <1>2, <1>3, <1>4, <1>5 DEF Result

-----------------------------------------------------------------------------
(***************************************************************************)
(* Type correctness: one lemma per group of actions.                        *)
(***************************************************************************)

(* The history the properties read keeps its type. *)
LEMMA SeenTypes ==
  ASSUME NEW h \in SeenRecord, NEW a, NEW after \in Delay \cup {NoDelay}
  PROVE  Observe(h, a, after) \in SeenRecord /\ Age(h) \in SeenRecord
<1>1. MarkLength(a, after) \in Nat /\ Countdown(h.promised) \in Nat
  BY MarkLengthType DEF Countdown, SeenRecord
<1>2. /\ 0 \in 0..Threshold /\ 0 \in 0..Cooldown
      /\ (IF h.streak < Threshold THEN h.streak + 1 ELSE h.streak) \in 0..Threshold
      /\ (IF h.quiet < Cooldown THEN h.quiet + 1 ELSE h.quiet) \in 0..Cooldown
  BY ThresholdAssumption, DelayAssumption DEF SeenRecord
<1>3. Observe(h, a, after) \in SeenRecord
  BY <1>1, <1>2 DEF Observe, SeenRecord
<1>4. Age(h) \in SeenRecord
  BY <1>1, <1>2 DEF Age, SeenRecord
<1>5. QED
  BY <1>3, <1>4

(* The answers a vendor can give. *)
LEMMA AnswersType ==
  ASSUME NEW x \in Answers
  PROVE  x[1] \in Key \cup ErrorKind /\ x[2] \in Delay \cup {NoDelay}
BY RoutingAssumption DEF Answers

(* The initial states are well formed. *)
LEMMA InitType == Init => TypeOK
<1> SUFFICES ASSUME Init PROVE TypeOK
  OBVIOUS
<1>1. Fresh \in State
  BY ThresholdAssumption DEF Fresh, State
<1>2. NothingSeen \in SeenRecord
  BY ThresholdAssumption, DelayAssumption DEF NothingSeen, SeenRecord
<1>3. NoResult \in Outcome
  BY DEF NoResult, Outcome, Source
<1>4. "none" \in Row /\ 0 \in 0..UsedBound /\ 0 \in 0..Retries
  BY RoutingAssumption DEF Row
<1>5. QED
  BY <1>1, <1>2, <1>3, <1>4 DEF Init, TypeOK

(* Starting a request keeps the types. *)
LEMMA StartType ==
  ASSUME TypeOK, NEW r \in Request, NEW m \in Mode, Start(r, m)
  PROVE  TypeOK'
<1>1. NoResult \in Outcome
  BY DEF NoResult, Outcome, Source
<1>2. "none" \in Row /\ 0 \in 0..Retries
  BY RoutingAssumption DEF Row
<1>3. QED
  BY <1>1, <1>2 DEF TypeOK, Start, state

(* So does filtering one vendor, if what it leaves in the vendor state is well typed. *)
LEMMA FilteredType ==
  ASSUME TypeOK, NEW r \in Request, NEW what \in Row, Filtered(r, what),
         vendor' \in [Vendor -> State]
  PROVE  TypeOK'
<1>1. row' \in [Request -> [Slot -> Row]]
  <2>1. [row[r] EXCEPT ![pos[r]] = what] \in [Slot -> Row]
    BY DEF TypeOK
  <2>2. row' = [row EXCEPT ![r] = [row[r] EXCEPT ![pos[r]] = what]]
    BY DEF TypeOK, Filtered
  <2>3. QED
    BY <2>1, <2>2 DEF TypeOK
<1>2. pos' \in [Request -> Nat]
  <2>1. pos[r] + 1 \in Nat /\ 1 \in Nat
    BY DEF TypeOK
  <2>2. QED
    BY <2>1 DEF TypeOK, Filtered
<1>3. pc' \in [Request -> {"done", "quota", "breaker", "running"}]
  <2>1. pc' = [pc EXCEPT ![r] = "quota"] \/ pc' = [pc EXCEPT ![r] = "running"]
    BY DEF Filtered
  <2>2. QED
    BY <2>1 DEF TypeOK
<1>4. QED
  BY <1>1, <1>2, <1>3 DEF TypeOK, Filtered

(* So do both halves of candidates(). *)
LEMMA CheckType ==
  ASSUME TypeOK, NEW r \in Request, CheckQuota(r) \/ CheckBreaker(r)
  PROVE  TypeOK'
<1>1. SkipReason \cup {"listed"} \subseteq Row
  BY DEF Row
<1>2. CASE CheckQuota(r)
  <2>1. CASE \E what \in SkipReason : Filtered(r, what) /\ UNCHANGED vendor
    BY <1>1, <2>1, FilteredType DEF TypeOK
  <2>2. CASE /\ pc' = [pc EXCEPT ![r] = "breaker"]
             /\ UNCHANGED <<table, state, mode, snap, pos, row, tries, res>>
    BY <2>2 DEF TypeOK, state
  <2>3. QED
    <3>1. {"unusable", "marked_exhausted", "quota_reserve"} \subseteq SkipReason
      BY DEF SkipReason
    <3>2. \/ \E what \in SkipReason : Filtered(r, what) /\ UNCHANGED vendor
          \/ /\ pc' = [pc EXCEPT ![r] = "breaker"]
             /\ UNCHANGED <<table, state, mode, snap, pos, row, tries, res>>
      BY <1>2, <3>1 DEF CheckQuota
    <3>3. QED
      BY <2>1, <2>2, <3>2
<1>3. CASE CheckBreaker(r)
  <2>1. vendor' \in [Vendor -> State]
    <3>1. vendor' = vendor \/ vendor' = [vendor EXCEPT ![At(r, pos[r])] = Admitted(@)]
      BY <1>3 DEF CheckBreaker
    <3>2. \A v \in Vendor : Admitted(vendor[v]) \in State
      BY StateTypes DEF TypeOK, NoDelay
    <3>3. QED
      BY <3>1, <3>2 DEF TypeOK
  <2>2. \E what \in Row : Filtered(r, what)
    BY <1>1, <1>3 DEF CheckBreaker, SkipReason
  <2>3. QED
    BY <2>1, <2>2, FilteredType
<1>4. QED
  BY <1>2, <1>3

(* So does the strategy, whether it asks or returns. *)
LEMMA AdvanceType ==
  ASSUME TypeOK, NEW r \in Request, Advance(r)
  PROVE  TypeOK'
<1>1. "acquire" \in Row
  BY DEF Row, InFlightRow
<1>2. Result(r) \in Outcome
  BY ResultType
<1>3. CASE NextAsked(r) # {}
  <2>1. [i \in Slot |-> IF i \in NextAsked(r) THEN "acquire" ELSE row[r][i]] \in [Slot -> Row]
    BY <1>1 DEF TypeOK
  <2>2. row' = [row EXCEPT ![r] =
                 [i \in Slot |-> IF i \in NextAsked(r) THEN "acquire" ELSE row[r][i]]]
    BY <1>3 DEF Advance, TypeOK
  <2>3. row' \in [Request -> [Slot -> Row]]
    BY <2>1, <2>2 DEF TypeOK
  <2>4. QED
    BY <1>3, <2>3 DEF Advance, TypeOK, state
<1>4. CASE NextAsked(r) = {}
  BY <1>2, <1>4 DEF Advance, TypeOK, state
<1>5. QED
  BY <1>3, <1>4

(* So do the steps of one attempt(). *)
LEMMA AttemptType ==
  ASSUME TypeOK, NEW r \in Request, NEW i \in Slot, Attempt(r, i)
  PROVE  TypeOK'
<1>1. InFlightRow \cup Key \cup ErrorKind \cup {"local"} \subseteq Row
  BY DEF Row, Final
<1>2. ASSUME SendCall(r, i) PROVE TypeOK'
  <2>1. \A n \in 0..UsedBound : (IF n < UsedBound THEN n + 1 ELSE n) \in 0..UsedBound
    BY RoutingAssumption
  <2>2. used' \in [Vendor -> 0..UsedBound]
    BY <1>2, <2>1 DEF SendCall, TypeOK
  <2>3. row' \in [Request -> [Slot -> Row]]
    BY <1>1, <1>2 DEF SendCall, TypeOK, InFlightRow
  <2>4. QED
    BY <1>2, <2>2, <2>3 DEF SendCall, TypeOK
<1>3. CASE Refuse(r, i)
  BY <1>1, <1>3 DEF Refuse, TypeOK, state
<1>4. ASSUME NEW d \in Delay \cup {NoDelay}, Headers(r, i, d) PROVE TypeOK'
  BY <1>4, StateTypes DEF Headers, TypeOK, request
<1>5. ASSUME NEW x \in Answers, Answer(r, i, x[1], x[2]) PROVE TypeOK'
  <2> DEFINE a == x[1]
             after == x[2]
  <2>1. a \in Key \cup ErrorKind /\ after \in Delay \cup {NoDelay}
    BY AnswersType
  <2>2. vendor' \in [Vendor -> State]
    <3>1. ASSUME NEW v \in Vendor
          PROVE  Record(vendor[v], v \in Composite, a, after) \in State
      <4>1. vendor[v] \in State /\ (v \in Composite) \in BOOLEAN
        BY DEF TypeOK
      <4>2. QED
        BY <2>1, <4>1, RecordType
    <3>2. At(r, i) \in Vendor => Record(vendor[At(r, i)], At(r, i) \in Composite, a, after) \in State
      BY <3>1
    <3>3. vendor' = [vendor EXCEPT ![At(r, i)] =
                       Record(vendor[At(r, i)], At(r, i) \in Composite, a, after)]
      BY <1>5 DEF Answer
    <3>4. QED
      BY <3>2, <3>3 DEF TypeOK
  <2>3. seen' \in [Vendor -> SeenRecord]
    BY <1>5, <2>1, SeenTypes DEF Answer, TypeOK
  <2>4. \A w \in Row, n \in 0..Retries :
          /\ [row EXCEPT ![r][i] = w] \in [Request -> [Slot -> Row]]
          /\ [tries EXCEPT ![r][i] = n] \in [Request -> [Slot -> 0..Retries]]
    <3>1. \A w \in Row : [row EXCEPT ![r][i] = w] \in [Request -> [Slot -> Row]]
      BY DEF TypeOK
    <3>2. \A n \in 0..Retries :
            [tries EXCEPT ![r][i] = n] \in [Request -> [Slot -> 0..Retries]]
      BY DEF TypeOK
    <3>3. QED
      BY <3>1, <3>2
  <2>5. CASE a \in RetryableKind /\ tries[r][i] < Retries
    <3>1. tries[r][i] + 1 \in 0..Retries
      BY <2>5, RoutingAssumption DEF TypeOK
    <3>2. "backoff" \in Row
      BY <1>1 DEF InFlightRow
    <3>3. /\ row' = [row EXCEPT ![r][i] = "backoff"]
          /\ tries' = [tries EXCEPT ![r][i] = tries[r][i] + 1]
      BY <1>5, <2>5 DEF Answer, TypeOK
    <3>4. QED
      BY <1>5, <2>2, <2>3, <2>4, <3>1, <3>2, <3>3 DEF Answer, TypeOK
  <2>6. CASE ~(a \in RetryableKind /\ tries[r][i] < Retries)
    <3>1. row' = [row EXCEPT ![r][i] = a] /\ tries' = tries
      BY <1>5, <2>6 DEF Answer
    <3>2. a \in Row /\ 0 \in 0..Retries
      BY <1>1, <2>1, RoutingAssumption
    <3>3. QED
      BY <1>5, <2>2, <2>3, <2>4, <3>1, <3>2 DEF Answer, TypeOK
  <2>7. QED
    BY <2>5, <2>6
<1>6. QED
  BY <1>2, <1>3, <1>4, <1>5 DEF Attempt, Acquire, Retry

(* So do cancellation, a table swap, time and a new window. *)
LEMMA EnvironmentType ==
  ASSUME TypeOK,
         (\E r \in Request : Cancel(r)) \/ (\E t \in Table : Swap(t)) \/ Tick \/ NewWindow
  PROVE  TypeOK'
<1>1. ASSUME NEW r \in Request, Cancel(r) PROVE TypeOK'
  <2>1. Cancelled \in Outcome
    BY DEF Cancelled, NoResult, Outcome, Source
  <2>2. "none" \in Row /\ 0 \in 0..Retries
    BY RoutingAssumption DEF Row
  <2>3. QED
    BY <1>1, <2>1, <2>2 DEF Cancel, TypeOK, state
<1>2. ASSUME NEW t \in Table, Swap(t) PROVE TypeOK'
  BY <1>2 DEF Swap, TypeOK, state, request
<1>3. CASE Tick
  <2>1. \A v \in Vendor : Elapse(vendor[v]) \in State /\ Age(seen[v]) \in SeenRecord
    BY StateTypes, SeenTypes DEF TypeOK
  <2>2. QED
    BY <1>3, <2>1 DEF Tick, TypeOK, request
<1>4. CASE NewWindow
  <2>1. 0 \in 0..UsedBound
    BY RoutingAssumption
  <2>2. QED
    BY <1>4, <2>1 DEF NewWindow, TypeOK, request
<1>5. QED
  BY <1>1, <1>2, <1>3, <1>4

(* Every step keeps the types. *)
LEMMA TypeStep ==
  ASSUME TypeOK, [Next]_vars
  PROVE  TypeOK'
<1>1. CASE UNCHANGED vars
  BY <1>1 DEF TypeOK, vars
<1>2. CASE Next
  BY <1>2, StartType, CheckType, AdvanceType, AttemptType, EnvironmentType DEF Next
<1>3. QED
  BY <1>1, <1>2

(* Type correctness of the router: every row, result, counter and vendor state stays in
   the range its declaration promises. *)
THEOREM TypeCorrect == Spec => []TypeOK
BY InitType, TypeStep, PTL DEF Spec

-----------------------------------------------------------------------------
(***************************************************************************)
(* The breaker.  Its inductive invariant speaks of one vendor at a time,    *)
(* and the last conjunct is what makes it inductive: while the breaker is   *)
(* open, the cooldown left and the quiet time seen so far add up to a full  *)
(* cooldown.                                                                *)
(***************************************************************************)
VendorInv(s, h, composite) ==
  /\ composite => s.mark = 0 /\ s.breaker = "closed"
  /\ ~composite => IF s.breaker = "closed"
                    THEN s.fails = h.streak /\ h.streak < Threshold
                    ELSE h.streak = Threshold
  /\ s.breaker = "open" => s.cool + h.quiet >= Cooldown

BreakerInv ==
  /\ TypeOK
  /\ \A v \in Vendor : VendorInv(vendor[v], seen[v], v \in Composite)

(* Recording an answer keeps the invariant: the breaker counts, opens, re-arms or closes
   with the streak of failures (RuntimeState::record). *)
LEMMA RecordInv ==
  ASSUME NEW s \in State, NEW h \in SeenRecord, NEW composite \in BOOLEAN,
         NEW a, NEW after \in Delay \cup {NoDelay}, VendorInv(s, h, composite)
  PROVE  VendorInv(Record(s, composite, a, after), Observe(h, a, after), composite)
<1> DEFINE t == Record(s, composite, a, after)
           g == Observe(h, a, after)
<1>1. CASE a \in BreakerFailure
  <2>1. g.streak = (IF h.streak < Threshold THEN h.streak + 1 ELSE h.streak) /\ g.quiet = 0
    BY <1>1 DEF Observe, SeenRecord
  <2>2. CASE composite
    BY <1>1, <2>2 DEF Record, VendorInv
  <2>3. CASE ~composite
    <3>1. t = CountFailure(s)
      BY <1>1, <2>3 DEF Record
    <3>2. CASE s.breaker = "closed" /\ s.fails + 1 < Threshold
      BY <2>1, <2>3, <3>1, <3>2, ThresholdAssumption DEF CountFailure, VendorInv, State, SeenRecord
    <3>3. CASE ~(s.breaker = "closed" /\ s.fails + 1 < Threshold)
      <4>1. t.breaker = "open" /\ t.cool = Cooldown
        BY <3>1, <3>3 DEF CountFailure, State
      <4>2. g.streak = Threshold
        BY <2>1, <2>3, <3>3, ThresholdAssumption DEF VendorInv, State, SeenRecord
      <4>3. QED
        BY <2>1, <2>3, <4>1, <4>2, DelayAssumption DEF VendorInv
    <3>4. QED
      BY <3>2, <3>3
  <2>4. QED
    BY <2>2, <2>3
<1>2. CASE a \notin BreakerFailure
  <2>1. t.breaker = "closed" /\ t.fails = 0
    BY <1>2 DEF Record, CloseBreaker, SetMark, State
  <2>2. composite => t.mark = s.mark
    BY <1>2 DEF Record, CloseBreaker, State
  <2>3. g.streak = 0
    BY <1>2 DEF Observe, SeenRecord
  <2>4. QED
    BY <2>1, <2>2, <2>3, ThresholdAssumption DEF VendorInv
<1>3. QED
  BY <1>1, <1>2

(* Admitting a request keeps it: only an open breaker changes, to a probe. *)
LEMMA AdmittedInv ==
  ASSUME NEW s \in State, NEW h \in SeenRecord, NEW composite \in BOOLEAN,
         VendorInv(s, h, composite)
  PROVE  VendorInv(Admitted(s), h, composite)
BY DEF Admitted, VendorInv, State

(* A rate-limit header keeps it: it reaches only vendors that are not composite. *)
LEMMA RateLimitInv ==
  ASSUME NEW s \in State, NEW h \in SeenRecord, NEW after, VendorInv(s, h, FALSE)
  PROVE  VendorInv(RecordRateLimit(s, after), h, FALSE)
BY DEF RecordRateLimit, SetMark, VendorInv, State

(* Time keeps it: what the cooldown loses the quiet time gains. *)
LEMMA ElapseInv ==
  ASSUME NEW s \in State, NEW h \in SeenRecord, NEW composite \in BOOLEAN,
         VendorInv(s, h, composite)
  PROVE  VendorInv(Elapse(s), Age(h), composite)
<1> DEFINE t == Elapse(s)
           g == Age(h)
<1>1. /\ t.breaker = s.breaker /\ t.fails = s.fails
      /\ t.cool = Countdown(s.cool) /\ t.mark = Countdown(s.mark)
  BY DEF Elapse, State
<1>2. g.streak = h.streak /\ g.quiet = (IF h.quiet < Cooldown THEN h.quiet + 1 ELSE h.quiet)
  BY DEF Age, SeenRecord
<1>3. s.cool + h.quiet >= Cooldown => t.cool + g.quiet >= Cooldown
  BY <1>1, <1>2, DelayAssumption DEF Countdown, State, SeenRecord
<1>4. s.mark = 0 => t.mark = 0
  BY <1>1 DEF Countdown
<1>5. QED
  BY <1>1, <1>2, <1>3, <1>4 DEF VendorInv

(* Whatever a step of the router does, it does one of five things to a vendor. *)
LEMMA VendorSteps ==
  ASSUME TypeOK, Next, NEW v \in Vendor
  PROVE  \/ vendor'[v] = vendor[v] /\ seen'[v] = seen[v]
         \/ /\ Admits(vendor[v]) /\ vendor'[v] = Admitted(vendor[v])
            /\ seen'[v] = seen[v]
         \/ /\ v \notin Composite
            /\ \E d \in Delay \cup {NoDelay} : vendor'[v] = RecordRateLimit(vendor[v], d)
            /\ seen'[v] = seen[v]
         \/ \E x \in Answers :
              /\ vendor'[v] = Record(vendor[v], v \in Composite, x[1], x[2])
              /\ seen'[v] = Observe(seen[v], x[1], x[2])
         \/ vendor'[v] = Elapse(vendor[v]) /\ seen'[v] = Age(seen[v])
<1>1. ASSUME NEW r \in Request, CheckBreaker(r)
      PROVE  /\ vendor'[v] = vendor[v] \/ (Admits(vendor[v]) /\ vendor'[v] = Admitted(vendor[v]))
             /\ seen' = seen
  BY <1>1 DEF CheckBreaker, Filtered, TypeOK
<1>2. ASSUME NEW r \in Request, NEW i \in Slot, NEW d \in Delay \cup {NoDelay}, Headers(r, i, d)
      PROVE  /\ \/ vendor'[v] = vendor[v]
                \/ v \notin Composite /\ vendor'[v] = RecordRateLimit(vendor[v], d)
             /\ seen' = seen
  BY <1>2 DEF Headers, TypeOK
<1>3. ASSUME NEW r \in Request, NEW i \in Slot, NEW x \in Answers, Answer(r, i, x[1], x[2])
      PROVE  \/ vendor'[v] = vendor[v] /\ seen'[v] = seen[v]
             \/ /\ vendor'[v] = Record(vendor[v], v \in Composite, x[1], x[2])
                /\ seen'[v] = Observe(seen[v], x[1], x[2])
  <2>1. CASE At(r, i) = v
    BY <1>3, <2>1 DEF Answer, TypeOK
  <2>2. CASE At(r, i) # v
    BY <1>3, <2>2 DEF Answer, TypeOK
  <2>3. QED
    BY <2>1, <2>2
<1>4. CASE Tick
  BY <1>4 DEF Tick
<1>5. CASE \/ \E r \in Request :
               \/ \E m \in Mode : Start(r, m)
               \/ CheckQuota(r)
               \/ Advance(r)
               \/ \E i \in Slot : Acquire(r, i) \/ Refuse(r, i) \/ Retry(r, i)
               \/ Cancel(r)
           \/ \E t \in Table : Swap(t)
           \/ NewWindow
  <2>1. vendor' = vendor /\ seen' = seen
    BY <1>5 DEF Start, CheckQuota, Filtered, Advance, Acquire, Refuse, Retry, SendCall, Cancel,
                Swap, NewWindow, state, request
  <2>2. QED
    BY <2>1
<1>6. QED
  BY <1>1, <1>2, <1>3, <1>4, <1>5 DEF Next, Attempt

(* The breaker invariant is inductive. *)
LEMMA BreakerInvariant == Spec => []BreakerInv
<1>1. Init => BreakerInv
  <2> SUFFICES ASSUME Init PROVE BreakerInv
    OBVIOUS
  <2>1. \A v \in Vendor : vendor[v] = Fresh /\ seen[v] = NothingSeen
    BY DEF Init
  <2>2. \A c \in BOOLEAN : VendorInv(Fresh, NothingSeen, c)
    BY ThresholdAssumption DEF VendorInv, Fresh, NothingSeen
  <2>3. ASSUME NEW v \in Vendor PROVE VendorInv(vendor[v], seen[v], v \in Composite)
    <3>1. (v \in Composite) \in BOOLEAN
      OBVIOUS
    <3>2. QED
      BY <2>1, <2>2, <3>1
  <2>4. QED
    BY <2>3, InitType DEF BreakerInv
<1>2. ASSUME BreakerInv, [Next]_vars PROVE BreakerInv'
  <2>1. TypeOK'
    BY <1>2, TypeStep DEF BreakerInv
  <2>2. ASSUME NEW v \in Vendor PROVE VendorInv(vendor'[v], seen'[v], v \in Composite)
    <3> DEFINE s == vendor[v]
               h == seen[v]
               c == v \in Composite
    <3>1. /\ TypeOK /\ s \in State /\ h \in SeenRecord /\ c \in BOOLEAN
          /\ VendorInv(s, h, c)
      BY <1>2 DEF BreakerInv, TypeOK
    <3>2. CASE UNCHANGED vars
      BY <3>1, <3>2 DEF vars
    <3>3. CASE Next
      <4>1. CASE vendor'[v] = s /\ seen'[v] = h
        BY <3>1, <4>1
      <4>2. CASE vendor'[v] = Admitted(s) /\ seen'[v] = h
        BY <3>1, <4>2, AdmittedInv
      <4>3. ASSUME NEW d \in Delay \cup {NoDelay}, v \notin Composite,
                   vendor'[v] = RecordRateLimit(s, d), seen'[v] = h
            PROVE  VendorInv(vendor'[v], seen'[v], c)
        <5>1. c = FALSE
          BY <4>3
        <5>2. QED
          BY <3>1, <4>3, <5>1, RateLimitInv
      <4>4. ASSUME NEW x \in Answers, vendor'[v] = Record(s, c, x[1], x[2]),
                   seen'[v] = Observe(h, x[1], x[2])
            PROVE  VendorInv(vendor'[v], seen'[v], c)
        <5>1. x[2] \in Delay \cup {NoDelay}
          BY AnswersType
        <5>2. QED
          BY <3>1, <4>4, <5>1, RecordInv
      <4>5. CASE vendor'[v] = Elapse(s) /\ seen'[v] = Age(h)
        BY <3>1, <4>5, ElapseInv
      <4>6. QED
        BY <3>1, <3>3, <4>1, <4>2, <4>3, <4>4, <4>5, VendorSteps
    <3>4. QED
      BY <1>2, <3>2, <3>3
  <2>3. QED
    BY <2>1, <2>2 DEF BreakerInv
<1>3. QED
  BY <1>1, <1>2, PTL DEF Spec

(* A breaker blocks its vendor exactly when the last Threshold answers recorded for it were
   failures, however the recording of concurrent requests interleaves. *)
THEOREM BreakerExact == Spec => []BreakerCountsFailures
<1>1. BreakerInv => BreakerCountsFailures
  BY DEF BreakerInv, VendorInv, BreakerCountsFailures
<1>2. QED
  BY <1>1, BreakerInvariant, PTL

(* No failure of a chain behind "rpc" ever blocks the pseudo-vendor itself. *)
THEOREM CompositeFree == Spec => []CompositeNeverBlocked
<1>1. BreakerInv => CompositeNeverBlocked
  <2> SUFFICES ASSUME BreakerInv, NEW v \in Composite
               PROVE  vendor[v].mark = 0 /\ vendor[v].breaker = "closed"
    BY DEF CompositeNeverBlocked
  <2>1. v \in Vendor
    BY RoutingAssumption
  <2>2. QED
    BY <2>1 DEF BreakerInv, VendorInv
<1>2. QED
  BY <1>1, BreakerInvariant, PTL

(* No vendor is probed before a full cooldown without a failure has passed. *)
THEOREM ProbeAfterCooldown == Spec => FullCooldownBeforeProbe
<1> DEFINE Probed == \A v \in Vendor :
      vendor[v].breaker = "open" /\ vendor'[v].breaker = "half_open"
        => seen[v].quiet = Cooldown
<1>1. ASSUME BreakerInv, [Next]_vars PROVE [Probed]_vars
  <2> SUFFICES ASSUME Next, NEW v \in Vendor, vendor[v].breaker = "open",
                      vendor'[v].breaker = "half_open"
               PROVE  seen[v].quiet = Cooldown
    BY <1>1
  <2>1. /\ TypeOK /\ vendor[v] \in State /\ seen[v] \in SeenRecord
        /\ vendor[v].cool + seen[v].quiet >= Cooldown
    BY <1>1 DEF BreakerInv, TypeOK, VendorInv
  <2>2. /\ \A d : RecordRateLimit(vendor[v], d).breaker # "half_open"
        /\ \A c, a, d : Record(vendor[v], c, a, d).breaker # "half_open"
        /\ Elapse(vendor[v]).breaker # "half_open"
    BY <2>1 DEF RecordRateLimit, SetMark, Record, CountFailure, CloseBreaker, Elapse, State
  <2>3. Admits(vendor[v])
    BY <2>1, <2>2, VendorSteps
  <2>4. vendor[v].cool = 0
    BY <2>3 DEF Admits
  <2>5. QED
    BY <2>1, <2>4, DelayAssumption DEF SeenRecord
<1>2. QED
  BY <1>1, BreakerInvariant, PTL DEF Spec, FullCooldownBeforeProbe

-----------------------------------------------------------------------------
(***************************************************************************)
(* The inductive invariant of one request: its row tells the order in which *)
(* its strategy has asked.                                                  *)
(***************************************************************************)
Skipped == SkipReason \cup {"listed", "none"}
Asked(r) == Rows(r, InFlightRow \cup Final)
Collecting(r) == mode[r] \in {"quorum", "aggregate"}

\* What lets a failover go on.
Passing(r) == {"local"} \cup FailoverKind \cup (IF mode[r] = "confirm" THEN {"not_found"} ELSE {})

\* candidates() fills the row from its head, and asks nobody.
Filtering(r) ==
  pc[r] \in {"quota", "breaker"} =>
    \A i \in Slot : row[r][i] \in Skipped /\ (row[r][i] # "none" <=> i < pos[r])

NoGaps(r) == \A i, j \in Slot : i <= j /\ row[r][j] # "none" => row[r][i] # "none"

\* failover asks in order, and asks another only after an error that allows it.
InOrder(r) ==
  Failover(r) =>
    \A i \in Asked(r), j \in Slot :
      /\ row[r][j] = "listed" => i < j
      /\ j \in Asked(r) /\ i < j => row[r][i] \in Passing(r)

\* What has answered and what may still answer is no more than is wanted.
Collected(r) ==
  Collecting(r) => Cardinality(Rows(r, Key \cup InFlightRow)) <= Wanted

\* A request that is done has never run, was given up, or has returned what its row says
\* when there was nothing more to ask.
Concluded(r) ==
  pc[r] = "done" =>
    \/ res[r] \in {NoResult, Cancelled} /\ \A i \in Slot : row[r][i] = "none"
    \/ res[r] = Result(r) /\ NextAsked(r) = {} /\ Rows(r, InFlightRow) = {}

RequestInv(r) == Filtering(r) /\ NoGaps(r) /\ InOrder(r) /\ Collected(r) /\ Concluded(r)

StrategyInv == TypeOK /\ \A r \in Request : RequestInv(r)

-----------------------------------------------------------------------------
(***************************************************************************)
(* Positions.                                                               *)
(***************************************************************************)
(* A nonempty set of positions has a last one. *)
LEMMA LastIn ==
  ASSUME NEW S \in SUBSET Slot, S # {}
  PROVE  Last(S) \in S /\ \A j \in S : Last(S) >= j
<1> DEFINE T == {i \in Slot : MaxOrder + 1 - i \in S}
<1>1. MaxOrder \in Nat /\ \A i \in S : i \in Int /\ 1 <= i /\ i <= MaxOrder
  BY RoutingAssumption DEF Slot
<1>2. \A i \in S : MaxOrder + 1 - i \in T
  <2> SUFFICES ASSUME NEW i \in S PROVE MaxOrder + 1 - i \in T
    OBVIOUS
  <2>1. MaxOrder + 1 - i \in Slot
    BY <1>1 DEF Slot
  <2>2. MaxOrder + 1 - (MaxOrder + 1 - i) = i
    BY <1>1
  <2>3. QED
    BY <2>1, <2>2
<1>3. T # {} /\ T \in SUBSET Slot
  BY <1>2
<1> DEFINE x == MaxOrder + 1 - First(T)
<1>4. First(T) \in T /\ \A j \in T : First(T) <= j
  BY <1>3, FirstIn
<1>5. x \in S
  BY <1>4
<1>6. \A j \in S : x >= j
  <2> SUFFICES ASSUME NEW j \in S PROVE x >= j
    OBVIOUS
  <2>1. First(T) <= MaxOrder + 1 - j
    BY <1>2, <1>4
  <2>2. First(T) \in Int /\ j \in Int
    BY <1>1, <1>4 DEF Slot
  <2>3. QED
    BY <1>1, <2>1, <2>2
<1>7. QED
  BY <1>5, <1>6 DEF Last

(* Sets of positions are finite. *)
LEMMA SlotsFinite ==
  ASSUME NEW S \in SUBSET Slot
  PROVE  IsFiniteSet(S) /\ Cardinality(S) \in Nat
<1>1. IsFiniteSet(Slot)
  BY FS_Interval, RoutingAssumption DEF Slot
<1>2. QED
  BY <1>1, FS_Subset, FS_CardinalityType

(* The first n of some positions are n at most, and none only if there are none. *)
LEMMA FirstNBounded ==
  ASSUME NEW S \in SUBSET Slot, NEW n \in Nat \ {0}
  PROVE  /\ FirstN(S, n) \subseteq S
         /\ Cardinality(FirstN(S, n)) <= n
         /\ FirstN(S, n) = {} => S = {}
<1> DEFINE T == FirstN(S, n)
           Upto(i) == {j \in S : j <= i}
<1>1. T \subseteq S /\ T \in SUBSET Slot
  BY DEF FirstN
<1>2. CASE T = {}
  <2>1. Cardinality(T) <= n
    BY <1>2, FS_EmptySet
  <2>2. ASSUME S # {} PROVE FALSE
    <3>1. First(S) \in S /\ \A j \in S : First(S) <= j
      BY <2>2, FirstIn
    <3>2. Upto(First(S)) = {First(S)}
      <4>1. \A j \in S : j \in Int
        BY DEF Slot
      <4>2. \A j \in S : j <= First(S) => j = First(S)
        BY <3>1, <4>1
      <4>3. First(S) <= First(S)
        BY <3>1, <4>1
      <4>4. QED
        BY <3>1, <4>2, <4>3
    <3>3. Cardinality(Upto(First(S))) <= n
      BY <3>2, FS_Singleton
    <3>4. QED
      BY <1>2, <3>1, <3>3 DEF FirstN
  <2>3. QED
    BY <1>1, <2>1, <2>2
<1>3. CASE T # {}
  <2>1. Last(T) \in T /\ \A j \in T : Last(T) >= j
    BY <1>1, <1>3, LastIn
  <2>2. T \subseteq Upto(Last(T))
    BY <1>1, <2>1 DEF Slot
  <2>3. Cardinality(Upto(Last(T))) <= n
    BY <2>1 DEF FirstN
  <2>4. /\ IsFiniteSet(Upto(Last(T))) /\ Cardinality(Upto(Last(T))) \in Nat
        /\ Cardinality(T) \in Nat
    BY <1>1, SlotsFinite
  <2>5. Cardinality(T) <= Cardinality(Upto(Last(T)))
    BY <2>2, <2>4, FS_Subset
  <2>6. QED
    BY <1>1, <1>3, <2>3, <2>4, <2>5
<1>4. QED
  BY <1>2, <1>3

(* Fewer positions are counted as no more. *)
LEMMA FewerSlots ==
  ASSUME NEW S \in SUBSET Slot, NEW T \in SUBSET S
  PROVE  Cardinality(T) <= Cardinality(S)
BY SlotsFinite, FS_Subset

-----------------------------------------------------------------------------
(* What a request asks next and returns depends on its row, strategy and order only. *)
LEMMA RowDecides ==
  ASSUME NEW r \in Request, row'[r] = row[r], mode'[r] = mode[r], snap'[r] = snap[r]
  PROVE  /\ \A S : Rows(r, S)' = Rows(r, S)
         /\ Asked(r)' = Asked(r)
         /\ NextAsked(r)' = NextAsked(r)
         /\ Result(r)' = Result(r)
<1>1. /\ \A S : Rows(r, S)' = Rows(r, S)
      /\ \A i : At(r, i)' = At(r, i)
  BY DEF Rows, At
<1>2. Oks(r)' = Oks(r) /\ Errors(r)' = Errors(r) /\ Asked(r)' = Asked(r)
  BY <1>1 DEF Oks, Errors, Asked
<1>3. ErrorCode(r)' = ErrorCode(r) /\ Disagree(r)' = Disagree(r) /\ \A w : SourceOf(r, w)' = SourceOf(r, w)
  BY <1>1, <1>2 DEF ErrorCode, Disagree, SourceOf
<1>4. Result(r)' = Result(r)
  BY <1>2, <1>3 DEF Result
<1>5. NextAsked(r)' = NextAsked(r)
  <2>1. /\ Rows(r, Final)' = Rows(r, Final)
        /\ Rows(r, {"not_found"})' = Rows(r, {"not_found"})
        /\ Rows(r, {"listed"})' = Rows(r, {"listed"})
    BY <1>1
  <2>2. GoesOn(r)' = GoesOn(r)
    BY <2>1 DEF GoesOn
  <2>3. QED
    BY <1>2, <2>1, <2>2 DEF NextAsked
<1>6. QED
  BY <1>1, <1>2, <1>4, <1>5

(* The order of a row stays while the row stays. *)
LEMMA RowFrame ==
  ASSUME NEW r \in Request, RequestInv(r),
         row'[r] = row[r], mode'[r] = mode[r], snap'[r] = snap[r]
  PROVE  NoGaps(r)' /\ InOrder(r)' /\ Collected(r)'
<1>1. NoGaps(r)'
  BY DEF RequestInv, NoGaps
<1>2. InOrder(r)'
  BY RowDecides DEF RequestInv, InOrder, Failover, Passing
<1>3. Collected(r)'
  BY RowDecides DEF RequestInv, Collected, Collecting
<1>4. QED
  BY <1>1, <1>2, <1>3

(* A request that is left alone keeps its invariant. *)
LEMMA RequestFrame ==
  ASSUME NEW r \in Request, RequestInv(r),
         row'[r] = row[r], pc'[r] = pc[r], pos'[r] = pos[r], mode'[r] = mode[r],
         snap'[r] = snap[r], res'[r] = res[r]
  PROVE  RequestInv(r)'
<1>1. Filtering(r)'
  BY DEF RequestInv, Filtering
<1>2. Concluded(r)'
  BY RowDecides DEF RequestInv, Concluded
<1>3. QED
  BY <1>1, <1>2, RowFrame DEF RequestInv

-----------------------------------------------------------------------------
(***************************************************************************)
(* The steps of a request.                                                  *)
(***************************************************************************)
(* The kinds of a row are told apart. *)
LEMMA RowKinds ==
  /\ Skipped \cap (InFlightRow \cup Final) = {}
  /\ Key \cap (InFlightRow \cup ErrorKind \cup {"local"}) = {}
  /\ InFlightRow \cap Final = {}
  /\ SkipReason \cap {"listed", "none"} = {}
  /\ FailoverKind \subseteq ErrorKind
  /\ ErrorKind \ FailoverKind = {"not_found", "invalid", "fatal"}
  /\ Row = Skipped \cup InFlightRow \cup Final
<1>1. Key \cap (Skipped \cup InFlightRow \cup ErrorKind \cup {"local"}) = {}
  BY KeyAssumption DEF Skipped
<1>2. /\ Skipped \cap (InFlightRow \cup ErrorKind \cup {"local"}) = {}
      /\ InFlightRow \cap (ErrorKind \cup {"local"}) = {}
      /\ SkipReason \cap {"listed", "none"} = {}
      /\ FailoverKind \subseteq ErrorKind
      /\ ErrorKind \ FailoverKind = {"not_found", "invalid", "fatal"}
  BY DEF Skipped, SkipReason, InFlightRow, ErrorKind, FailoverKind
<1>3. Row = Skipped \cup InFlightRow \cup Final
  BY DEF Row, Skipped
<1>4. QED
  BY <1>1, <1>2, <1>3 DEF Final

(* Nothing is no more than is wanted. *)
LEMMA NoneCollected == Cardinality({}) <= Wanted
<1>1. Cardinality({}) = 0
  BY FS_EmptySet
<1>2. QED
  BY <1>1, RoutingAssumption

(* A row on which nobody has been asked: while it is filled, or when it is empty. *)
LEMMA NobodyAsked ==
  ASSUME NEW f, \A i \in Slot : f[i] \in Skipped
  PROVE  /\ {i \in Slot : f[i] \in InFlightRow \cup Final} = {}
         /\ {i \in Slot : f[i] \in InFlightRow} = {}
         /\ {i \in Slot : f[i] \in Key \cup InFlightRow} = {}
BY RowKinds DEF Final

(* A request on whose row nobody has been asked. *)
LEMMA UnaskedInv ==
  ASSUME TypeOK', NEW r \in Request,
         \A i \in Slot : row'[r][i] \in Skipped,
         Filtering(r)', NoGaps(r)', Concluded(r)'
  PROVE  RequestInv(r)'
<1>1. InOrder(r)'
  BY NobodyAsked DEF InOrder, Asked, Rows
<1>2. Cardinality(Rows(r, Key \cup InFlightRow)') <= Wanted
  <2>1. Rows(r, Key \cup InFlightRow)' = {}
    BY NobodyAsked DEF Rows
  <2>2. QED
    BY <2>1, NoneCollected
<1>3. QED
  BY <1>1, <1>2 DEF RequestInv, Collected

(* The initial states. *)
LEMMA StrategyInit == Init => StrategyInv
<1> SUFFICES ASSUME Init, NEW r \in Request PROVE RequestInv(r)
  BY InitType DEF StrategyInv
<1>1. /\ pc[r] = "done" /\ res[r] = NoResult
      /\ \A i \in Slot : row[r][i] = "none"
  BY DEF Init
<1>2. \A i \in Slot : row[r][i] \in Skipped
  BY <1>1 DEF Skipped
<1>3. InOrder(r)
  BY <1>2, NobodyAsked DEF InOrder, Asked, Rows
<1>4. Rows(r, Key \cup InFlightRow) = {}
  BY <1>2, NobodyAsked DEF Rows
<1>5. Collected(r)
  BY <1>4, NoneCollected DEF Collected
<1>6. Filtering(r) /\ NoGaps(r) /\ Concluded(r)
  BY <1>1 DEF Filtering, NoGaps, Concluded
<1>7. QED
  BY <1>3, <1>5, <1>6 DEF RequestInv

(* A request that starts has an empty row. *)
LEMMA StartStep ==
  ASSUME StrategyInv, TypeOK', NEW r \in Request, NEW m \in Mode, Start(r, m)
  PROVE  RequestInv(r)'
<1>1. /\ \A i \in Slot : row'[r][i] = "none"
      /\ pos'[r] = 1 /\ pc'[r] \in {"quota", "running"}
  BY DEF StrategyInv, TypeOK, Start
<1>2. \A i \in Slot : ~(i < 1)
  BY DEF Slot
<1>3. Filtering(r)' /\ NoGaps(r)' /\ Concluded(r)'
  BY <1>1, <1>2 DEF Filtering, NoGaps, Concluded, Skipped
<1>4. QED
  BY <1>1, <1>3, UnaskedInv DEF Skipped

(* A position is filtered: the row grows by one. *)
LEMMA FilteredStep ==
  ASSUME StrategyInv, TypeOK', NEW r \in Request, pc[r] \in {"quota", "breaker"},
         NEW what \in SkipReason \cup {"listed"}, Filtered(r, what)
  PROVE  RequestInv(r)'
<1>1. \A i \in Slot : row[r][i] \in Skipped /\ (row[r][i] # "none" <=> i < pos[r])
  BY DEF StrategyInv, RequestInv, Filtering
<1>2. \A i \in Slot : row'[r][i] = IF i = pos[r] THEN what ELSE row[r][i]
  BY DEF StrategyInv, TypeOK, Filtered
<1>3. what \in Skipped /\ what # "none"
  BY RowKinds DEF Skipped
<1>4. \A i \in Slot : i \in Int /\ pos[r] \in Int
  BY DEF Slot, StrategyInv, TypeOK
<1>5. \A i \in Slot : row'[r][i] \in Skipped /\ (row'[r][i] # "none" <=> i < pos[r] + 1)
  BY <1>1, <1>2, <1>3, <1>4
<1>6. NoGaps(r)'
  <2> SUFFICES ASSUME NEW i \in Slot, NEW j \in Slot, i <= j, row'[r][j] # "none"
               PROVE  row'[r][i] # "none"
    BY DEF NoGaps
  <2>1. QED
    BY <1>4, <1>5
<1>7. \/ pc'[r] = "quota" /\ pos'[r] = pos[r] + 1
      \/ pc'[r] = "running"
  BY DEF Filtered, StrategyInv, TypeOK
<1>8. Filtering(r)' /\ Concluded(r)'
  BY <1>5, <1>7 DEF Filtering, Concluded
<1>9. QED
  BY <1>5, <1>6, <1>8, UnaskedInv

(* Both halves of candidates(). *)
LEMMA CheckStep ==
  ASSUME StrategyInv, TypeOK', NEW r \in Request, CheckQuota(r) \/ CheckBreaker(r)
  PROVE  RequestInv(r)'
<1>1. CASE \E what \in SkipReason \cup {"listed"} : Filtered(r, what)
  <2>1. pc[r] \in {"quota", "breaker"}
    BY DEF CheckQuota, CheckBreaker
  <2>2. QED
    BY <1>1, <2>1, FilteredStep
<1>2. CASE /\ pc[r] = "quota" /\ pc' = [pc EXCEPT ![r] = "breaker"]
           /\ UNCHANGED <<mode, snap, pos, row, res>>
  <2>1. \A i \in Slot : row[r][i] \in Skipped /\ (row[r][i] # "none" <=> i < pos[r])
    BY <1>2 DEF StrategyInv, RequestInv, Filtering
  <2>2. pc'[r] = "breaker"
    BY <1>2 DEF StrategyInv, TypeOK
  <2>3. Filtering(r)' /\ NoGaps(r)' /\ Concluded(r)'
    BY <1>2, <2>1, <2>2 DEF Filtering, NoGaps, Concluded, StrategyInv, RequestInv
  <2>4. QED
    BY <1>2, <2>1, <2>3, UnaskedInv
<1>3. QED
  BY <1>1, <1>2 DEF CheckQuota, CheckBreaker, SkipReason

(* A request that is given up has an empty row. *)
LEMMA CancelStep ==
  ASSUME StrategyInv, TypeOK', NEW r \in Request, Cancel(r)
  PROVE  RequestInv(r)'
<1>1. /\ \A i \in Slot : row'[r][i] = "none"
      /\ pc'[r] = "done" /\ res'[r] = Cancelled
  BY DEF StrategyInv, TypeOK, Cancel
<1>2. Filtering(r)' /\ NoGaps(r)' /\ Concluded(r)'
  BY <1>1 DEF Filtering, NoGaps, Concluded
<1>3. QED
  BY <1>1, <1>2, UnaskedInv DEF Skipped

(* An attempt goes on or ends: its position stays asked. *)
LEMMA RowStep ==
  ASSUME StrategyInv, TypeOK', NEW r \in Request, NEW i \in Slot, pc[r] = "running",
         row[r][i] \in InFlightRow, NEW w \in InFlightRow \cup Final,
         row' = [row EXCEPT ![r][i] = w], UNCHANGED <<pc, mode, snap, pos, res>>
  PROVE  RequestInv(r)'
<1>1. \A j \in Slot : row'[r][j] = IF j = i THEN w ELSE row[r][j]
  BY DEF StrategyInv, TypeOK
<1>2. w \notin Skipped /\ row[r][i] \notin Skipped
  BY RowKinds
<1>3. Filtering(r)' /\ Concluded(r)'
  BY DEF Filtering, Concluded
<1>4. NoGaps(r)'
  BY <1>1, <1>2 DEF NoGaps, StrategyInv, RequestInv, Skipped
<1>5. Asked(r)' = Asked(r)
  BY <1>1 DEF Asked, Rows
<1>6. InOrder(r)'
  <2> SUFFICES ASSUME Failover(r), NEW a \in Asked(r), NEW j \in Slot
               PROVE  /\ row'[r][j] = "listed" => a < j
                      /\ j \in Asked(r) /\ a < j => row'[r][a] \in Passing(r)
    BY <1>5 DEF InOrder, Failover, Passing
  <2>1. /\ row[r][j] = "listed" => a < j
        /\ j \in Asked(r) /\ a < j => row[r][a] \in Passing(r)
    BY DEF StrategyInv, RequestInv, InOrder
  <2>2. Passing(r) \subseteq Final
    BY DEF Passing, Final, FailoverKind, ErrorKind
  <2>3. a = i => row[r][a] \notin Passing(r)
    BY <2>2, RowKinds
  <2>4. a \in Slot
    BY DEF Asked, Rows
  <2>5. row'[r][j] = "listed" => row[r][j] = "listed"
    BY <1>1, <1>2 DEF Skipped
  <2>6. QED
    BY <1>1, <2>1, <2>3, <2>4, <2>5
<1>7. Collected(r)'
  <2> SUFFICES ASSUME Collecting(r) PROVE Cardinality(Rows(r, Key \cup InFlightRow)') <= Wanted
    BY DEF Collected, Collecting
  <2> DEFINE before == Rows(r, Key \cup InFlightRow)
             after == Rows(r, Key \cup InFlightRow)'
  <2>1. after \subseteq before /\ before \in SUBSET Slot
    BY <1>1 DEF Rows
  <2>2. Cardinality(before) <= Wanted
    BY DEF StrategyInv, RequestInv, Collected
  <2>3. Cardinality(after) <= Cardinality(before)
    BY <2>1, FewerSlots
  <2>4. Cardinality(after) \in Nat /\ Cardinality(before) \in Nat
    BY <2>1, SlotsFinite
  <2>5. QED
    BY <2>2, <2>3, <2>4, RoutingAssumption
<1>8. QED
  BY <1>3, <1>4, <1>6, <1>7 DEF RequestInv

(* The steps of one attempt. *)
LEMMA AttemptStep ==
  ASSUME StrategyInv, TypeOK', NEW r \in Request, NEW i \in Slot, Attempt(r, i)
  PROVE  RequestInv(r)'
<1>1. {"acquire", "call", "backoff"} \subseteq InFlightRow /\ "local" \in Final
  BY DEF InFlightRow, Final
<1>2. CASE Acquire(r, i) \/ Retry(r, i)
  BY <1>1, <1>2, RowStep DEF Acquire, Retry, SendCall
<1>3. CASE Refuse(r, i)
  BY <1>1, <1>3, RowStep DEF Refuse
<1>4. ASSUME NEW d, Headers(r, i, d) PROVE RequestInv(r)'
  BY <1>4, RequestFrame DEF Headers, request, StrategyInv
<1>5. ASSUME NEW x \in Answers, Answer(r, i, x[1], x[2]) PROVE RequestInv(r)'
  <2>1. x[1] \in Final
    BY AnswersType DEF Final
  <2>2. \E w \in InFlightRow \cup Final : row' = [row EXCEPT ![r][i] = w]
    BY <1>1, <1>5, <2>1 DEF Answer
  <2>3. QED
    BY <1>1, <1>5, <2>2, RowStep DEF Answer
<1>6. QED
  BY <1>2, <1>3, <1>4, <1>5 DEF Attempt

(* What is asked next is listed; a failover asks the first that is. *)
LEMMA NextAskedListed ==
  ASSUME NEW r \in Request, mode[r] \in Strategy
  PROVE  /\ NextAsked(r) \subseteq Rows(r, {"listed"})
         /\ Failover(r) /\ NextAsked(r) # {} =>
              /\ NextAsked(r) = {First(Rows(r, {"listed"}))}
              /\ Rows(r, {"listed"}) # {}
              /\ Rows(r, Final) # {} => GoesOn(r)
<1> DEFINE waiting == Rows(r, {"listed"})
           one == {i \in waiting : i = First(waiting)}
<1>1. waiting \in SUBSET Slot /\ FirstN(waiting, Wanted) \subseteq waiting
  BY DEF Rows, FirstN
<1>2. one # {} => one = {First(waiting)} /\ waiting # {}
  OBVIOUS
<1>3. CASE Failover(r)
  <2>1. NextAsked(r) = IF Rows(r, Final) # {} => GoesOn(r) THEN one ELSE {}
    BY <1>3 DEF Failover, NextAsked
  <2>2. QED
    BY <1>2, <2>1
<1>4. CASE ~Failover(r)
  <2>1. NextAsked(r) \in {waiting, one, FirstN(waiting, Wanted), {}}
    BY <1>4 DEF Failover, NextAsked, Strategy
  <2>2. QED
    BY <1>1, <1>4, <2>1
<1>5. QED
  BY <1>3, <1>4

(* A failover asks one more, after all it has asked. *)
LEMMA InOrderStep ==
  ASSUME StrategyInv, NEW r \in Request, Rows(r, InFlightRow) = {}, NextAsked(r) # {},
         \A i \in Slot : row'[r][i] = IF i \in NextAsked(r) THEN "acquire" ELSE row[r][i],
         mode' = mode
  PROVE  InOrder(r)'
<1> DEFINE f == First(Rows(r, {"listed"}))
<1>1. SUFFICES ASSUME Failover(r) PROVE InOrder(r)'
  BY DEF InOrder, Failover
<1>2. mode[r] \in Strategy
  BY RoutingAssumption DEF StrategyInv, TypeOK
<1>3. /\ NextAsked(r) = {f} /\ Rows(r, {"listed"}) # {}
      /\ Rows(r, Final) # {} => GoesOn(r)
  BY <1>1, <1>2, NextAskedListed
<1>4. /\ f \in Slot /\ row[r][f] = "listed"
      /\ \A j \in Slot : row[r][j] = "listed" => f <= j
  <2>1. Rows(r, {"listed"}) \in SUBSET Slot
    BY DEF Rows
  <2>2. f \in Rows(r, {"listed"}) /\ \A j \in Rows(r, {"listed"}) : f <= j
    BY <1>3, <2>1, FirstIn
  <2>3. QED
    BY <2>2 DEF Rows
<1>5. \A i \in Slot : row'[r][i] = IF i = f THEN "acquire" ELSE row[r][i]
  BY <1>3
<1>6. f \notin Asked(r)
  BY <1>4, RowKinds DEF Asked, Rows, Skipped
<1>7. Asked(r)' = Asked(r) \cup {f}
  BY <1>4, <1>5 DEF Asked, Rows, InFlightRow
<1>8. Asked(r) = Rows(r, Final)
  BY DEF Asked, Rows
<1>9. \A i, j \in Slot : i \in Int /\ j \in Int
  BY DEF Slot
<1>10. /\ \A a \in Asked(r), j \in Slot : row[r][j] = "listed" => a < j
       /\ \A a, j \in Asked(r) : a < j => row[r][a] \in Passing(r)
       /\ \A a \in Asked(r) : a \in Slot
  BY <1>1 DEF StrategyInv, RequestInv, InOrder, Asked, Rows
<1>11. ASSUME NEW a \in Asked(r) PROVE row[r][a] \in Passing(r)
  <2>1. Asked(r) \in SUBSET Slot
    BY <1>10
  <2> DEFINE last == Last(Asked(r))
  <2>2. last \in Asked(r) /\ last >= a
    BY <1>11, <2>1, LastIn
  <2>3. CASE a < last
    BY <1>10, <2>2, <2>3
  <2>4. CASE a = last
    <3>1. GoesOn(r) /\ last = Last(Rows(r, Final))
      BY <1>3, <1>8, <1>11
    <3>2. /\ row[r][a] \in Final \ Key
          /\ \/ KindOf(row[r][a]) \in FailoverKind
             \/ row[r][a] = "not_found" /\ mode[r] = "confirm"
      BY <1>8, <1>11, <2>4, <3>1 DEF GoesOn, Rows
    <3>3. QED
      BY <3>2 DEF KindOf, Passing
  <2>5. a = last \/ a < last
    BY <1>9, <1>10, <2>2
  <2>6. QED
    BY <2>3, <2>4, <2>5
<1>12. ASSUME NEW a \in Asked(r) \cup {f}, NEW j \in Slot
       PROVE  /\ row'[r][j] = "listed" => a < j
              /\ j \in Asked(r) \cup {f} /\ a < j => row'[r][a] \in Passing(r)
  <2>1. row'[r][j] = "listed" => j # f /\ row[r][j] = "listed"
    BY <1>5
  <2>2. CASE a = f
    <3>1. row'[r][j] = "listed" => a < j
      BY <1>4, <1>9, <2>1, <2>2
    <3>2. j \in Asked(r) \cup {f} => ~(a < j)
      BY <1>4, <1>9, <1>10, <2>2
    <3>3. QED
      BY <3>1, <3>2
  <2>3. CASE a \in Asked(r)
    <3>1. row'[r][a] = row[r][a]
      BY <1>5, <1>6, <1>10, <2>3
    <3>2. QED
      BY <1>10, <1>11, <2>1, <2>3, <3>1
  <2>4. QED
    BY <2>2, <2>3
<1>13. QED
  BY <1>7, <1>12 DEF InOrder, Passing

(* A collection asks for no more than is missing. *)
LEMMA CollectedStep ==
  ASSUME StrategyInv, NEW r \in Request, Rows(r, InFlightRow) = {}, NextAsked(r) # {},
         \A i \in Slot : row'[r][i] = IF i \in NextAsked(r) THEN "acquire" ELSE row[r][i],
         mode' = mode
  PROVE  Collected(r)'
<1> DEFINE waiting == Rows(r, {"listed"})
           one == {i \in waiting : i = First(waiting)}
           after == Rows(r, Key \cup InFlightRow)'
<1>1. SUFFICES ASSUME Collecting(r) PROVE Cardinality(after) <= Wanted
  BY DEF Collected, Collecting
<1>2. waiting \in SUBSET Slot /\ Oks(r) \in SUBSET Slot
  BY DEF Rows, Oks
<1>3. NextAsked(r) = IF Rows(r, Final) = {} THEN FirstN(waiting, Wanted)
                     ELSE IF Cardinality(Oks(r)) < Wanted THEN one ELSE {}
  BY <1>1 DEF Collecting, NextAsked
<1>4. NextAsked(r) \in SUBSET Slot
  BY <1>2, <1>3 DEF FirstN
<1>5. after \subseteq Oks(r) \cup NextAsked(r) /\ Oks(r) \cup NextAsked(r) \in SUBSET Slot
  BY <1>2, <1>4 DEF Rows, Oks
<1>6. Wanted \in Nat \ {0}
  BY RoutingAssumption
<1>7. Cardinality(Oks(r) \cup NextAsked(r)) <= Wanted
  <2>1. CASE Rows(r, Final) = {}
    <3>1. Oks(r) = {}
      BY <2>1 DEF Oks, Rows, Final
    <3>2. Cardinality(FirstN(waiting, Wanted)) <= Wanted
      BY <1>2, <1>6, FirstNBounded
    <3>3. QED
      BY <1>3, <2>1, <3>1, <3>2
  <2>2. CASE Rows(r, Final) # {}
    <3>1. Cardinality(Oks(r)) < Wanted /\ NextAsked(r) = {First(waiting)}
      BY <1>3, <2>2
    <3>2. IsFiniteSet(Oks(r)) /\ Cardinality(Oks(r)) \in Nat
      BY <1>2, SlotsFinite
    <3>3. Cardinality(Oks(r) \cup {First(waiting)}) \in {Cardinality(Oks(r)), Cardinality(Oks(r)) + 1}
      <4>1. Cardinality(Oks(r) \cup {First(waiting)}) =
              IF First(waiting) \in Oks(r) THEN Cardinality(Oks(r)) ELSE Cardinality(Oks(r)) + 1
        BY <3>2, FS_AddElement
      <4>2. QED
        BY <4>1
    <3>4. Cardinality(Oks(r) \cup {First(waiting)}) \in Nat
      BY <1>5, <3>1, SlotsFinite
    <3>5. QED
      BY <1>6, <3>1, <3>2, <3>3, <3>4
  <2>3. QED
    BY <2>1, <2>2
<1>8. Cardinality(after) <= Cardinality(Oks(r) \cup NextAsked(r))
  BY <1>5, FewerSlots
<1>9. Cardinality(after) \in Nat /\ Cardinality(Oks(r) \cup NextAsked(r)) \in Nat
  BY <1>5, SlotsFinite
<1>10. QED
  BY <1>6, <1>7, <1>8, <1>9

(* The strategy asks, or returns. *)
LEMMA AdvanceStep ==
  ASSUME StrategyInv, TypeOK', NEW r \in Request, Advance(r)
  PROVE  RequestInv(r)'
<1>1. /\ pc[r] = "running" /\ Rows(r, InFlightRow) = {}
      /\ mode' = mode /\ snap' = snap
  BY DEF Advance
<1>2. CASE NextAsked(r) # {}
  <2>1. /\ \A i \in Slot : row'[r][i] = IF i \in NextAsked(r) THEN "acquire" ELSE row[r][i]
        /\ pc' = pc
    BY <1>2 DEF Advance, StrategyInv, TypeOK
  <2>2. Filtering(r)' /\ Concluded(r)'
    BY <1>1, <2>1 DEF Filtering, Concluded
  <2>3. NoGaps(r)'
    <3>1. mode[r] \in Strategy
      BY RoutingAssumption DEF StrategyInv, TypeOK
    <3>2. \A i \in Slot : i \in NextAsked(r) => row[r][i] = "listed"
      BY <3>1, NextAskedListed DEF Rows
    <3>3. \A i \in Slot : row'[r][i] # "none" <=> row[r][i] # "none"
      BY <2>1, <3>2
    <3>4. QED
      BY <3>3 DEF NoGaps, StrategyInv, RequestInv
  <2>4. QED
    BY <1>1, <1>2, <2>1, <2>2, <2>3, InOrderStep, CollectedStep DEF RequestInv
<1>3. CASE NextAsked(r) = {}
  <2>1. row' = row /\ pc'[r] = "done" /\ res'[r] = Result(r)
    BY <1>3 DEF Advance, StrategyInv, TypeOK
  <2>2. NoGaps(r)' /\ InOrder(r)' /\ Collected(r)'
    BY <1>1, <2>1, RowFrame DEF StrategyInv
  <2>3. Filtering(r)'
    BY <2>1 DEF Filtering
  <2>4. Concluded(r)'
    BY <1>1, <1>3, <2>1, RowDecides DEF Concluded
  <2>5. QED
    BY <2>2, <2>3, <2>4 DEF RequestInv
<1>4. QED
  BY <1>2, <1>3

(* Every step keeps the invariant: one request moves, if any, and the others are left alone. *)
LEMMA StrategyStep ==
  ASSUME StrategyInv, [Next]_vars
  PROVE  StrategyInv'
<1>1. TypeOK'
  BY TypeStep DEF StrategyInv
<1>2. SUFFICES ASSUME NEW q \in Request PROVE RequestInv(q)'
  BY <1>1 DEF StrategyInv
<1> DEFINE Same == /\ row'[q] = row[q] /\ pc'[q] = pc[q] /\ pos'[q] = pos[q]
                   /\ mode'[q] = mode[q] /\ snap'[q] = snap[q] /\ res'[q] = res[q]
<1>3. Same => RequestInv(q)'
  BY RequestFrame DEF StrategyInv
<1>4. ASSUME NEW r \in Request,
             \/ \E m \in Mode : Start(r, m)
             \/ CheckQuota(r)
             \/ CheckBreaker(r)
             \/ Advance(r)
             \/ \E i \in Slot : Attempt(r, i)
             \/ Cancel(r)
      PROVE  RequestInv(q)'
  <2>1. CASE q = r
    BY <1>1, <1>4, <2>1, StartStep, CheckStep, AdvanceStep, AttemptStep, CancelStep
  <2>2. CASE q # r
    <3>1. (\E m \in Mode : Start(r, m)) \/ CheckQuota(r) \/ CheckBreaker(r) => Same
      BY <2>2 DEF Start, CheckQuota, CheckBreaker, Filtered, StrategyInv, TypeOK
    <3>2. Advance(r) \/ Cancel(r) => Same
      BY <2>2 DEF Advance, Cancel, StrategyInv, TypeOK
    <3>3. ASSUME NEW i \in Slot, Attempt(r, i) PROVE Same
      BY <2>2, <3>3 DEF Attempt, Acquire, Refuse, Retry, SendCall, Headers, Answer, request,
                        StrategyInv, TypeOK
    <3>4. QED
      BY <1>3, <1>4, <3>1, <3>2, <3>3
  <2>3. QED
    BY <2>1, <2>2
<1>5. CASE (\E t \in Table : Swap(t)) \/ Tick \/ NewWindow \/ UNCHANGED vars
  BY <1>3, <1>5 DEF Swap, Tick, NewWindow, request, vars
<1>6. QED
  BY <1>4, <1>5 DEF Next

LEMMA StrategyInvariant == Spec => []StrategyInv
BY StrategyInit, StrategyStep, PTL DEF Spec

-----------------------------------------------------------------------------
(***************************************************************************)
(* What callers get.                                                        *)
(***************************************************************************)
(* The code of a result tells where it comes from. *)
LEMMA ResultCodes ==
  ASSUME NEW r \in Request
  PROVE  /\ Result(r).code = "ok" => Oks(r) # {} /\ Result(r).winner = First(Oks(r))
         /\ Result(r).code # "ok" /\ mode[r] \notin {"quorum", "peek"} => Oks(r) = {}
<1>1. ErrorCode(r) # "ok"
  BY DEF ErrorCode
<1>2. \A c : Failed(c).code = c
  BY DEF Failed, NoResult
<1>3. NoResult.code # "ok"
  BY DEF NoResult
<1>4. QED
  BY <1>1, <1>2, <1>3 DEF Result

(* A request that has returned something that is not an error of its caller's making. *)
LEMMA Returned ==
  ASSUME StrategyInv, NEW r \in Request, pc[r] = "done", res[r].code \in Code
  PROVE  res[r] = Result(r) /\ NextAsked(r) = {} /\ Rows(r, InFlightRow) = {}
<1>1. NoResult.code \notin Code /\ Cancelled.code \notin Code
  BY DEF NoResult, Cancelled, Code
<1>2. QED
  BY <1>1 DEF StrategyInv, RequestInv, Concluded

(* Failover keeps its promise: the first vendor of the order that answers wins, everybody
   before it was skipped or failed in a way that lets it go on, and an error is returned only
   when the last error was definite or nobody is left to ask. *)
THEOREM FailoverPromise == Spec => []FailoverHonest
<1>1. StrategyInv => FailoverHonest
  <2> SUFFICES ASSUME StrategyInv, NEW r \in Request, pc[r] = "done", Failover(r),
                      res[r].code \in Code
               PROVE  /\ res[r].code = "ok" =>
                           /\ Oks(r) = {res[r].winner}
                           /\ \A i \in Slot : i < res[r].winner => row[r][i] \in PassedOver(r)
                           /\ \A i \in Slot : i > res[r].winner =>
                                row[r][i] \in SkipReason \cup {"listed", "none"}
                      /\ res[r].code # "ok" =>
                           /\ Oks(r) = {}
                           /\ Rows(r, {"listed"}) # {} =>
                                row[r][Last(Rows(r, Final))] \in {"not_found", "invalid", "fatal"}
    BY DEF FailoverHonest, Code
  <2>1. res[r] = Result(r) /\ NextAsked(r) = {} /\ Rows(r, InFlightRow) = {}
    BY Returned
  <2>2. /\ \A a \in Asked(r), j \in Slot : row[r][j] = "listed" => a < j
        /\ \A a, j \in Asked(r) : a < j => row[r][a] \in Passing(r)
    BY DEF StrategyInv, RequestInv, InOrder, Asked, Rows
  <2>3. NoGaps(r)
    BY DEF StrategyInv, RequestInv
  <2>4. \A i \in Slot : i \in Int /\ row[r][i] \in Row
    <3>1. \A i \in Slot : i \in Int
      BY DEF Slot
    <3>2. \A i \in Slot : row[r][i] \in Row
      BY DEF StrategyInv, TypeOK
    <3>3. QED
      BY <3>1, <3>2
  <2>5. mode[r] \notin {"quorum", "peek"}
    BY DEF Failover
  <2>6. CASE res[r].code = "ok"
    <3> DEFINE w == res[r].winner
    <3>1. Oks(r) # {} /\ w = First(Oks(r)) /\ Oks(r) \in SUBSET Slot
      BY <2>1, <2>6, ResultCodes DEF Oks, Rows
    <3>2. w \in Oks(r) /\ w \in Slot /\ row[r][w] \in Key
      BY <3>1, FirstIn DEF Oks, Rows
    <3>3. \A o \in Oks(r) : o \in Asked(r) /\ o \in Slot /\ row[r][o] \in Key
      BY DEF Asked, Oks, Rows, Final
    <3>4. Passing(r) \cap Key = {}
      BY RowKinds DEF Passing, FailoverKind, ErrorKind
    <3>5. \A j \in Asked(r) : ~(w < j)
      BY <2>2, <3>2, <3>3, <3>4
    <3>6. \A o \in Oks(r) : o = w
      <4> SUFFICES ASSUME NEW o \in Oks(r) PROVE o = w
        OBVIOUS
      <4>1. w <= o
        BY <3>1, FirstIn
      <4>2. QED
        BY <2>4, <3>2, <3>3, <3>5, <4>1
    <3>7. ASSUME NEW i \in Slot, i < w PROVE row[r][i] \in PassedOver(r)
      <4>1. w \in Asked(r) /\ row[r][w] # "none"
        BY <3>2, <3>3, RowKinds DEF Skipped, Final
      <4>2. row[r][i] # "none"
        BY <2>3, <2>4, <3>2, <3>7, <4>1 DEF NoGaps
      <4>3. row[r][i] # "listed"
        BY <2>2, <2>4, <3>2, <3>7, <4>1
      <4>4. i \in Asked(r) => row[r][i] \in Passing(r)
        BY <2>2, <3>7, <4>1
      <4>5. i \in Asked(r) \/ row[r][i] \in SkipReason
        BY <2>4, <4>2, <4>3, RowKinds DEF Asked, Rows, Skipped
      <4>6. Passing(r) \cup SkipReason \subseteq PassedOver(r)
        BY DEF Passing, PassedOver
      <4>7. QED
        BY <4>4, <4>5, <4>6
    <3>8. ASSUME NEW i \in Slot, i > w PROVE row[r][i] \in SkipReason \cup {"listed", "none"}
      <4>1. i \notin Asked(r)
        BY <2>4, <3>2, <3>5, <3>8
      <4>2. QED
        BY <2>4, <4>1, RowKinds DEF Asked, Rows, Skipped
    <3>9. QED
      BY <2>6, <3>2, <3>6, <3>7, <3>8
  <2>7. CASE res[r].code # "ok"
    <3>1. Oks(r) = {}
      BY <2>1, <2>5, <2>7, ResultCodes
    <3>2. ASSUME Rows(r, {"listed"}) # {}
          PROVE  row[r][Last(Rows(r, Final))] \in {"not_found", "invalid", "fatal"}
      <4> DEFINE last == Last(Rows(r, Final))
                 waiting == Rows(r, {"listed"})
      <4>1. First(waiting) \in waiting
        <5>1. waiting \in SUBSET Slot
          BY DEF Rows
        <5>2. QED
          BY <3>2, <5>1, FirstIn
      <4>2. Rows(r, Final) # {} /\ ~GoesOn(r)
        BY <2>1, <4>1 DEF Failover, NextAsked
      <4>3. last \in Rows(r, Final)
        <5>1. Rows(r, Final) \in SUBSET Slot
          BY DEF Rows
        <5>2. QED
          BY <4>2, <5>1, LastIn
      <4>4. row[r][last] \in ErrorKind \cup {"local"}
        BY <3>1, <4>3 DEF Rows, Oks, Final
      <4>5. KindOf(row[r][last]) \notin FailoverKind /\ row[r][last] \notin Key
        BY <4>2, <4>4, RowKinds DEF GoesOn
      <4>6. row[r][last] # "local"
        BY <4>5 DEF KindOf, FailoverKind
      <4>7. QED
        BY <4>4, <4>5, <4>6, RowKinds DEF KindOf
    <3>3. QED
      BY <2>7, <3>1, <3>2
  <2>8. QED
    BY <2>6, <2>7
<1>2. QED
  BY <1>1, StrategyInvariant, PTL

(* A collection never holds more answers than are wanted, and returns fewer only when
   nobody is left to ask (collect_n). *)
THEOREM CollectionsStop == Spec => []CollectsWhatItWants
<1>1. StrategyInv => CollectsWhatItWants
  <2> SUFFICES ASSUME StrategyInv, NEW r \in Request, Collecting(r)
               PROVE  /\ Cardinality(Oks(r)) <= Wanted
                      /\ pc[r] = "done" /\ Cardinality(Oks(r)) < Wanted => Rows(r, {"listed"}) = {}
    BY DEF CollectsWhatItWants, Collecting
  <2>1. Cardinality(Oks(r)) <= Wanted
    <3> DEFINE all == Rows(r, Key \cup InFlightRow)
    <3>1. Oks(r) \subseteq all /\ all \in SUBSET Slot
      BY DEF Oks, Rows
    <3>2. Cardinality(all) <= Wanted
      BY DEF StrategyInv, RequestInv, Collected
    <3>3. Cardinality(Oks(r)) <= Cardinality(all)
      BY <3>1, FewerSlots
    <3>4. Cardinality(Oks(r)) \in Nat /\ Cardinality(all) \in Nat
      BY <3>1, SlotsFinite
    <3>5. QED
      BY <3>2, <3>3, <3>4, RoutingAssumption
  <2>2. ASSUME pc[r] = "done", Cardinality(Oks(r)) < Wanted
        PROVE  Rows(r, {"listed"}) = {}
    <3> DEFINE waiting == Rows(r, {"listed"})
               one == {i \in waiting : i = First(waiting)}
    <3>1. waiting \in SUBSET Slot
      BY DEF Rows
    <3>2. CASE NextAsked(r) = {}
      <4>1. IF Rows(r, Final) = {} THEN FirstN(waiting, Wanted) = {} ELSE one = {}
        BY <2>2, <3>2 DEF Collecting, NextAsked
      <4>2. FirstN(waiting, Wanted) = {} => waiting = {}
        BY <3>1, FirstNBounded, RoutingAssumption
      <4>3. one = {} => waiting = {}
        BY <3>1, FirstIn
      <4>4. QED
        BY <4>1, <4>2, <4>3
    <3>3. CASE \A i \in Slot : row[r][i] = "none"
      BY <3>3 DEF Rows
    <3>4. QED
      BY <2>2, <3>2, <3>3 DEF StrategyInv, RequestInv, Concluded
  <2>3. QED
    BY <2>1, <2>2
<1>2. QED
  BY <1>1, StrategyInvariant, PTL

-----------------------------------------------------------------------------
(***************************************************************************)
(* The reserve.  A request that has found the counter below the limit may   *)
(* call the vendor Retries + 1 times; each of these calls is a ticket, kept *)
(* until the call is sent or no longer possible.  The counter and the       *)
(* tickets that are out never exceed the bound: a call turns a ticket into  *)
(* a count, and tickets are only given out below the limit.                 *)
(***************************************************************************)
\* An order names a vendor once, and a reload leaves the budgets as they are.
NoRepeats == \A t \in Table : \A i, j \in 1..Len(Order[t]) : i # j => Order[t][i] # Order[t][j]
LimitsAlike == \A t, u \in Table, v \in Vendor : Limit[t][v] = Limit[u][v]

\* The row ends with the order.
InRange(r) ==
  /\ \A i \in Slot : row[r][i] # "none" => i <= Len(Order[snap[r]])
  /\ pc[r] \in {"quota", "breaker"} => pos[r] <= Len(Order[snap[r]])

Waiting(r, i) == row[r][i] \in {"listed", "acquire", "backoff"} \/ (pc[r] = "breaker" /\ pos[r] = i)

\* Position i of r may still send its call number k (from 0).
MaySend(r, i, k) ==
  \/ Waiting(r, i) /\ k >= tries[r][i]
  \/ row[r][i] = "call" /\ k > tries[r][i]

AllTickets == Request \X (0..Retries)
Tickets(v) == {x \in AllTickets : \E i \in Slot : At(x[1], i) = v /\ MaySend(x[1], i, x[2])}

ReserveInv ==
  /\ TypeOK
  /\ \A r \in Request : InRange(r)
  /\ \A v \in Vendor, t \in Table :
       Capped(t, v) => used[v] + Cardinality(Tickets(v)) <= Limit[t][v] - 1 + Cardinality(AllTickets)

(* There are Retries + 1 tickets for each request. *)
LEMMA TicketsFinite ==
  ASSUME IsFiniteSet(Request), Request # {}
  PROVE  /\ IsFiniteSet(AllTickets)
         /\ Cardinality(AllTickets) = Cardinality(Request) * (Retries + 1)
         /\ Cardinality(AllTickets) \in Nat \ {0}
         /\ \A S \in SUBSET AllTickets :
              /\ IsFiniteSet(S) /\ Cardinality(S) \in Nat
              /\ Cardinality(S) <= Cardinality(AllTickets)
<1>1. IsFiniteSet(0..Retries) /\ Cardinality(0..Retries) = Retries + 1
  BY FS_Interval, RoutingAssumption
<1>2. /\ IsFiniteSet(AllTickets)
      /\ Cardinality(AllTickets) = Cardinality(Request) * (Retries + 1)
  BY <1>1, FS_Product DEF AllTickets
<1>3. AllTickets # {}
  <2>1. PICK r \in Request : TRUE
    OBVIOUS
  <2>2. <<r, 0>> \in AllTickets
    BY RoutingAssumption DEF AllTickets
  <2>3. QED
    BY <2>2
<1>4. Cardinality(AllTickets) \in Nat \ {0}
  BY <1>2, <1>3, FS_CardinalityType, FS_EmptySet
<1>5. \A S \in SUBSET AllTickets :
        /\ IsFiniteSet(S) /\ Cardinality(S) \in Nat
        /\ Cardinality(S) <= Cardinality(AllTickets)
  BY <1>2, FS_Subset, FS_CardinalityType
<1>6. QED
  BY <1>2, <1>4, <1>5

(* The bound is kept by a step that gives out no tickets and turns none into two counts. *)
LEMMA TicketCount ==
  ASSUME IsFiniteSet(Request), Request # {}, TypeOK, TypeOK', NEW v \in Vendor,
         Tickets(v)' \subseteq Tickets(v),
         \/ used'[v] <= used[v]
         \/ used'[v] <= used[v] + 1 /\ \E x \in Tickets(v) : x \notin Tickets(v)'
  PROVE  used'[v] + Cardinality(Tickets(v)') <= used[v] + Cardinality(Tickets(v))
<1> DEFINE before == Tickets(v)
           after == Tickets(v)'
<1>1. before \in SUBSET AllTickets /\ after \in SUBSET AllTickets
  BY DEF Tickets
<1>2. /\ IsFiniteSet(before) /\ Cardinality(before) \in Nat
      /\ IsFiniteSet(after) /\ Cardinality(after) \in Nat
  BY <1>1, TicketsFinite
<1>3. used[v] \in Int /\ used'[v] \in Int
  BY DEF TypeOK
<1>4. CASE used'[v] <= used[v]
  <2>1. Cardinality(after) <= Cardinality(before)
    BY <1>2, FS_Subset
  <2>2. QED
    BY <1>2, <1>3, <1>4, <2>1
<1>5. ASSUME used'[v] <= used[v] + 1, NEW x \in before, x \notin after
      PROVE  used'[v] + Cardinality(after) <= used[v] + Cardinality(before)
  <2>1. after \subseteq before \ {x}
    BY <1>5
  <2>2. IsFiniteSet(before \ {x}) /\ Cardinality(before \ {x}) = Cardinality(before) - 1
    BY <1>2, <1>5, FS_RemoveElement
  <2>3. Cardinality(after) <= Cardinality(before \ {x})
    BY <2>1, <2>2, FS_Subset
  <2>4. QED
    BY <1>2, <1>3, <1>5, <2>2, <2>3
<1>6. QED
  BY <1>4, <1>5

(* A request that is left alone keeps its tickets. *)
LEMMA TicketFrame ==
  ASSUME NEW r, row'[r] = row[r], pc'[r] = pc[r], pos'[r] = pos[r], tries'[r] = tries[r]
  PROVE  \A i, k : MaySend(r, i, k)' <=> MaySend(r, i, k)
BY DEF MaySend, Waiting

(* A step of one request gives out no tickets if none of its positions gets one. *)
LEMMA NoNewTickets ==
  ASSUME NEW v, NEW r \in Request,
         \A q \in Request \ {r} : /\ row'[q] = row[q] /\ pc'[q] = pc[q] /\ pos'[q] = pos[q]
                                  /\ tries'[q] = tries[q] /\ snap'[q] = snap[q],
         \A i \in Slot, k \in 0..Retries :
           MaySend(r, i, k)' => snap'[r] = snap[r] /\ (At(r, i) = v => MaySend(r, i, k))
  PROVE  Tickets(v)' \subseteq Tickets(v)
<1> SUFFICES ASSUME NEW x \in AllTickets, NEW i \in Slot, At(x[1], i)' = v, MaySend(x[1], i, x[2])'
             PROVE  At(x[1], i) = v /\ MaySend(x[1], i, x[2])
  BY DEF Tickets
<1>1. x[1] \in Request /\ x[2] \in 0..Retries
  BY DEF AllTickets
<1>2. CASE x[1] = r
  <2>1. snap'[r] = snap[r]
    BY <1>1, <1>2
  <2>2. At(r, i) = v
    BY <1>2, <2>1 DEF At
  <2>3. QED
    BY <1>1, <1>2, <2>2
<1>3. CASE x[1] # r
  <2>1. snap'[x[1]] = snap[x[1]] /\ MaySend(x[1], i, x[2])
    BY <1>1, <1>3, TicketFrame
  <2>2. QED
    BY <2>1 DEF At
<1>4. QED
  BY <1>2, <1>3

(* The row of a request stays within its order. *)
LEMMA InRangeStep ==
  ASSUME TypeOK, \A r \in Request : InRange(r), [Next]_vars, NEW q \in Request
  PROVE  InRange(q)'
<1> DEFINE Same == row'[q] = row[q] /\ pc'[q] = pc[q] /\ pos'[q] = pos[q] /\ snap'[q] = snap[q]
<1>1. Same => InRange(q)'
  BY DEF InRange
<1>2. ASSUME NEW r \in Request, NEW m \in Mode, Start(r, m) PROVE InRange(q)'
  <2>1. CASE q = r
    <3>1. /\ \A i \in Slot : row'[q][i] = "none"
          /\ snap'[q] = table /\ pos'[q] = 1
          /\ pc'[q] \in {"quota", "breaker"} => Len(Order[table]) # 0
      BY <1>2, <2>1 DEF Start, TypeOK
    <3>2. Len(Order[table]) \in Nat
      BY RoutingAssumption DEF TypeOK
    <3>3. QED
      BY <3>1, <3>2 DEF InRange
  <2>2. CASE q # r
    BY <1>1, <1>2, <2>2 DEF Start, TypeOK
  <2>3. QED
    BY <2>1, <2>2
<1>3. ASSUME NEW r \in Request, NEW what, pc[r] \in {"quota", "breaker"}, Filtered(r, what)
      PROVE  InRange(q)'
  <2>1. CASE q = r
    <3>1. /\ \A i \in Slot : row'[q][i] # "none" => i = pos[q] \/ row[q][i] # "none"
          /\ snap'[q] = snap[q]
      BY <1>3, <2>1 DEF Filtered, TypeOK
    <3>2. pos[q] <= Len(Order[snap[q]])
      BY <1>3, <2>1 DEF InRange
    <3>3. \/ pos[q] < Len(Order[snap[q]]) /\ pos'[q] = pos[q] + 1
          \/ pc'[q] = "running"
      BY <1>3, <2>1 DEF Filtered, TypeOK
    <3>4. Len(Order[snap[q]]) \in Nat /\ pos[q] \in Nat
      BY RoutingAssumption DEF TypeOK
    <3>5. QED
      BY <3>1, <3>2, <3>3, <3>4 DEF InRange
  <2>2. CASE q # r
    BY <1>1, <1>3, <2>2 DEF Filtered, TypeOK
  <2>3. QED
    BY <2>1, <2>2
<1>4. ASSUME NEW r \in Request, CheckQuota(r) \/ CheckBreaker(r) PROVE InRange(q)'
  <2>1. CASE \E what : Filtered(r, what)
    BY <1>3, <1>4, <2>1 DEF CheckQuota, CheckBreaker
  <2>2. CASE pc[r] = "quota" /\ pc' = [pc EXCEPT ![r] = "breaker"] /\ UNCHANGED <<snap, pos, row>>
    BY <2>2 DEF InRange, TypeOK
  <2>3. QED
    BY <1>4, <2>1, <2>2 DEF CheckQuota, CheckBreaker
<1>5. ASSUME NEW r \in Request, Advance(r) PROVE InRange(q)'
  <2>1. CASE NextAsked(r) # {} /\ q = r
    <3>1. mode[r] \in Strategy
      BY RoutingAssumption DEF TypeOK
    <3>2. \A i \in Slot : row'[q][i] # "none" => row[q][i] # "none"
      BY <1>5, <2>1, <3>1, NextAskedListed DEF Advance, TypeOK, Rows
    <3>3. QED
      BY <1>5, <2>1, <3>2 DEF Advance, InRange
  <2>2. CASE NextAsked(r) # {} /\ q # r
    BY <1>1, <1>5, <2>2 DEF Advance, TypeOK
  <2>3. CASE NextAsked(r) = {}
    BY <1>5, <2>3 DEF Advance, InRange, TypeOK
  <2>4. QED
    BY <2>1, <2>2, <2>3
<1>6. ASSUME NEW r \in Request, NEW i \in Slot, Attempt(r, i) PROVE InRange(q)'
  <2>1. /\ \A j \in Slot : row'[q][j] # "none" => row[q][j] # "none"
        /\ snap' = snap /\ pc' = pc /\ pos' = pos
    BY <1>6 DEF Attempt, Acquire, Refuse, Retry, SendCall, Headers, Answer, request, TypeOK
  <2>2. QED
    BY <2>1 DEF InRange
<1>7. ASSUME NEW r \in Request, Cancel(r) PROVE InRange(q)'
  <2>1. CASE q = r
    BY <1>7, <2>1 DEF Cancel, InRange, TypeOK
  <2>2. CASE q # r
    BY <1>1, <1>7, <2>2 DEF Cancel, TypeOK
  <2>3. QED
    BY <2>1, <2>2
<1>8. CASE (\E t \in Table : Swap(t)) \/ Tick \/ NewWindow \/ UNCHANGED vars
  BY <1>1, <1>8 DEF Swap, Tick, NewWindow, request, vars
<1>9. QED
  BY <1>2, <1>4, <1>5, <1>6, <1>7, <1>8 DEF Next

(* A call turns a ticket of its vendor into a count. *)
LEMMA CallSpendsTicket ==
  ASSUME TypeOK, TypeOK', \A q \in Request : InRange(q), NoRepeats,
         NEW v \in Vendor, NEW r \in Request, NEW i \in Slot, pc[r] = "running",
         row[r][i] \in {"acquire", "backoff"}, SendCall(r, i)
  PROVE  /\ Tickets(v)' \subseteq Tickets(v)
         /\ \/ used'[v] <= used[v]
            \/ used'[v] <= used[v] + 1 /\ \E x \in Tickets(v) : x \notin Tickets(v)'
<1>1. /\ \A j \in Slot : row'[r][j] = IF j = i THEN "call" ELSE row[r][j]
      /\ \A q \in Request \ {r} : row'[q] = row[q]
      /\ pc' = pc /\ pos' = pos /\ tries' = tries /\ snap' = snap
  BY DEF SendCall, TypeOK
<1>2. tries[r][i] \in 0..Retries
  BY DEF TypeOK
<1>3. \A j \in Slot, k \in 0..Retries : MaySend(r, j, k)' => MaySend(r, j, k)
  <2> SUFFICES ASSUME NEW j \in Slot, NEW k \in 0..Retries, MaySend(r, j, k)' PROVE MaySend(r, j, k)
    OBVIOUS
  <2>1. CASE j = i
    <3>1. k > tries[r][i]
      BY <1>1, <2>1 DEF MaySend, Waiting
    <3>2. QED
      BY <1>2, <2>1, <3>1 DEF MaySend, Waiting
  <2>2. CASE j # i
    BY <1>1, <2>2 DEF MaySend, Waiting
  <2>3. QED
    BY <2>1, <2>2
<1>4. Tickets(v)' \subseteq Tickets(v)
  BY <1>1, <1>3, NoNewTickets
<1>5. CASE At(r, i) # v
  <2>1. used'[v] = used[v]
    BY <1>5 DEF SendCall, TypeOK
  <2>2. used[v] \in Int
    BY DEF TypeOK
  <2>3. QED
    BY <1>4, <2>1, <2>2
<1>6. CASE At(r, i) = v
  <2> DEFINE x == <<r, tries[r][i]>>
  <2>1. used'[v] <= used[v] + 1
    <3>1. used[v] \in Int /\ used'[v] \in {used[v], used[v] + 1}
      BY <1>6 DEF SendCall, TypeOK
    <3>2. QED
      BY <3>1
  <2>2. x \in Tickets(v)
    <3>1. MaySend(r, i, tries[r][i])
      BY <1>2 DEF MaySend, Waiting
    <3>2. x \in AllTickets /\ x[1] = r /\ x[2] = tries[r][i]
      BY <1>2 DEF AllTickets
    <3>3. QED
      BY <1>6, <3>1, <3>2 DEF Tickets
  <2>3. ASSUME NEW j \in Slot, At(r, j)' = v, MaySend(r, j, tries[r][i])'
        PROVE  FALSE
    <3>1. At(r, j) = v
      BY <1>1, <2>3 DEF At
    <3>2. j # i
      BY <1>1, <1>2, <2>3 DEF MaySend, Waiting
    <3>3. row[r][j] # "none" /\ row[r][i] # "none"
      BY <1>1, <2>3, <3>2 DEF MaySend, Waiting
    <3>4. j \in 1..Len(Order[snap[r]]) /\ i \in 1..Len(Order[snap[r]])
      <4>1. j <= Len(Order[snap[r]]) /\ i <= Len(Order[snap[r]])
        BY <3>3 DEF InRange
      <4>2. Len(Order[snap[r]]) \in Nat
        BY RoutingAssumption DEF TypeOK
      <4>3. QED
        BY <4>1, <4>2 DEF Slot
    <3>5. snap[r] \in Table
      BY DEF TypeOK
    <3>6. QED
      BY <1>6, <3>1, <3>2, <3>4, <3>5 DEF NoRepeats, At
  <2>4. x \notin Tickets(v)'
    <3> SUFFICES ASSUME NEW y, y = x, y \in Tickets(v)' PROVE FALSE
      OBVIOUS
    <3> HIDE DEF x
    <3>1. PICK j \in Slot : At(y[1], j)' = v /\ MaySend(y[1], j, y[2])'
      BY DEF Tickets
    <3> USE DEF x
    <3>2. y[1] = r /\ y[2] = tries[r][i]
      OBVIOUS
    <3>3. At(r, j)' = v
      BY <3>1, <3>2 DEF At
    <3>4. MaySend(r, j, tries[r][i])'
      BY <1>1, <3>1, <3>2 DEF MaySend, Waiting
    <3>5. QED
      BY <2>3, <3>3, <3>4
  <2>5. QED
    BY <1>4, <2>1, <2>2, <2>4
<1>7. QED
  BY <1>5, <1>6

(* Whatever a step does, it gives out tickets of a vendor only below its limit. *)
LEMMA TicketStep ==
  ASSUME ReserveInv, TypeOK', NoRepeats, [Next]_vars, NEW v \in Vendor
  PROVE  \/ /\ Tickets(v)' \subseteq Tickets(v)
            /\ \/ used'[v] <= used[v]
               \/ used'[v] <= used[v] + 1 /\ \E x \in Tickets(v) : x \notin Tickets(v)'
         \/ used'[v] = used[v] /\ \E t \in Table : ~(Capped(t, v) /\ used[v] >= Limit[t][v])
<1> USE DEF ReserveInv
<1>1. used[v] \in Int
  BY DEF TypeOK
<1> DEFINE Kept == Tickets(v)' \subseteq Tickets(v) /\ used'[v] <= used[v]
<1>2. ASSUME NEW r \in Request, NEW m \in Mode, Start(r, m) PROVE Kept
  <2>1. /\ \A i \in Slot : row'[r][i] = "none"
        /\ pc'[r] # "breaker"
        /\ used' = used
    BY <1>2 DEF Start, TypeOK, state
  <2>2. \A i \in Slot, k \in 0..Retries : ~MaySend(r, i, k)'
    BY <2>1 DEF MaySend, Waiting
  <2>3. \A q \in Request \ {r} : /\ row'[q] = row[q] /\ pc'[q] = pc[q] /\ pos'[q] = pos[q]
                                 /\ tries'[q] = tries[q] /\ snap'[q] = snap[q]
    BY <1>2 DEF Start, TypeOK
  <2>4. QED
    BY <1>1, <2>1, <2>2, <2>3, NoNewTickets
<1>3. ASSUME NEW r \in Request, NEW what \in SkipReason \cup {"listed"}, Filtered(r, what),
             what = "listed" => pc[r] = "breaker"
      PROVE  Kept
  <2>1. /\ \A i \in Slot : row'[r][i] = IF i = pos[r] THEN what ELSE row[r][i]
        /\ pc'[r] # "breaker"
        /\ used' = used /\ tries' = tries /\ snap' = snap
    BY <1>3 DEF Filtered, TypeOK
  <2>2. \A q \in Request \ {r} : row'[q] = row[q] /\ pc'[q] = pc[q] /\ pos'[q] = pos[q]
    BY <1>3 DEF Filtered, TypeOK
  <2>3. what \notin {"acquire", "backoff", "call"}
    BY DEF SkipReason
  <2>4. \A i \in Slot, k \in 0..Retries : MaySend(r, i, k)' => MaySend(r, i, k)
    BY <1>3, <2>1, <2>3 DEF MaySend, Waiting
  <2>5. QED
    BY <1>1, <2>1, <2>2, <2>4, NoNewTickets
<1>4. ASSUME NEW r \in Request, CheckQuota(r)
      PROVE  Kept \/ (used'[v] = used[v] /\ \E t \in Table : ~(Capped(t, v) /\ used[v] >= Limit[t][v]))
  <2>1. CASE \E what \in SkipReason : Filtered(r, what)
    BY <1>3, <2>1 DEF SkipReason
  <2>2. CASE /\ ~OverReserve(r, At(r, pos[r]))
             /\ pc' = [pc EXCEPT ![r] = "breaker"]
             /\ UNCHANGED <<used, snap, pos, row, tries>>
    <3>1. CASE At(r, pos[r]) = v
      BY <2>2, <3>1 DEF OverReserve, TypeOK
    <3>2. CASE At(r, pos[r]) # v
      <4>1. \A q \in Request \ {r} : pc'[q] = pc[q]
        BY <2>2 DEF TypeOK
      <4>2. \A i \in Slot, k \in 0..Retries :
              MaySend(r, i, k)' => (At(r, i) = v => MaySend(r, i, k))
        BY <2>2, <3>2 DEF MaySend, Waiting
      <4>3. QED
        BY <1>1, <2>2, <4>1, <4>2, NoNewTickets
    <3>3. QED
      BY <3>1, <3>2
  <2>3. QED
    BY <1>4, <2>1, <2>2 DEF CheckQuota, SkipReason, state
<1>5. ASSUME NEW r \in Request, CheckBreaker(r) PROVE Kept
  BY <1>3, <1>5 DEF CheckBreaker, SkipReason
<1>6. ASSUME NEW r \in Request, Advance(r) PROVE Kept
  <2>1. mode[r] \in Strategy
    BY RoutingAssumption DEF TypeOK
  <2>2. \A i \in Slot : row'[r][i] = row[r][i] \/ (row'[r][i] = "acquire" /\ row[r][i] = "listed")
    <3>1. CASE NextAsked(r) # {}
      <4>1. \A i \in NextAsked(r) : row[r][i] = "listed"
        BY <2>1, NextAskedListed DEF Rows
      <4>2. \A i \in Slot : row'[r][i] = IF i \in NextAsked(r) THEN "acquire" ELSE row[r][i]
        BY <1>6, <3>1 DEF Advance, TypeOK
      <4>3. QED
        BY <4>1, <4>2
    <3>2. CASE NextAsked(r) = {}
      BY <1>6, <3>2 DEF Advance
    <3>3. QED
      BY <3>1, <3>2
  <2>3. /\ pc'[r] # "breaker" /\ used' = used /\ tries' = tries /\ snap' = snap /\ pos' = pos
        /\ \A q \in Request \ {r} : row'[q] = row[q] /\ pc'[q] = pc[q]
    BY <1>6 DEF Advance, TypeOK, state
  <2>4. \A i \in Slot, k \in 0..Retries : MaySend(r, i, k)' => MaySend(r, i, k)
    BY <2>2, <2>3 DEF MaySend, Waiting
  <2>5. QED
    BY <1>1, <2>3, <2>4, NoNewTickets
<1>7. ASSUME NEW r \in Request, NEW i \in Slot, Refuse(r, i) PROVE Kept
  <2>1. /\ \A j \in Slot : row'[r][j] = IF j = i THEN "local" ELSE row[r][j]
        /\ \A q \in Request \ {r} : row'[q] = row[q]
        /\ pc' = pc /\ used' = used /\ tries' = tries /\ snap' = snap /\ pos' = pos
        /\ pc[r] = "running"
    BY <1>7 DEF Refuse, TypeOK, state
  <2>2. \A j \in Slot, k \in 0..Retries : MaySend(r, j, k)' => MaySend(r, j, k)
    BY <2>1 DEF MaySend, Waiting
  <2>3. QED
    BY <1>1, <2>1, <2>2, NoNewTickets
<1>8. ASSUME NEW r \in Request, NEW i \in Slot, NEW x \in Answers, Answer(r, i, x[1], x[2])
      PROVE  Kept
  <2>1. /\ \A q \in Request \ {r} : row'[q] = row[q] /\ tries'[q] = tries[q]
        /\ \A j \in Slot \ {i} : row'[r][j] = row[r][j] /\ tries'[r][j] = tries[r][j]
        /\ pc' = pc /\ used' = used /\ snap' = snap /\ pos' = pos
        /\ pc[r] = "running" /\ row[r][i] = "call"
    BY <1>8 DEF Answer, TypeOK
  <2>2. \/ row'[r][i] = "backoff" /\ tries'[r][i] = tries[r][i] + 1
        \/ row'[r][i] \in Final
    <3>1. x[1] \in Final
      BY AnswersType DEF Final
    <3>2. QED
      BY <1>8, <3>1 DEF Answer, TypeOK
  <2>3. tries[r][i] \in Int
    BY DEF TypeOK
  <2>4. ASSUME NEW j \in Slot, NEW k \in 0..Retries, MaySend(r, j, k)' PROVE MaySend(r, j, k)
    <3>1. CASE j = i
      <4>1. row'[r][i] \in Final => row'[r][i] \notin {"listed", "acquire", "backoff", "call"}
        BY RowKinds DEF Skipped, InFlightRow
      <4>2. k >= tries[r][i] + 1
        BY <2>1, <2>2, <2>4, <3>1, <4>1 DEF MaySend, Waiting
      <4>3. k > tries[r][i]
        BY <2>3, <4>2
      <4>4. QED
        BY <2>1, <3>1, <4>3 DEF MaySend
    <3>2. CASE j # i
      BY <2>1, <2>4, <3>2 DEF MaySend, Waiting
    <3>3. QED
      BY <3>1, <3>2
  <2>5. QED
    BY <1>1, <2>1, <2>4, NoNewTickets
<1>9. ASSUME NEW r \in Request, NEW i \in Slot, Acquire(r, i) \/ Retry(r, i)
      PROVE  /\ Tickets(v)' \subseteq Tickets(v)
             /\ \/ used'[v] <= used[v]
                \/ used'[v] <= used[v] + 1 /\ \E x \in Tickets(v) : x \notin Tickets(v)'
  BY <1>9, CallSpendsTicket DEF Acquire, Retry
<1>10. ASSUME NEW r \in Request, Cancel(r) PROVE Kept
  <2>1. /\ \A i \in Slot : row'[r][i] = "none"
        /\ pc'[r] = "done" /\ used' = used
        /\ \A q \in Request \ {r} : /\ row'[q] = row[q] /\ pc'[q] = pc[q] /\ pos'[q] = pos[q]
                                    /\ tries'[q] = tries[q] /\ snap'[q] = snap[q]
    BY <1>10 DEF Cancel, TypeOK, state
  <2>2. \A i \in Slot, k \in 0..Retries : ~MaySend(r, i, k)'
    BY <2>1 DEF MaySend, Waiting
  <2>3. QED
    BY <1>1, <2>1, <2>2, NoNewTickets
<1>11. CASE \/ \E r \in Request, i \in Slot, d \in Delay \cup {NoDelay} : Headers(r, i, d)
            \/ \E t \in Table : Swap(t)
            \/ Tick \/ NewWindow \/ UNCHANGED vars
  <2>1. UNCHANGED <<row, pc, pos, tries, snap>>
    BY <1>11 DEF Headers, Swap, Tick, NewWindow, request, vars
  <2>2. Tickets(v)' = Tickets(v)
    BY <2>1 DEF Tickets, At, MaySend, Waiting
  <2>3. used' = used \/ used'[v] = 0
    BY <1>11 DEF Headers, Swap, Tick, NewWindow, state, vars
  <2>4. used[v] >= 0
    BY DEF TypeOK
  <2>5. QED
    BY <1>1, <2>2, <2>3, <2>4
<1>12. QED
  BY <1>2, <1>4, <1>5, <1>6, <1>7, <1>8, <1>9, <1>10, <1>11 DEF Next, Attempt

(* The bound is kept by every step. *)
LEMMA ReserveStep ==
  ASSUME IsFiniteSet(Request), Request # {}, NoRepeats, LimitsAlike, ReserveInv, [Next]_vars
  PROVE  ReserveInv'
<1>1. TypeOK'
  BY TypeStep DEF ReserveInv
<1>2. \A q \in Request : InRange(q)'
  BY InRangeStep DEF ReserveInv
<1>3. ASSUME NEW v \in Vendor, NEW t \in Table, Capped(t, v)
      PROVE  used'[v] + Cardinality(Tickets(v)') <= Limit[t][v] - 1 + Cardinality(AllTickets)
  <2>1. /\ used[v] \in Int /\ used'[v] \in Int /\ Limit[t][v] \in Int
        /\ Limit[t][v] # NoLimit
    BY <1>1, <1>3, RoutingAssumption DEF ReserveInv, TypeOK, Capped, NoLimit
  <2>2. Tickets(v) \in SUBSET AllTickets /\ Tickets(v)' \in SUBSET AllTickets
    BY DEF Tickets
  <2>3. /\ Cardinality(Tickets(v)) \in Nat /\ Cardinality(Tickets(v)') \in Nat
        /\ Cardinality(AllTickets) \in Nat
        /\ Cardinality(Tickets(v)') <= Cardinality(AllTickets)
    BY <2>2, TicketsFinite
  <2>4. used[v] + Cardinality(Tickets(v)) <= Limit[t][v] - 1 + Cardinality(AllTickets)
    BY <1>3 DEF ReserveInv
  <2>5. CASE /\ Tickets(v)' \subseteq Tickets(v)
             /\ \/ used'[v] <= used[v]
                \/ used'[v] <= used[v] + 1 /\ \E x \in Tickets(v) : x \notin Tickets(v)'
    <3>1. used'[v] + Cardinality(Tickets(v)') <= used[v] + Cardinality(Tickets(v))
      BY <1>1, <2>5, TicketCount DEF ReserveInv
    <3>2. QED
      BY <2>1, <2>3, <2>4, <3>1
  <2>6. ASSUME used'[v] = used[v], NEW u \in Table, ~(Capped(u, v) /\ used[v] >= Limit[u][v])
        PROVE  used'[v] + Cardinality(Tickets(v)') <= Limit[t][v] - 1 + Cardinality(AllTickets)
    <3>1. Limit[u][v] = Limit[t][v]
      BY DEF LimitsAlike
    <3>2. Capped(u, v)
      BY <1>3, <3>1 DEF Capped
    <3>3. used[v] < Limit[t][v]
      BY <2>1, <2>6, <3>1, <3>2
    <3>4. QED
      BY <2>1, <2>3, <2>6, <3>3
  <2>7. QED
    BY <1>1, <2>5, <2>6, TicketStep
<1>4. \A v \in Vendor, t \in Table :
        Capped(t, v) => used'[v] + Cardinality(Tickets(v)') <= Limit[t][v] - 1 + Cardinality(AllTickets)
  BY <1>3
<1>5. QED
  BY <1>1, <1>2, <1>4 DEF ReserveInv, Capped, AllTickets

(* At the start nothing is counted and no request may send. *)
LEMMA ReserveInit ==
  ASSUME IsFiniteSet(Request), Request # {}, Init
  PROVE  ReserveInv
<1>1. TypeOK
  BY InitType
<1>2. \A r \in Request : InRange(r)
  BY DEF Init, InRange
<1>3. ASSUME NEW v \in Vendor, NEW t \in Table, Capped(t, v)
      PROVE  used[v] + Cardinality(Tickets(v)) <= Limit[t][v] - 1 + Cardinality(AllTickets)
  <2>1. Tickets(v) = {}
    BY DEF Tickets, MaySend, Waiting, Init, AllTickets
  <2>2. Cardinality(Tickets(v)) = 0
    BY <2>1, FS_EmptySet
  <2>3. Limit[t][v] \in Nat
    BY <1>3, RoutingAssumption DEF Capped
  <2>4. used[v] = 0
    BY DEF Init
  <2>5. Cardinality(AllTickets) \in Nat \ {0}
    BY TicketsFinite
  <2>6. QED
    BY <2>2, <2>3, <2>4, <2>5
<1>4. QED
  BY <1>1, <1>2, <1>3 DEF ReserveInv

(* Concurrent requests overshoot a window's budget by no more than the calls they may    *)
(* have had in hand when it ran out: quota_block's read and record_request's count are    *)
(* apart, and that is all the distance there is, for any number of requests and retries.  *)
THEOREM ReserveOvershoot ==
  ASSUME IsFiniteSet(Request), Request # {}, NoRepeats, LimitsAlike
  PROVE  Spec => []OvershootBounded
<1>1. Init => ReserveInv
  BY ReserveInit
<1>2. ReserveInv /\ [Next]_vars => ReserveInv'
  BY ReserveStep
<1>3. ReserveInv => OvershootBounded
  <2> SUFFICES ASSUME ReserveInv, NEW v \in Vendor, NEW t \in Table, Capped(t, v)
               PROVE  used[v] <= Limit[t][v] - 1 + Cardinality(Request) * (Retries + 1)
    BY DEF OvershootBounded
  <2>1. Tickets(v) \in SUBSET AllTickets
    BY DEF Tickets
  <2>2. Cardinality(Tickets(v)) \in Nat /\ Cardinality(AllTickets) \in Nat
    BY <2>1, TicketsFinite
  <2>3. Cardinality(AllTickets) = Cardinality(Request) * (Retries + 1)
    BY TicketsFinite
  <2>4. used[v] \in Int /\ Limit[t][v] \in Int
    BY RoutingAssumption DEF ReserveInv, TypeOK, NoLimit
  <2>5. used[v] + Cardinality(Tickets(v)) <= Limit[t][v] - 1 + Cardinality(AllTickets)
    BY DEF ReserveInv
  <2>6. used[v] <= Limit[t][v] - 1 + Cardinality(AllTickets)
    BY <2>2, <2>4, <2>5
  <2>7. QED
    BY <2>3, <2>6
<1>4. QED
  BY <1>1, <1>2, <1>3, PTL DEF Spec
==============================================================================
