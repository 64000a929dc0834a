------------------------------ MODULE Routing ------------------------------
(***************************************************************************)
(* The router (src/crates/routing/src/router.rs): concurrent requests, each *)
(* filtering its configured vendor order down to candidates and asking them *)
(* by failover, quorum, aggregation or fan-out, over the vendor state they  *)
(* all share, while the routing table may be swapped under them.  An        *)
(* operation may also filter only to look ("peek"): the private broadcast   *)
(* asks whether a relay is left, a pinned cursor whether its vendor is.     *)
(*                                                                         *)
(* A request is a task.  It runs without interruption between two awaits;   *)
(* filtering reads the shared state vendor by vendor, under a lock that is  *)
(* released in between, so each of its two checks is a step of its own.     *)
(* One call of a port sends one vendor request, of cost 1 (the abstraction  *)
(* of QuotaSink::record_request), and day and month are one window.         *)
(***************************************************************************)
EXTENDS VendorState, Sequences, FiniteSets

CONSTANTS
  Vendor,      \* vendor ids
  Composite,   \* those whose errors belong to other vendors: {"rpc"} (COMPOSITE_VENDOR)
  Request,     \* tasks that may be routing at the same time
  Table,       \* versions of the configuration (RoutingTable)
  Order,       \* Order[t]: the vendors configured for the capability, in order
  Usable,      \* Usable[t]: vendors that are active and have a port for it
  Limit,       \* Limit[t][v]: the enforced budget of the window, or NoLimit
  Throttled,   \* vendors with a local rps / per-minute limit
  Key,         \* the values an answer may carry, as far as quorum compares them
  AnswerKind,  \* the errors vendors answer with in this instance
  Mode,        \* the strategies requests use in this instance
  Wanted,      \* n of quorum and aggregate
  Retries,     \* RouterOptions.retries
  MayCancel,   \* whether the caller may drop a request (client disconnect)
  MaxOrder,    \* length of the longest configured order
  UsedBound    \* bound: a counter stops counting here

NoLimit == -1   \* no window budget, or on_exhausted = "allow_overage"
Strategy == {"failover", "confirm", "quorum", "aggregate", "fan_out", "peek"}
Capped(t, v) == Limit[t][v] # NoLimit
Slot == 1..MaxOrder

ASSUME RoutingAssumption ==
  /\ Composite \subseteq Vendor /\ Throttled \subseteq Vendor
  /\ Order \in [Table -> Seq(Vendor)]
  /\ Usable \in [Table -> SUBSET Vendor]
  /\ Limit \in [Table -> [Vendor -> Nat \cup {NoLimit}]]
  /\ AnswerKind \subseteq ErrorKind
  /\ Mode \subseteq Strategy
  /\ Wanted \in Nat \ {0}
  /\ Retries \in Nat
  /\ MayCancel \in BOOLEAN
  /\ MaxOrder \in Nat /\ UsedBound \in Nat
  /\ \A t \in Table : Len(Order[t]) <= MaxOrder

VARIABLES
  table,    \* the current routing table
  vendor,   \* vendor[v]: its shared runtime state (VendorState)
  used,     \* used[v]: requests metered in the current window (CounterStore)
  pc,       \* pc[r]: where request r is
  mode,     \* mode[r]: its strategy
  snap,     \* snap[r]: the table it took when it started
  pos,      \* pos[r]: the position of its order it is filtering
  row,      \* row[r][i]: what happened to the vendor at position i of its order
  tries,    \* tries[r][i]: retries made there
  res,      \* res[r]: what the request returned
  seen      \* seen[v]: history of recorded results, read by properties only

state == <<vendor, used, seen>>
request == <<pc, mode, snap, pos, row, tries, res>>
vars == <<table, vendor, used, pc, mode, snap, pos, row, tries, res, seen>>

-----------------------------------------------------------------------------
(***************************************************************************)
(* Rows.  "none": not reached; a skip reason; "listed": a candidate that    *)
(* was not asked; then the attempt, and its result: a Key or an error kind. *)
(***************************************************************************)
SkipReason == {"unusable", "marked_exhausted", "quota_reserve", "breaker_open"}
InFlightRow == {"acquire", "call", "backoff"}
\* `local` is the attempt that got no local rate-limit token: an error for the strategy,
\* a Skipped row in the trail.
Final == Key \cup ErrorKind \cup {"local"}
Row == {"none", "listed"} \cup SkipReason \cup InFlightRow \cup Final

\* The keys are not the name of any other row (TLC only tells rows apart by value).
ASSUME KeyAssumption ==
  Key \cap ({"none", "listed", "local"} \cup SkipReason \cup InFlightRow \cup ErrorKind) = {}

At(r, i) == Order[snap[r]][i]                       \* the vendor at position i
Rows(r, S) == {i \in Slot : row[r][i] \in S}
Oks(r) == Rows(r, Key)
Errors(r) == Rows(r, ErrorKind \cup {"local"})
KindOf(a) == IF a = "local" THEN "rate_limited" ELSE a

First(S) == CHOOSE i \in S : \A j \in S : i <= j
Last(S) == CHOOSE i \in S : \A j \in S : i >= j
FirstN(S, n) == {i \in S : Cardinality({j \in S : j <= i}) <= n}

-----------------------------------------------------------------------------
(***************************************************************************)
(* What a strategy asks next, once no attempt of the request is in flight:  *)
(* a set of positions, empty when it is finished.                           *)
(***************************************************************************)
\* Mutant: a not-found is passed over by every failover.
MutantNotFoundFailsOver(r) ==
  LET i == Last(Rows(r, Final)) IN
    row[r][i] \notin Key /\ KindOf(row[r][i]) \in FailoverKind \cup {"not_found"}

\* failover goes on after an error that allows it, and after the first NotFound of a
\* request that wants it confirmed.
GoesOn(r) ==
  LET i == Last(Rows(r, Final)) IN
  LET a == row[r][i] IN
    /\ a \notin Key
    /\ \/ KindOf(a) \in FailoverKind
       \/ /\ a = "not_found" /\ mode[r] = "confirm"
          /\ Rows(r, {"not_found"}) = {i}

\* Mutant: collect_n asks one more candidate than it needs.
MutantAsksOneMore(r) ==
  LET waiting == Rows(r, {"listed"})
      one == {i \in waiting : i = First(waiting)}
  IN CASE mode[r] \in {"failover", "confirm"} ->
            IF Rows(r, Final) # {} => GoesOn(r) THEN one ELSE {}
       [] mode[r] \in {"quorum", "aggregate"} ->
            IF Rows(r, Final) = {} THEN FirstN(waiting, Wanted)
            ELSE IF Cardinality(Oks(r)) <= Wanted THEN one ELSE {}
       [] mode[r] = "fan_out" -> waiting
       [] mode[r] = "peek" -> {}

NextAsked(r) ==
  LET waiting == Rows(r, {"listed"})
      begun == Rows(r, Final) # {}
      one == {i \in waiting : i = First(waiting)}
  IN CASE mode[r] \in {"failover", "confirm"} ->
            IF begun => GoesOn(r) THEN one ELSE {}
       [] mode[r] \in {"quorum", "aggregate"} ->
            IF ~begun THEN FirstN(waiting, Wanted)
            ELSE IF Cardinality(Oks(r)) < Wanted THEN one ELSE {}
       [] mode[r] = "fan_out" -> waiting
       [] mode[r] = "peek" -> {}

-----------------------------------------------------------------------------
(***************************************************************************)
(* What the request returns.                                                *)
(***************************************************************************)
Code == {"ok", "CONFLICT", "UNSUPPORTED_CAPABILITY", "INVALID_INPUT", "NOT_FOUND",
         "RATE_LIMITED", "QUOTA_EXCEEDED", "ALL_PROVIDERS_FAILED"}
Source == {"primary", "fallback", "aggregate", "none"}
NoResult == [code |-> "none", winner |-> 0, source |-> "none"]
Cancelled == [NoResult EXCEPT !.code = "cancelled"]
Failed(code) == [NoResult EXCEPT !.code = code]

\* route_error: the last error decides, except that "unsupported" must be unanimous.
ErrorCode(r) ==
  IF Errors(r) = {} THEN "UNSUPPORTED_CAPABILITY"
  ELSE LET a == KindOf(row[r][Last(Errors(r))]) IN
       CASE a = "invalid" -> "INVALID_INPUT"
         [] a = "not_found" -> "NOT_FOUND"
         [] a = "rate_limited" -> "RATE_LIMITED"
         [] a = "quota_exhausted" -> "QUOTA_EXCEEDED"
         [] a = "unsupported" /\ Rows(r, ErrorKind) = Rows(r, {"unsupported"}) ->
              "UNSUPPORTED_CAPABILITY"
         [] OTHER -> "ALL_PROVIDERS_FAILED"

\* provenance: Primary iff the winner heads the configured order, unless several answers
\* were combined.
SourceOf(r, winner) ==
  IF \/ mode[r] \in {"aggregate", "fan_out"}
     \/ mode[r] = "quorum" /\ Cardinality(Oks(r)) > 1
  THEN "aggregate"
  ELSE IF At(r, winner) = At(r, 1) THEN "primary" ELSE "fallback"

Disagree(r) == \E i, j \in Oks(r) : row[r][i] # row[r][j]

Result(r) ==
  IF mode[r] = "peek" THEN NoResult
  ELSE IF Oks(r) = {} THEN Failed(ErrorCode(r))
  ELSE IF mode[r] = "quorum" /\ Disagree(r) THEN Failed("CONFLICT")
  ELSE [code |-> "ok", winner |-> First(Oks(r)), source |-> SourceOf(r, First(Oks(r)))]

-----------------------------------------------------------------------------
(***************************************************************************)
(* History of one vendor, for the properties: `streak` counts the breaker   *)
(* failures recorded since the vendor last answered otherwise (up to        *)
(* Threshold), `quiet` the time since the last of them (up to Cooldown),    *)
(* `promised` the time left until the resets_at of a recorded               *)
(* QuotaExhausted.                                                          *)
(***************************************************************************)
NothingSeen == [streak |-> 0, quiet |-> 0, promised |-> 0]

Observe(h, a, after) ==
  IF a \in BreakerFailure
  THEN [h EXCEPT !.streak = IF @ < Threshold THEN @ + 1 ELSE @, !.quiet = 0]
  ELSE [h EXCEPT !.streak = 0,
                 !.promised = IF a = "quota_exhausted" THEN MarkLength(a, after) ELSE @]

Age(h) == [h EXCEPT !.quiet = IF @ < Cooldown THEN @ + 1 ELSE @,
                    !.promised = Countdown(@)]

-----------------------------------------------------------------------------
Init ==
  /\ table \in Table
  /\ vendor = [v \in Vendor |-> Fresh]
  /\ used = [v \in Vendor |-> 0]
  /\ pc = [r \in Request |-> "done"]
  /\ mode \in [Request -> Mode]
  /\ snap = [r \in Request |-> table]
  /\ pos = [r \in Request |-> 1]
  /\ row = [r \in Request |-> [i \in Slot |-> "none"]]
  /\ tries = [r \in Request |-> [i \in Slot |-> 0]]
  /\ res = [r \in Request |-> NoResult]
  /\ seen = [v \in Vendor |-> NothingSeen]

\* A caller routes a request: it takes the table once, then filters its order.
Start(r, m) ==
  /\ pc[r] = "done"
  /\ mode' = [mode EXCEPT ![r] = m]
  /\ snap' = [snap EXCEPT ![r] = table]
  /\ pc' = [pc EXCEPT ![r] = IF Len(Order[table]) = 0 THEN "running" ELSE "quota"]
  /\ pos' = [pos EXCEPT ![r] = 1]
  /\ row' = [row EXCEPT ![r] = [i \in Slot |-> "none"]]
  /\ tries' = [tries EXCEPT ![r] = [i \in Slot |-> 0]]
  /\ res' = [res EXCEPT ![r] = NoResult]
  /\ UNCHANGED <<table, state>>

\* The vendor at pos[r] is filtered: its row is `what`, and the next position is due.
Filtered(r, what) ==
  /\ row' = [row EXCEPT ![r][pos[r]] = what]
  /\ IF pos[r] < Len(Order[snap[r]])
     THEN /\ pos' = [pos EXCEPT ![r] = @ + 1]
          /\ pc' = [pc EXCEPT ![r] = "quota"]
     ELSE /\ pos' = [pos EXCEPT ![r] = 1]
          /\ pc' = [pc EXCEPT ![r] = "running"]
  /\ UNCHANGED <<table, used, mode, snap, tries, res, seen>>

\* Mutant: the vendor is blocked one request after the limit.
MutantOverByOne(r, v) == Capped(snap[r], v) /\ used[v] > Limit[snap[r]][v]

OverReserve(r, v) == Capped(snap[r], v) /\ used[v] >= Limit[snap[r]][v]

\* candidates(), first half: status, port and quota_block.
CheckQuota(r) ==
  /\ pc[r] = "quota"
  /\ LET v == At(r, pos[r]) IN
       \/ /\ v \notin Usable[snap[r]]
          /\ Filtered(r, "unusable")
          /\ UNCHANGED vendor
       \/ /\ v \in Usable[snap[r]] /\ vendor[v].mark > 0
          /\ Filtered(r, "marked_exhausted")
          /\ UNCHANGED vendor
       \/ /\ v \in Usable[snap[r]] /\ vendor[v].mark = 0 /\ OverReserve(r, v)
          /\ Filtered(r, "quota_reserve")
          /\ UNCHANGED vendor
       \/ /\ v \in Usable[snap[r]] /\ vendor[v].mark = 0 /\ ~OverReserve(r, v)
          /\ pc' = [pc EXCEPT ![r] = "breaker"]
          /\ UNCHANGED <<table, state, mode, snap, pos, row, tries, res>>

\* candidates(), second half: breaker_allows, which takes the probe of an open breaker.
CheckBreaker(r) ==
  /\ pc[r] = "breaker"
  /\ LET v == At(r, pos[r]) IN
       IF Admits(vendor[v])
       THEN /\ vendor' = [vendor EXCEPT ![v] = Admitted(@)]
            /\ Filtered(r, "listed")
       ELSE /\ Filtered(r, "breaker_open")
            /\ UNCHANGED vendor

\* No attempt in flight: the strategy asks the next candidate(s) or returns.
Advance(r) ==
  /\ pc[r] = "running"
  /\ Rows(r, InFlightRow) = {}
  /\ LET asked == NextAsked(r) IN
       IF asked # {}
       THEN /\ row' = [row EXCEPT ![r] =
                 [i \in Slot |-> IF i \in asked THEN "acquire" ELSE @[i]]]
            /\ UNCHANGED <<pc, res>>
       ELSE /\ pc' = [pc EXCEPT ![r] = "done"]
            /\ res' = [res EXCEPT ![r] = Result(r)]
            /\ UNCHANGED row
  /\ UNCHANGED <<table, state, mode, snap, pos, tries>>

\* The port is called; its vendor request is metered before it is sent.  A composite vendor
\* sends nothing itself: the requests it causes are routed and metered as requests of others.
SendCall(r, i) ==
  /\ row' = [row EXCEPT ![r][i] = "call"]
  /\ used' = IF At(r, i) \in Composite THEN used
             ELSE [used EXCEPT ![At(r, i)] = IF @ < UsedBound THEN @ + 1 ELSE @]
  /\ UNCHANGED <<table, vendor, pc, mode, snap, pos, tries, res, seen>>

\* attempt(): a local rate-limit token, or the vendor is skipped for now.
Acquire(r, i) == pc[r] = "running" /\ row[r][i] = "acquire" /\ SendCall(r, i)
Refuse(r, i) ==
  /\ pc[r] = "running" /\ row[r][i] = "acquire"
  /\ At(r, i) \in Throttled
  /\ row' = [row EXCEPT ![r][i] = "local"]
  /\ UNCHANGED <<table, state, pc, mode, snap, pos, tries, res>>

\* attempt(): a transient error is retried after a jittered pause.
Retry(r, i) == pc[r] = "running" /\ row[r][i] = "backoff" /\ SendCall(r, i)

\* Rate-limit headers of the vendor's response arrive before its answer is judged.
Headers(r, i, after) ==
  /\ pc[r] = "running" /\ row[r][i] = "call"
  /\ At(r, i) \notin Composite
  /\ vendor' = [vendor EXCEPT ![At(r, i)] = RecordRateLimit(@, after)]
  /\ UNCHANGED <<table, used, request, seen>>

\* Mutant: the retries are compared with the limit and never counted.
MutantEndlessRetry(r, i, a, after) ==
  /\ pc[r] = "running" /\ row[r][i] = "call"
  /\ vendor' = [vendor EXCEPT ![At(r, i)] = Record(@, At(r, i) \in Composite, a, after)]
  /\ seen' = [seen EXCEPT ![At(r, i)] = Observe(@, a, after)]
  /\ row' = [row EXCEPT ![r][i] =
       IF a \in RetryableKind /\ tries[r][i] < Retries THEN "backoff" ELSE a]
  /\ UNCHANGED <<table, used, pc, mode, snap, pos, tries, res>>

\* The answer `a` of the call (a timeout is "transient"): recorded, then retried or final.
Answer(r, i, a, after) ==
  /\ pc[r] = "running" /\ row[r][i] = "call"
  /\ LET v == At(r, i) IN
       /\ vendor' = [vendor EXCEPT ![v] = Record(@, v \in Composite, a, after)]
       /\ seen' = [seen EXCEPT ![v] = Observe(@, a, after)]
  /\ IF a \in RetryableKind /\ tries[r][i] < Retries
     THEN /\ row' = [row EXCEPT ![r][i] = "backoff"]
          /\ tries' = [tries EXCEPT ![r][i] = @ + 1]
     ELSE /\ row' = [row EXCEPT ![r][i] = a]
          /\ UNCHANGED tries
  /\ UNCHANGED <<table, used, pc, mode, snap, pos, res>>

\* The caller goes away: the future is dropped at an await, and nothing is recorded.
Cancel(r) ==
  /\ MayCancel
  /\ pc[r] = "running" /\ Rows(r, InFlightRow) # {}
  /\ pc' = [pc EXCEPT ![r] = "done"]
  /\ row' = [row EXCEPT ![r] = [i \in Slot |-> "none"]]
  /\ tries' = [tries EXCEPT ![r] = [i \in Slot |-> 0]]
  /\ res' = [res EXCEPT ![r] = Cancelled]
  /\ UNCHANGED <<table, state, mode, snap, pos>>

\* Router::swap: a reload installs another table; the vendor state survives.
Swap(t) ==
  /\ t # table
  /\ table' = t
  /\ UNCHANGED <<state, request>>

\* Time passes.
Tick ==
  /\ vendor' = [v \in Vendor |-> Elapse(vendor[v])]
  /\ seen' = [v \in Vendor |-> Age(seen[v])]
  /\ UNCHANGED <<table, used, request>>

\* A new day or month: the counters of its window are all zero.
NewWindow ==
  /\ used' = [v \in Vendor |-> 0]
  /\ UNCHANGED <<table, vendor, seen, request>>

-----------------------------------------------------------------------------
\* A delay comes only with the answers that carry one.
Answers == {<<a, NoDelay>> : a \in Key \cup AnswerKind}
           \cup (AnswerKind \cap MarkingKind) \X Delay

Attempt(r, i) ==
  \/ Acquire(r, i)
  \/ Refuse(r, i)
  \/ Retry(r, i)
  \/ \E d \in Delay \cup {NoDelay} : Headers(r, i, d)
  \/ \E x \in Answers : Answer(r, i, x[1], x[2])

Next ==
  \/ \E r \in Request :
       \/ \E m \in Mode : Start(r, m)
       \/ CheckQuota(r)
       \/ CheckBreaker(r)
       \/ Advance(r)
       \/ \E i \in Slot : Attempt(r, i)
       \/ Cancel(r)
  \/ \E t \in Table : Swap(t)
  \/ Tick
  \/ NewWindow

Spec == Init /\ [][Next]_vars

(***************************************************************************)
(* Fairness.  A request that can take a step of its own takes it (the async *)
(* runtime polls ready tasks); a call is answered, since attempt() wraps it *)
(* in a timeout; a wait for a token or a retry pause is bounded; the clock  *)
(* runs.  Nothing is assumed of callers, of reloads or of what vendors say. *)
(***************************************************************************)
Answered(r, i) == \E x \in Answers : Answer(r, i, x[1], x[2])
Fairness ==
  /\ \A r \in Request :
       /\ WF_vars(CheckQuota(r)) /\ WF_vars(CheckBreaker(r)) /\ WF_vars(Advance(r))
       /\ \A i \in Slot :
            /\ WF_vars(Acquire(r, i) \/ Refuse(r, i))
            /\ WF_vars(Retry(r, i))
            /\ WF_vars(Answered(r, i))
  /\ WF_vars(Tick)
FairSpec == Spec /\ Fairness
-----------------------------------------------------------------------------
(***************************************************************************)
(* Properties.                                                              *)
(***************************************************************************)
SeenRecord == [streak : 0..Threshold, quiet : 0..Cooldown, promised : Nat]
Outcome == [code : Code \cup {"none", "cancelled"}, winner : {0} \cup Slot, source : Source]

TypeOK ==
  /\ table \in Table
  /\ vendor \in [Vendor -> State]
  /\ used \in [Vendor -> 0..UsedBound]
  /\ pc \in [Request -> {"done", "quota", "breaker", "running"}]
  /\ mode \in [Request -> Mode]
  /\ snap \in [Request -> Table]
  /\ pos \in [Request -> Nat]
  /\ row \in [Request -> [Slot -> Row]]
  /\ tries \in [Request -> [Slot -> 0..Retries]]
  /\ res \in [Request -> Outcome]
  /\ seen \in [Vendor -> SeenRecord]

(* The breaker blocks a vendor exactly when its last Threshold recorded answers were all
   breaker failures, whatever order concurrent requests recorded them in: an answer that
   is not its fault (not found, invalid, rate limited) ends the streak, a late failure of
   a request admitted earlier counts like any other (RuntimeState::record). *)
BreakerCountsFailures ==
  \A v \in Vendor \ Composite :
    IF vendor[v].breaker = "closed"
    THEN vendor[v].fails = seen[v].streak /\ seen[v].streak < Threshold
    ELSE seen[v].streak = Threshold

(* The "rpc" pseudo-vendor is never blocked: one rate-limited chain must not disable every
   rpc-backed capability (COMPOSITE_VENDOR's comment in state.rs). *)
CompositeNeverBlocked ==
  \A v \in Composite : vendor[v].mark = 0 /\ vendor[v].breaker = "closed"

(* A vendor is probed only after a full cooldown in which it recorded no failure: a late
   failure of an older request postpones the probe (the `_ => Open` arm of record). *)
FullCooldownBeforeProbe ==
  [][\A v \in Vendor :
       vendor[v].breaker = "open" /\ vendor'[v].breaker = "half_open"
         => seen[v].quiet = Cooldown]_vars

(* quota_block reads the counter, the requests are metered later: concurrent requests may
   overshoot the reserve, but by no more than the calls of the requests that can be in
   flight at once. *)
OvershootBounded ==
  \A v \in Vendor : \A t \in Table :
    Capped(t, v) =>
      used[v] <= Limit[t][v] - 1 + Cardinality(Request) * (Retries + 1)

(* What failover promises its caller.  A success is the only answer, and every vendor
   before it in the configured order was skipped or failed in a way that allows failover;
   an error means nobody answered, and either the last vendor asked was definite or no
   usable vendor is left unasked. *)
Failover(r) == mode[r] \in {"failover", "confirm"}
PassedOver(r) == SkipReason \cup {"local"} \cup FailoverKind
                 \cup (IF mode[r] = "confirm" THEN {"not_found"} ELSE {})

FailoverHonest ==
  \A r \in Request : pc[r] = "done" /\ Failover(r) =>
    /\ res[r].code = "ok" =>
         /\ Oks(r) = {res[r].winner}
         /\ \A i \in Slot : i < res[r].winner => row[r][i] \in PassedOver(r)
         /\ \A i \in Slot : i > res[r].winner => row[r][i] \in SkipReason \cup {"listed", "none"}
    /\ res[r].code \in Code \ {"ok"} =>
         /\ Oks(r) = {}
         /\ Rows(r, {"listed"}) # {} =>
              row[r][Last(Rows(r, Final))] \in {"not_found", "invalid", "fatal"}

(* quorum and aggregate stop asking when they have the answers they wanted, never collect
   more, and settle for fewer only when nobody is left to ask (collect_n). *)
CollectsWhatItWants ==
  \A r \in Request : mode[r] \in {"quorum", "aggregate"} =>
    /\ Cardinality(Oks(r)) <= Wanted
    /\ pc[r] = "done" /\ Cardinality(Oks(r)) < Wanted => Rows(r, {"listed"}) = {}

(* Every request returns: no strategy waits for a vendor for ever. *)
RequestsReturn == \A r \in Request : pc[r] # "done" ~> pc[r] = "done"

(* A probe that was sent reports back, however the other requests, the local rate limiter
   and reloads run beside it: once a call is on its way to a half-open vendor, its answer or
   its timeout moves the breaker on, unless the caller drops the request that made it
   (attempt, RuntimeState::record). *)
SentProbeReports ==
  \A v \in Vendor, r \in Request, i \in Slot :
    (vendor[v].breaker = "half_open" /\ row[r][i] = "call" /\ At(r, i) = v)
      ~> (vendor[v].breaker # "half_open" \/ res[r] = Cancelled)

(* "An open breaker past cooldown admits one probe" (state.rs, breaker_allows): the probe
   that was admitted reports back, so the vendor is either closed again or open.  The code
   does not keep this: see the run probe. *)
ProbeSettles ==
  \A v \in Vendor : vendor[v].breaker = "half_open" ~> vendor[v].breaker # "half_open"

(* "QuotaExhausted: vendor marked exhausted until resets_at" (ports/src/error.rs): while
   that time has not come, the vendor is marked. *)
MarkedUntilReset == \A v \in Vendor \ Composite : seen[v].promised <= vendor[v].mark

(* "A NOT_FOUND error means two providers could not see the tx" (payments_verify_transfer):
   a request that wants it confirmed returns NOT_FOUND only if two vendors said so. *)
NotFoundByTwo ==
  \A r \in Request :
    pc[r] = "done" /\ mode[r] \in {"confirm", "quorum"} /\ res[r].code = "NOT_FOUND" =>
      \E i, j \in Rows(r, {"not_found"}) : At(r, i) # At(r, j)
=============================================================================
