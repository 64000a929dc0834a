---------------------------- MODULE VendorState ----------------------------
(***************************************************************************)
(* What the router remembers about one vendor between requests: its circuit *)
(* breaker and the mark that says until when it is out of quota             *)
(* (src/crates/routing/src/state.rs, VendorState and RuntimeState).         *)
(*                                                                         *)
(* The code stores deadlines (`until`, `exhausted_until`) and compares them *)
(* with the clock.  Here a deadline is the time that is left to it, `cool`  *)
(* and `mark`, which Elapse counts down: "now >= until" is cool = 0 and     *)
(* "exhausted_until > now" is mark > 0.  Nothing reads the clock otherwise, *)
(* so no behaviour is lost and the state space needs no last instant.       *)
(***************************************************************************)
EXTENDS Integers

CONSTANTS
  Threshold,   \* RouterOptions.breaker_threshold, at least 1 (RuntimeState::new)
  Cooldown,    \* RouterOptions.breaker_cooldown
  RateMark,    \* mark of a RateLimited without retry_after (10 s)
  QuotaMark,   \* mark of a QuotaExhausted without resets_at (1 h)
  HeaderMark,  \* mark of a spent rate-limit header without a delay (60 s)
  Delay        \* the delays a vendor may announce (Retry-After, reset, resets_at)

ASSUME ThresholdAssumption == Threshold \in Nat \ {0}
ASSUME DelayAssumption ==
  /\ Cooldown \in Nat /\ RateMark \in Nat /\ QuotaMark \in Nat /\ HeaderMark \in Nat
  /\ Delay \subseteq Nat

(***************************************************************************)
(* The variants of ProviderError (src/crates/ports/src/error.rs) and what   *)
(* each allows.                                                             *)
(***************************************************************************)
ErrorKind == {"transient", "rate_limited", "quota_exhausted", "unsupported",
              "not_found", "invalid", "fatal"}

\* ProviderError::allows_failover and ProviderError::is_retryable.
FailoverKind == {"transient", "rate_limited", "quota_exhausted", "unsupported"}
RetryableKind == {"transient"}

\* The errors RuntimeState::record counts against the breaker, and those that mark.
BreakerFailure == {"transient", "fatal", "unsupported"}
MarkingKind == {"rate_limited", "quota_exhausted"}

NoDelay == -1   \* retry_after / resets_at is None

-----------------------------------------------------------------------------
(***************************************************************************)
(* A HalfOpen breaker always has its probe out: the code writes only        *)
(* HalfOpen{probing: true}, so "half_open" stands for that value.           *)
(***************************************************************************)
State == [breaker : {"closed", "open", "half_open"}, fails : 0..(Threshold - 1),
          cool : Nat, mark : Nat]

Fresh == [breaker |-> "closed", fails |-> 0, cool |-> 0, mark |-> 0]

\* breaker_allows: the answer, and the state a granted request leaves behind.
Admits(s) == s.breaker = "closed" \/ (s.breaker = "open" /\ s.cool = 0)
Admitted(s) ==
  IF s.breaker = "open" THEN [s EXCEPT !.breaker = "half_open"] ELSE s

\* Mutants: the failure that reaches the threshold does not open; an open breaker is not
\* re-armed by a late failure.
MutantOneMoreFailure(s) ==
  IF s.breaker = "closed" /\ s.fails < Threshold
  THEN [s EXCEPT !.fails = @ + 1]
  ELSE [s EXCEPT !.breaker = "open", !.fails = 0, !.cool = Cooldown]
MutantNoRearm(s) ==
  IF s.breaker = "open" THEN s
  ELSE IF s.breaker = "closed" /\ s.fails + 1 < Threshold
  THEN [s EXCEPT !.fails = @ + 1]
  ELSE [s EXCEPT !.breaker = "open", !.fails = 0, !.cool = Cooldown]

\* One more breaker failure: below the threshold a closed breaker counts, anything else
\* opens for a (new) full cooldown.
CountFailure(s) ==
  IF s.breaker = "closed" /\ s.fails + 1 < Threshold
  THEN [s EXCEPT !.fails = @ + 1]
  ELSE [s EXCEPT !.breaker = "open", !.fails = 0, !.cool = Cooldown]

CloseBreaker(s) == [s EXCEPT !.breaker = "closed", !.fails = 0, !.cool = 0]

SetMark(s, d) == [s EXCEPT !.mark = d]

\* How long a rate-limit or quota error keeps the vendor out.
MarkLength(kind, after) ==
  IF after # NoDelay THEN after
  ELSE IF kind = "rate_limited" THEN RateMark ELSE QuotaMark

\* Mutants: NotFound leaves the breaker alone; "rpc" is treated like a vendor; a marking
\* error leaves the breaker alone.
MutantNotFoundKeepsStreak(s, composite, a, after) ==
  IF a \in BreakerFailure
  THEN IF composite THEN s ELSE CountFailure(s)
  ELSE IF a = "not_found" THEN s
  ELSE CloseBreaker(IF a \in MarkingKind /\ ~composite
                    THEN SetMark(s, MarkLength(a, after)) ELSE s)
MutantCompositeCounts(s, composite, a, after) ==
  IF a \in BreakerFailure THEN CountFailure(s)
  ELSE CloseBreaker(IF a \in MarkingKind /\ ~composite
                    THEN SetMark(s, MarkLength(a, after)) ELSE s)
MutantMarkKeepsBreaker(s, composite, a, after) ==
  IF a \in BreakerFailure
  THEN IF composite THEN s ELSE CountFailure(s)
  ELSE IF a \in MarkingKind /\ ~composite THEN SetMark(s, MarkLength(a, after))
  ELSE CloseBreaker(s)

\* RuntimeState::record for an answer `a` (an error kind, or anything else for Ok).
Record(s, composite, a, after) ==
  IF a \in BreakerFailure
  THEN IF composite THEN s ELSE CountFailure(s)
  ELSE CloseBreaker(IF a \in MarkingKind /\ ~composite
                    THEN SetMark(s, MarkLength(a, after)) ELSE s)

\* RuntimeState::record_rate_limit for a header snapshot that says "spent" or "retry after".
RecordRateLimit(s, after) == SetMark(s, IF after # NoDelay THEN after ELSE HeaderMark)

Countdown(n) == IF n > 0 THEN n - 1 ELSE 0
Elapse(s) == [s EXCEPT !.cool = Countdown(@), !.mark = Countdown(@)]
=============================================================================
