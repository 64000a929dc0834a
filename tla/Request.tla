------------------------------ MODULE Request -------------------------------
(***************************************************************************)
(* One call of one operation (src/crates/app/src/op.rs): what was asked,    *)
(* the outside world it is about (chains, vendors, lists), and the answer.  *)
(* The modules of the operations extend this one; each has a start (its     *)
(* requests and worlds) and actions that lead from Asked to a reply or a    *)
(* refusal.  `world` is the truth, which an operation only sees through     *)
(* its reads, and which may change between two of them.                     *)
(***************************************************************************)
EXTENDS Integers, FiniteSets, Sequences

VARIABLES
  request,  \* request.op is the operation, the other fields its input
  world,    \* the truth the answer is about
  answer    \* Asked, an operation's own intermediate place, a reply or a refusal

vars == <<request, world, answer>>

ErrorCode ==
  {"InvalidInput", "UnsupportedChain", "UnsupportedCapability", "NotFound",
   "AllProvidersFailed", "RateLimited", "QuotaExceeded", "Unauthorized",
   "Unverifiable", "Conflict", "StaleData", "Internal"}

Asked == [at |-> "asked"]
Reply(out) == [at |-> "replied", out |-> out]
Refuse(code) == [at |-> "refused", code |-> code]

\* What the router hands to an operation once a read has failed everywhere.
ProviderError == {"Transient", "RateLimited", "QuotaExhausted", "Unsupported",
                  "NotFound", "Invalid", "Fatal"}
CodeOf(error) ==
  CASE error \in {"Transient", "Fatal"} -> "AllProvidersFailed"
    [] error = "RateLimited" -> "RateLimited"
    [] error = "QuotaExhausted" -> "QuotaExceeded"
    [] error = "Unsupported" -> "UnsupportedCapability"
    [] error = "NotFound" -> "NotFound"
    [] error = "Invalid" -> "InvalidInput"

Replied(op) == request.op = op /\ answer.at = "replied"

\* The calls an instance starts with: pairs of a request and a world.
StartIn(cases) ==
  /\ \E c \in cases : request = c.request /\ world = c.world
  /\ answer = Asked

\* An action of op that ends the call, in a world that stands still.
Conclude(op, a) ==
  /\ request.op = op /\ answer = Asked
  /\ answer' = a
  /\ UNCHANGED <<request, world>>
=============================================================================
