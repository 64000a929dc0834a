----------------------------- MODULE StockPrice ------------------------------
(***************************************************************************)
(* Tokenized stocks (ops/rwa.rs, protocols/src/rwa.rs): what a token is,    *)
(* and its oracle's price, judged by the hours of its market.               *)
(*                                                                         *)
(* world has the feed's round (one record, or none when it cannot be read), *)
(* whether the token says its oracle is paused, the sequencer's uptime      *)
(* feed, and the present moment.                                            *)
(***************************************************************************)
EXTENDS Request, MarketHours

CONSTANT StockCases  \* the calls

StockOp == {"rwa_price", "rwa_token_info"}
ASSUME StockAssumption ==
  \A c \in StockCases :
    /\ c.request.op \in StockOp
    /\ c.request.op = "rwa_price" =>
         /\ c.request.maxAge \in Int /\ c.world.now \in Int
         /\ c.world.round \in Seq([answer : Int, updated : Int])

\* The registry: an asset is on an issuer's list or not, with a feed or without.
Lookup(asset) ==
  CASE asset = "not erc20" -> "InvalidInput"
    [] asset = "unlisted" -> "NotFound"
    [] asset = "without feed" -> "UnsupportedCapability"
    [] asset = "listed" -> "found"

Unpriced == [status |-> "unknown", price |-> {}]

\* assess_price
AssessPrice(round) ==
  IF world.paused = "paused" \/ world.sequencer = "down" \/ round.answer <= 0 \/ round.updated = 0
  THEN Unpriced
  ELSE [status |-> IF IsStale(round.updated, world.now, request.maxAge) THEN "stale" ELSE "ok",
        price |-> {round.answer}]

\* Only the round has to be read; what else cannot be read is a warning.
RwaPrice ==
  Conclude("rwa_price",
    IF Lookup(request.asset) # "found" THEN Refuse(Lookup(request.asset))
    ELSE IF world.round = <<>> THEN Refuse("AllProvidersFailed")
    ELSE Reply(AssessPrice(world.round[1])))

\* A token's multiplier comes with the change that is scheduled, if it is a change.
RwaTokenInfo ==
  LET current == world.multiplier.current
      next == world.multiplier.next
  IN Conclude("rwa_token_info",
       IF request.asset = "not erc20" THEN Refuse("InvalidInput")
       ELSE IF request.asset = "unlisted" THEN Reply([official |-> FALSE, paused |-> {}, pending |-> {}])
       ELSE Reply([official |-> TRUE,
                   paused |-> IF world.paused = "unread" THEN {} ELSE {world.paused},
                   pending |-> {next} \ {current, 0}]))

StockNext == RwaPrice \/ RwaTokenInfo

-----------------------------------------------------------------------------
(***************************************************************************)
(* Properties.                                                              *)
(***************************************************************************)
\* The end of the latest half hour, up to t, in which the market was open.
OpenUntil(t) ==
  IF IsOpen(t) THEN t ELSE Max({u + 1 : u \in {v \in t - 14 * PerDay .. t - 1 : IsOpen(v)}})

(* "Staleness is judged by the US market session" (rwa_price): with the market closed, a
   price ages as of the last half hour it was open, over weekends, holidays, early closes
   and the change of the clocks alike; and a paused oracle or a sequencer known to be down
   means no price, whatever the feed says. *)
StockPriceBySession ==
  Replied("rwa_price") =>
    /\ answer.out.status = "unknown" <=> answer.out.price = {}
    /\ answer.out.price # {} =>
         /\ world.paused # "paused" /\ world.sequencer # "down"
         /\ answer.out.status = "stale"
              <=> OpenUntil(world.now) - world.round[1].updated > request.maxAge
=============================================================================
