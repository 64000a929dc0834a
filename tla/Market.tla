------------------------------- MODULE Market -------------------------------
(***************************************************************************)
(* The operations that put several vendors' answers together: prices and    *)
(* pegs, token metadata, token risk (ops/market.rs, the last part of        *)
(* ops/stablecoin.rs, domain/src/market.rs).                                *)
(*                                                                         *)
(* world.vendors are the candidates in their order, each with what it will  *)
(* answer: a value, or the error the router reports after its retries.      *)
(* Routing has the attempts themselves.  A price is [value, age, quote];    *)
(* medians are doubled, so that they stay integers.                         *)
(***************************************************************************)
EXTENDS StockPrice, SequencesExt, FiniteSetsExt

CONSTANTS
  PriceSources, \* market_get_price's fan_out
  Whole,        \* basis points in one
  MarketCases   \* the calls

Priced == {"market_get_price", "market_get_price_at", "stablecoin_peg"}
MarketOp == Priced \cup {"token_get_metadata", "token_check_risk"}

\* What the vendors of a price have to say.
Failure == [kind : {"error"}, error : ProviderError]
Price == [kind : {"price"}, value : Nat, age : Nat, quote : STRING]

ASSUME MarketAssumption ==
  /\ PriceSources \in Nat /\ Whole \in Nat \ {0}
  /\ \A c \in MarketCases :
       /\ c.request.op \in MarketOp
       /\ c.request.op \in Priced =>
            c.request.maxAge \in Nat /\ c.world.vendors \in Seq(Price \cup Failure)
       /\ c.request.op = "stablecoin_peg" => c.world.oracle \in Seq(Price \cup Failure)

-----------------------------------------------------------------------------
(***************************************************************************)
(* aggregate: the first n candidates at once, then one at a time until n    *)
(* have answered.                                                           *)
(***************************************************************************)
IsOk(v) == v.kind # "error"

\* The positions of those who answer.
Oks(vendors) == {i \in DOMAIN vendors : IsOk(vendors[i])}

AskedOf(vendors, n) ==
  LET enough == {p \in 0..Len(vendors) : Cardinality(Oks(vendors) \cap 1..p) >= n}
  IN SubSeq(vendors, 1, IF enough = {} THEN Len(vendors) ELSE Min(enough))

FirstOk(asked) == asked[Min(Oks(asked))]

\* route_error, when nobody has answered: the last error decides.
RouteError(asked) ==
  IF asked = <<>> THEN "UnsupportedCapability"
  ELSE LET last == asked[Len(asked)].error IN
       IF last = "Unsupported" /\ \E i \in DOMAIN asked : asked[i].error # "Unsupported"
       THEN "AllProvidersFailed" ELSE CodeOf(last)

\* Nobody knows, as opposed to nobody could answer.
OnlyUnknown(asked) ==
  \/ RouteError(asked) = "NotFound"
  \/ asked # <<>> /\ \A i \in DOMAIN asked : asked[i].error \in {"NotFound", "Unsupported"}

-----------------------------------------------------------------------------
(***************************************************************************)
(* Prices.                                                                  *)
(***************************************************************************)
\* The k-th smallest of the values at some positions.
Kth(prices, at, k) ==
  CHOOSE v \in {prices[i].value : i \in at} :
    /\ Cardinality({i \in at : prices[i].value < v}) < k
    /\ Cardinality({i \in at : prices[i].value <= v}) >= k

\* Twice the median: the middle one twice, or the two in the middle.
Doubled(prices, at) ==
  LET n == Cardinality(at) IN Kth(prices, at, (n + 1) \div 2) + Kth(prices, at, n \div 2 + 1)

\* (highest - lowest) / median in basis points, ties to the even number.
Spread(prices, at) ==
  LET values == {prices[i].value : i \in at}
      m == Doubled(prices, at)
      n == (Max(values) - Min(values)) * 2 * Whole
      q == n \div m
  IN IF 2 * (n % m) > m \/ (2 * (n % m) = m /\ q % 2 = 1) THEN q + 1 ELSE q

NoMedian(status) == [status |-> status, median |-> {}, sources |-> {}]

Usable(p, quote) == p.value > 0 /\ p.quote = quote

AggregatePrices(prices, maxSpread, maxAge) ==
  LET usable == {i \in Oks(prices) : Usable(prices[i], request.quote)}
      fresh == {i \in usable : prices[i].age <= maxAge}
      counted == IF fresh = {} THEN usable ELSE fresh
  IN IF usable = {} THEN NoMedian("unknown")
     ELSE [status |-> IF fresh = {} THEN "stale"
                      ELSE IF Cardinality(fresh) >= 2 /\ Spread(prices, fresh) > maxSpread
                           THEN "divergent" ELSE "ok",
           median |-> {Doubled(prices, counted)}, sources |-> {prices[i] : i \in usable}]

MarketGetPrice ==
  LET asked == AskedOf(world.vendors, PriceSources) IN
  Conclude("market_get_price",
    IF Oks(asked) # {} THEN Reply(AggregatePrices(asked, request.maxSpread, request.maxAge))
    ELSE IF OnlyUnknown(asked) THEN Reply(NoMedian("unknown")) ELSE Refuse(RouteError(asked)))

\* The first source that has one; the age stands for the gap to the moment asked for.
MarketGetPriceAt ==
  LET asked == AskedOf(world.vendors, 1)
      price == FirstOk(asked)
  IN Conclude("market_get_price_at",
       IF request.future THEN Refuse("InvalidInput")
       ELSE IF Oks(asked) # {}
       THEN Reply([status |-> IF price.age > request.maxAge THEN "stale" ELSE "ok",
                   median |-> {2 * price.value}, sources |-> {price}])
       ELSE IF OnlyUnknown(asked) THEN Reply(NoMedian("unknown")) ELSE Refuse(RouteError(asked)))

\* stablecoin_peg: three vendors and the oracle of the registry's entry, whatever their
\* age; one is Whole.  What failed is only a note.
Distance(a, b) == IF a < b THEN b - a ELSE a - b
PegVerdict(prices) ==
  LET given == Oks(prices)
      m == Doubled(prices, given)
  IN IF given = {} THEN [status |-> "unknown", median |-> {}, sources |-> {}, depeg |-> {}]
     ELSE [status |-> IF m # 0 /\ Spread(prices, given) > request.maxSpread THEN "divergent" ELSE "ok",
           median |-> {m}, sources |-> {prices[i] : i \in given},
           depeg |-> {Distance(m, 2 * Whole) > 2 * request.maxDeviation}]

StablecoinPeg ==
  Conclude("stablecoin_peg",
    IF request.token = "unknown" THEN Refuse("InvalidInput")
    ELSE Reply(PegVerdict(AskedOf(world.vendors, 3) \o world.oracle)))

-----------------------------------------------------------------------------
(***************************************************************************)
(* Metadata and risk.                                                       *)
(***************************************************************************)
\* Decimals are the first source's; the others are only compared with it.
TokenGetMetadata ==
  LET asked == AskedOf(world.vendors, 2)
      decimals == FirstOk(asked).decimals
  IN Conclude("token_get_metadata",
       IF request.asset = "native" THEN Reply([decimals |-> world.native, conflicts |-> {}])
       ELSE IF Oks(asked) = {} THEN Refuse(RouteError(asked))
       ELSE Reply([decimals |-> decimals,
                   conflicts |-> {i \in Oks(asked) : asked[i].decimals # decimals}]))

Severity == [info |-> 0, low |-> 1, medium |-> 2, high |-> 3, critical |-> 4]
Level(flags, answered) ==
  IF ~answered THEN "unknown"
  ELSE LET worst == Max({Severity[f] : f \in flags} \cup {0})
       IN CASE worst <= 1 -> "low" [] worst = 2 -> "medium" [] worst = 3 -> "high" [] worst = 4 -> "critical"

\* Mint authorities and extensions, or proxy slots, as flags of the chain.
ChainFlags(facts) ==
  UNION {CASE f \in {"mint authority", "freeze authority", "transfer hook"} -> {"medium"}
           [] f \in {"permanent delegate", "non-transferable", "default frozen"} -> {"high"}
           [] f \in {"proxy", "proxy admin", "transfer fee"} -> {"low"}
           [] f = "confidential" -> {"info"} : f \in facts}

\* Every vendor is asked, and the chain; who fails adds nothing.
TokenCheckRisk ==
  LET flags == (UNION {world.vendors[i].flags : i \in Oks(world.vendors)})
               \cup (IF world.readable THEN ChainFlags(world.facts) ELSE {})
  IN Conclude("token_check_risk",
       IF request.asset = "native" THEN Refuse("InvalidInput")
       ELSE Reply([level |-> Level(flags, Oks(world.vendors) # {} \/ world.readable), flags |-> flags]))

MarketNext ==
  \/ MarketGetPrice \/ MarketGetPriceAt \/ StablecoinPeg
  \/ TokenGetMetadata \/ TokenCheckRisk

-----------------------------------------------------------------------------
(***************************************************************************)
(* Properties.                                                              *)
(***************************************************************************)
Given == {v \in ToSet(world.vendors) : IsOk(v)}

(* "A missing price is reported as unknown with no median, never as 0" (market_get_price),
   and a price is never made of less than it could be: a median lies between two values that
   vendors gave, fresh ones if there are any (and not zero, and in the currency that was asked
   for, in market_get_price); whoever gets "unknown" could have got no price from anyone who
   was asked; and ok or divergent means that some source is fresh. *)
HonestAnswer(out) ==
  LET fits == {v \in out.sources : v.value > 0}
      fresh == {v \in fits : v.age <= request.maxAge}
      counted == IF request.op = "market_get_price" /\ fresh # {} THEN fresh ELSE out.sources
  IN /\ out.status = "unknown" <=> out.median = {}
     /\ out.sources \subseteq Given \cup (IF request.op = "stablecoin_peg" THEN ToSet(world.oracle) ELSE {})
     /\ \A m \in out.median : \E lo, hi \in counted : 2 * lo.value <= m /\ m <= 2 * hi.value
     /\ request.op = "market_get_price" =>
          /\ \A v \in out.sources : v.value > 0 /\ v.quote = request.quote
          /\ out.median # {0}
          /\ out.status \in {"ok", "divergent"} <=> fresh # {}
          /\ out.status = "unknown" =>
               \A v \in ToSet(AskedOf(world.vendors, PriceSources)) :
                 IsOk(v) => v.value = 0 \/ v.quote # request.quote
AggregatesHonest == request.op \in Priced /\ answer.at = "replied" => HonestAnswer(answer.out)

(* No operation presents a price as better than it is: those put together of several
   sources, and those of the oracle of a tokenized stock (rwa_price). *)
PricesHonest == AggregatesHonest /\ StockPriceBySession
=============================================================================
