-------------------------------- MODULE Trade --------------------------------
(***************************************************************************)
(* Swaps (ops/trade.rs): quotes of several vendors, vetted and ranked, and  *)
(* the transaction built from the best one with the approvals it needs.     *)
(*                                                                         *)
(* world.vendors are the quoters in their order (Market has what aggregate  *)
(* makes of them), each with the error it reports or its quote              *)
(* [buy, min, live, tx, approvals]: bought, guaranteed, unexpired, with a   *)
(* transaction, and the allowances the taker is to give, in order.          *)
(* world.allowance is what the taker has given to each spender.             *)
(***************************************************************************)
EXTENDS Market

CONSTANTS
  QuoteSources, \* trade_get_swap_quote's fan_out
  BuildSources, \* trade_build_swap_tx's
  MaxSlippage,  \* MAX_SLIPPAGE_BPS
  WideSpread,   \* WIDE_SPREAD_BPS
  TradeCases    \* the calls

TradeOp == {"trade_get_swap_quote", "trade_build_swap_tx"}
Approval == [spender : STRING, amount : Nat]
Quote == [kind : {"quote"}, buy : Nat, min : Nat, live : BOOLEAN, tx : BOOLEAN, approvals : Seq(Approval)]

ASSUME TradeAssumption ==
  /\ BuildSources \in Nat
  /\ \A c \in TradeCases :
       /\ c.request.op \in TradeOp
       /\ c.request.slippage \in Nat
       /\ c.request.op = "trade_build_swap_tx" => c.request.floor \in Nat
       /\ {"vendors", "allowance", "readable"} \subseteq DOMAIN c.world
       /\ c.world.vendors \in Seq(Quote \cup Failure)
       /\ c.world.readable \in BOOLEAN
       /\ \A s \in DOMAIN c.world.allowance : c.world.allowance[s] \in Nat

-----------------------------------------------------------------------------
MinOut(buy, slippage) == (buy * (Whole - slippage)) \div Whole

\* A quote worth having; one point of tolerance for the vendors' rounding.
\* Mutant: the guarantee is taken as the vendor states it.
MutantTrustsVendor(q, needTx) == q.live /\ q.buy > 0 /\ q.min <= q.buy /\ (needTx => q.tx)
Valid(q, needTx) ==
  /\ q.live
  /\ q.buy > 0
  /\ q.min <= q.buy
  /\ q.min >= MinOut(q.buy, Min({request.slippage + 1, Whole}))
  /\ needTx => q.tx

\* The order of vet_quotes; its sort is stable.
Outranks(quotes, i, j) ==
  LET a == quotes[i]
      b == quotes[j]
  IN \/ a.buy > b.buy
     \/ a.buy = b.buy /\ a.min > b.min
     \/ a.buy = b.buy /\ a.min = b.min /\ i < j

\* vet_quotes: the valid ones, best first.
Ranked(quotes, needTx) ==
  LET valid == {i \in Oks(quotes) : Valid(quotes[i], needTx)}
      Place(i) == Cardinality({j \in valid : Outranks(quotes, j, i)}) + 1
  IN [k \in 1..Cardinality(valid) |-> quotes[CHOOSE i \in valid : Place(i) = k]]

SpreadOf(quotes) == ((quotes[1].buy - quotes[Len(quotes)].buy) * Whole) \div quotes[1].buy

\* prepare: what is refused before anybody is asked.
SwapRefusal(needTaker) ==
  IF \/ request.pair # "two assets of one chain"
     \/ request.sell = 0 \/ request.slippage > MaxSlippage
     \/ needTaker /\ ~request.taker
  THEN "InvalidInput"
  ELSE IF request.decimals \/ Oks(AskedOf(world.metadata, 1)) # {} THEN "none"
  ELSE RouteError(AskedOf(world.metadata, 1))

\* The valid quotes of those asked, and why there are none to speak of.
QuotesOf(sources, needTx) == Ranked(AskedOf(world.vendors, sources), needTx)
NoQuote(sources, needTx) ==
  IF SwapRefusal(needTx) # "none" THEN SwapRefusal(needTx)
  ELSE IF Oks(AskedOf(world.vendors, sources)) = {} THEN RouteError(AskedOf(world.vendors, sources))
  ELSE IF QuotesOf(sources, needTx) = <<>> THEN "AllProvidersFailed" ELSE "none"

GetSwapQuote ==
  LET quotes == QuotesOf(QuoteSources, FALSE)
      error == NoQuote(QuoteSources, FALSE)
  IN Conclude("trade_get_swap_quote",
       IF error # "none" THEN Refuse(error)
       ELSE Reply([quote |-> quotes[1], quotes |-> quotes, warned |-> SpreadOf(quotes) > WideSpread]))

\* An approval the taker has given already; one whose allowance cannot be read is kept.
Covered(approval) == world.readable /\ world.allowance[approval.spender] >= approval.amount

\* The approvals of the answer are positions in the vendor's list.
TxOfBest(quotes) ==
  LET best == quotes[1] IN
  IF best.min < request.floor THEN Refuse("StaleData")
  ELSE Reply([quote |-> best,
              approvals |-> {i \in DOMAIN best.approvals : ~Covered(best.approvals[i])},
              warned |-> SpreadOf(quotes) > WideSpread])

BuildSwapTx ==
  LET error == NoQuote(BuildSources, TRUE) IN
  Conclude("trade_build_swap_tx",
    IF error # "none" THEN Refuse(error) ELSE TxOfBest(QuotesOf(BuildSources, TRUE)))

TradeNext == GetSwapQuote \/ BuildSwapTx

-----------------------------------------------------------------------------
(***************************************************************************)
(* Properties.                                                              *)
(***************************************************************************)
\* What a spender may take once those at some positions have been sent in their order.
AllowedAfter(approvals, sent, spender) ==
  LET own == {i \in sent : approvals[i].spender = spender} IN
  IF own = {} THEN world.allowance[spender] ELSE approvals[Max(own)].amount

(* "The tx enforces min_buy_amount; sign before expires_at" (trade_build_swap_tx): whoever
   signs the approvals and the transaction of an answer gets at least the floor asked for
   and at least what the slippage allows (less one point), before the quote expires; no
   valid quote of those asked buys more; and the approvals that were left out are not
   missed: every spender may take as much as after all of the vendor's own. *)
FloorKept(out) ==
  LET q == out.quote
      all == q.approvals
      others == {o \in ToSet(AskedOf(world.vendors, BuildSources)) : IsOk(o)}
  IN /\ q.live /\ q.tx
     /\ q.min >= request.floor
     /\ (q.min + 1) * Whole > q.buy * (Whole - request.slippage - 1)
     /\ \A o \in others : (o.live /\ o.tx /\ o.min = o.buy) => o.buy <= q.buy
     /\ \A s \in DOMAIN world.allowance :
          AllowedAfter(all, out.approvals, s) >= AllowedAfter(all, DOMAIN all, s)
SwapKeepsItsFloor == Replied("trade_build_swap_tx") => FloorKept(answer.out)
=============================================================================
