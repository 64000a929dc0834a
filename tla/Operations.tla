----------------------------- MODULE Operations -----------------------------
(***************************************************************************)
(* A call of any of the operations.                                         *)
(***************************************************************************)
EXTENDS Payments, TxStatus, Sending, History, Issuer, Neobank, Trade, Tokens, ChainTools

\* A call is of an operation of its own module.
ASSUME OperationsAssumption ==
  \A c \in ToolCases :
    c.request.op \in {"wallet_get_balances", "chain_list", "provider_health", "chain_finality",
                     "tx_estimate_fee", "eth_get_balance", "eth_get_code", "eth_gas_price",
                     "eth_get_transaction_by_hash"}

Init ==
  \/ StartIn(PaymentCases)
  \/ StartIn(StatusCases)
  \/ StartIn(SendCases)
  \/ StartIn(HistoryCases)
  \/ StartIn(IssuerCases)
  \/ StartIn(NeobankCases)
  \/ StartIn(StockCases)
  \/ StartIn(MarketCases)
  \/ StartIn(TradeCases)
  \/ StartIn(TokenCases)
  \/ StartIn(ToolCases)

Next ==
  \/ VerifyTransfer
  \/ StatusNext
  \/ SendNext
  \/ HistoryNext
  \/ IssuerNext
  \/ NeobankNext
  \/ StockNext
  \/ MarketNext
  \/ TradeNext
  \/ TokensNext
  \/ ToolsNext

Spec == Init /\ [][Next]_vars
=============================================================================
